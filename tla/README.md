# A verification project for redis-py

redis-py is the Python client of the Redis server. This directory holds TLA+ models
of the client, TLC configurations that check them on small instances, and TLAPS
proofs that hold for every instance. `PROJECT.json` maps each definition to the
lines of source it translates.

Contents: 1 the system, 2 the plan, 3 the modules, 4 the runs, 5 the proofs,
6 statements the code does not keep, 7 what is not modelled.

## 1. The system

### Components, their state, and how they interact

| component | source | state | operations |
|---|---|---|---|
| `ConnectionPool` | `connection.py` 1307-1643 | idle list, in-use set, count, pid, two mutexes | `get_connection`, `release`, `disconnect`, `reset`, `_checkpid`, `re_auth_callback` |
| `BlockingConnectionPool` | `connection.py` 1645-1812 | queue of slots, list of connections, pid | the same, waiting for a slot |
| `AbstractConnection` | `connection.py` 225-802 | socket, parser buffer, next health check, pending token | `connect`, `on_connect`, `send_packed_command`, `read_response`, `check_health`, `disconnect`, `re_auth` |
| `Redis` | `client.py` 112-690 | pool or single connection, its lock | `execute_command`, `parse_response` |
| `Retry`, backoffs | `retry.py`, `backoff.py` | failures of one call | `call_with_retry`, `compute` |
| `Lock` | `lock.py` | token (thread-local), key and TTL in the server | `acquire`, `release`, `extend`, `reacquire`, `owned` |
| `Pipeline` | `client.py` 1278-1623 | command stack, `watching`, `explicit_transaction`, connection | `watch`, `multi`, `execute`, `reset` |
| `PubSub`, its worker thread | `client.py` 730-1276 | subscribed and pending channels, health-check counter | `subscribe`, `unsubscribe`, `get_message`, `on_connect` |
| client-side cache | `connection.py` 804-1016, `cache.py` | shared cache, one lock per connection | `send_command`, `read_response`, invalidation |
| `RedisCluster`, `NodesManager`, `LoadBalancer` | `cluster.py` | slot table, nodes, pending MOVED, round-robin indexes | `execute_command`, `initialize`, `_update_moved_slots` |
| `ClusterPipeline`, `ClusterPubSub` | `cluster.py` | command stack per node | `execute` |
| Sentinel | `sentinel.py` | master address, slave counter | `discover_master`, `get_master_address`, `owns_connection` |
| `TokenManager`, events | `auth/`, `event.py` | timers, retry count, listener | `start`, `_renew_token`, `stop` |
| RESP parsers | `_parsers/` | buffer positions | `read_response`, `can_read` |
| asyncio versions | `asyncio/` | the same, shared by tasks | the same, with awaits |
| command builders | `commands/` | none, but for the builders of BITFIELD and of searches | build arguments, call `execute_command` |

A call of the application goes from a command builder to `Redis._execute_command`,
which takes a connection from the pool, sends the command under
`Retry.call_with_retry`, reads the reply and gives the connection back. The pool
calls the connection to connect and to look for unread data. The connection calls
itself recursively: `send_packed_command` may connect, connecting runs a handshake
that sends commands, and a health check sends PING, each of the last two under a
retry of its own. The token manager calls `re_auth_callback` of the pool from its
own thread, and the pool's `release` dispatches an event that makes the connection
re-authenticate. The lock, the pipeline and the cluster client are users of
`execute_command` or of the pool. A cached connection stands between the client and
the socket, shares its cache with the other connections of the pool, and learns
from the command builders which keys a command reads. The cluster client keeps a
client for each node and a table of slots, which the servers' MOVED errors correct.
The server acts on its own: it closes connections, answers late, expires keys,
pushes invalidations and messages, moves slots, and may execute a command whose
sender has gone.

### What is hard

* Threads share the pool, and a process with a pool may fork while other threads
  are inside it.
* A reply has no identifier. It belongs to a command only because the socket is in
  order and empty between commands, so every error path must leave the socket
  empty or closed.
* Retries are nested three deep and repeat commands whose effect is unknown.
* State that belongs to a connection at the server (WATCH, subscriptions, tracking)
  is gone when the connection is replaced, which a health check or a retry does
  without telling.
* A lease on the server runs out while requests about it are under way.
* The servers of a cluster disagree while slots move, and all threads correct one
  table through one pending error.
* Some 500 builders decide by hand which arguments are sent, in which order, and
  which of them are keys.

The full list, each at its line and with the properties that cover it, is
`hazards` in `PROJECT.json`.

### What makes each component correct

* Pools: a connection belongs to one thread; it is idle or in use, never both or
  neither; the limit holds; a child never touches a socket of its parent; a mutex
  is always given back; a renewed credential reaches every connection.
* Execution: an answer is the answer to the caller's command; the server executes
  a command at most once per attempt; every call ends.
* Lock: as long as a lease lasts the lock is its holder's; `acquire` tells the
  truth; an abandoned lock expires.
* Pipeline: EXEC succeeds only if the watched keys are unchanged since WATCH; no
  connection goes back to the pool while it watches; every method ends.
* PubSub: when nothing is left to read, client and server agree on the
  subscriptions; after a lost connection they are made again.
* Cache: what a read returns was the key's value at some time since the call; an
  entry that is no longer the server's value is announced as such.
* Cluster: a command is executed at most once per attempt; every call ends and
  holds no connection afterwards; redirections stop once the cluster has settled.
* Builders: no argument of an accepted call is dropped; a command that may be
  cached names its keys; a split command answers like the whole one.

## 2. The plan

Done, in this order: `ConnectionPool`, `BlockingConnectionPool` and the abstract
specification of both, `PoolContract`; `CommandExecution` with its abstract
specification `RemoteCall`; `Lock`, `NodesManager` and `ClusterClient`, `ClientCache`,
`Pipeline`, `PubSub`, and the command builders. All but the builders have theorems
(section 5): every safety invariant that a run checks about them is proved, and so
are the three refinements.

Next, in order of importance:

1. `Sentinel`: `ConnectionPool` with the other `owns_connection()` and a master
   that changes; then `TokenManager`.
2. A `PubSub` with a worker thread.
3. The asyncio pools, lock and client, with cancellation at every await.

## 3. The modules

Each component has one module with its state, its actions and its properties; a
module `MC...` gives TLC finite sets; a module `...Proofs` holds the theorems.
Definitions whose comment starts with *Mutant* are not part of the model: each is
a plausible wrong version of the definition that follows it, and shows that a
property notices it.

### ConnectionPool

One thread runs one operation at a time; `pc` says where. A step is what happens
between two points where another thread can interfere: the test of the pid, each
mutex, the two halves of `reset()` (the collections, then the pid, which the source
insists must be last), the body of a `with self._lock` block, and each network
operation of `get_connection`, which runs outside the lock.

* `available`, `inUse`, `created`, `poolPid` are the pool's attributes; `connPid`,
  `sock`, `auth`, `reAuth` are the connection's: its process, what `can_read()`
  would find, the token it authenticated with, and the token that waits for its
  release.
* `Fork` replaces the process by the child: only the calling thread survives, and a
  mutex that another thread held stays locked (`Orphan`).
* `NetworkEvent` makes data or an end of file appear on any open connection.
* `UseConnection` is what a caller does with a connection it holds. It may leave
  unread data behind, which is why `get_connection` looks for it.

### BlockingConnectionPool

The same threads and forks over a last-in first-out queue of `max_connections`
slots. There is no mutex: each queue operation is a step. A timeout of the queue
may happen whenever the queue is empty. The details of connecting are those of
`ConnectionPool` and are one step here, which succeeds or fails.

### PoolContract

What both pools promise, in terms of the process, the process that made each
connection and what each thread holds: `Reuse` hands out a connection of this very
process that nobody has, `Create` a new one while the process has made fewer than
the limit, `GiveBack` ends the use, `Fork` replaces the process and forgets the
other threads. Queues, stacks, mutexes, counts and resets are not in it. `Bounded` is
the set of processes in which the limit is kept: every one for `ConnectionPool`, the
first one for `BlockingConnectionPool`, whose child may exceed it (section 6).
`Contract` in each pool is the refinement mapping, `ImplementsPoolContract` the
claim.

### CommandExecution and RemoteCall

The callers take turns on one connection object, as the pool (see `Exclusive`) or
`single_connection_lock` makes them. The socket is two queues, `requests` and
`replies`. Closing it drops both, but each request the server had received may
still be executed (`late`). `pc` and `ctx` say where the caller is and which retry
it is in; `failures`, `pings` and `dials` are the counters of the three uses of
`call_with_retry`.

* Replies are values, error replies, or error replies that the parser raises as a
  `ConnectionError`.
* The handshake is two exchanges: one whose error reply is fatal (HELLO, AUTH,
  CLIENT SETNAME, SELECT) and one whose error reply is ignored (CLIENT SETINFO).
  A second AUTH for old servers has the same shape and is left out, and so is a
  health check nested in the handshake of `connect()`.
* A send that fails is not received by the server; one that succeeds on a connection
  the server has closed is lost.
* `retries` is finite; a negative value, which retries for ever, is excluded.
* `Interrupts` adds an exception between the send and the read.

`RemoteCall` says what is promised without mentioning a connection: a call is
executed at most `Attempts` times, possibly after it has returned, and answers with
its own command's reply, which the server has executed, or raises. `Remote` in
`CommandExecution` is the refinement mapping and `ImplementsRemoteCall` the claim.

### Lock

Threads share one `Lock` object. A request is executed by the server in one step
some time after it was sent; the caller may give up first, in which case the
request is lost or `stray` and executed later, and the client's retry policy may
send it again (`Resends`). Time is counted in milliseconds by `Tick`. `promise` is
not in the code: it is how long the answers so far entitle each token to the lock.
A promise starts when the server executes a request that a caller still waits for
and ends with the holder's `release()`; a stray request changes the store and
promises nothing. `doubt` is the tokens for which a request failed, or was sent
again while the first copy may still be executed: the caller was not told what has become of the lease, or a stray request may
still change it. The properties of the lease make an exception of those tokens;
section 6 shows why. The clocks of client and server are taken to run equally fast. The two
reads of `self.local.token` in `extend()` are one.

### Pipeline

One `Pipeline` object, transactional or not, whose methods are called in any order.
An exchange of commands and replies is one step, preceded by the health check that
`send_packed_command` makes (`CheckHealth`), which may replace a dead connection
without telling. `ver` counts the changes of each key by others, `srv` is what the
server keeps for the connection (the watched keys and whether one has changed),
`basis` is what the caller has watched: each key's `ver` when WATCH returned.
`basis` is not in the code, nor are `healed` (a health check has replaced the connection
since WATCH) and `lapsed` (a `reset()` has ended in a timeout since WATCH). `basis` is
forgotten where the caller has given up or used up its watch (`NothingWatched`): a
`reset()` that ends, an UNWATCH, an EXEC. An error reply to a queued command makes
EXEC abort; errors inside results change no state and are left out.
`reset()` sends UNWATCH when something is watched, and catches a `ConnectionError` only:
a timeout there leaves it with `watching` still set and the connection kept, while the
server, or the next connection, watches nothing.

### PubSub

One thread that subscribes, unsubscribes, reads and closes. Channels, patterns and
shard channels are handled by three copies of one piece of code and are one set.
`subs` is what the server believes, `channels`, `pending` and `flag` are the
object's `channels`, `pending_unsubscribe_channels` and `subscribed_event`.
`Connect` includes `on_connect`, which subscribes again. When that happens below
`execute_command`, which holds `_lock`, the thread waits for itself (`"stuck"`).
Health checks are off, their default.

### ClientCache

Callers over connections that share one `DefaultCache` with the LRU policy. A block
under `_cache_lock` is one step, except the send of a command that is not cachable,
which holds the lock over a health check. The lock belongs to the proxy connection, so
that between two connections one step is an abstraction. The server's side is the values, what it tracks
for each connection, and what it has written to each socket: replies,
invalidations, an end of file. `value[k]` counts the changes of a key, and even
numbers are nil, which the code does not store. `asked` is the requests the server
has received and not answered; with several callers one may be left behind by a
command that was answered from the cache. `CheckHealth` is the PING that the inner
connection sends before a command. When it fails, the inner connection disconnects
itself and connects again, which flushes nothing: `disconnect()` of the proxy is not
called. Entries read on the old socket are marked `lost`, which is not in the code, and
so is the call that is answered from one. The server may answer a read with an error,
which is raised and leaves the placeholder in the cache. A command that is not cachable
is a health check and one exchange, and on a connection with such a request behind it it is left out. One cache key is one key of the
server: see `CacheKeysTellApart` in section 6 for what that leaves out. The
`OrderedDict` is a set of entries, each of which knows the keys used less recently
(`older`); `MoveToEnd` and `EvictNext` are `LRUPolicy.touch` and `evict_next`.

### NodesManager and ClusterClient

`NodesManager` is the table that all threads share: `nodes_cache`, `slots_cache`,
`startup_nodes`, `default_node`, the pending `_moved_exception` and the load
balancer's indexes, with `initialize()` as a loop over the startup nodes
(`QueryStartupNode`) that fills temporary tables and a `SwapTables` at its end. The
slots of one range of CLUSTER SLOTS share one list object, so a patch of one slot
changes all of them (`shares`). `ClusterClient` has the calls: targets, retries, the
redirection loop with its TTL, the error handlers with their reinitializations,
and the passes of a `ClusterPipeline`. The cluster goes through a given sequence of
layouts, and every server learns of the next one in its own time; a migrating slot
answers ASK and TRYAGAIN, a lost one CLUSTERDOWN.

An exchange is one step in which the node's pool hands out a connection and takes
it back, by the pool's own promises. A pipeline's connections are kept in `held`.
A lookup of a node may raise: the slot has no node, the command's keys lie in two
slots or it has none (`Unroutable`), or its keys have to be asked for with COMMAND
GETKEYS, which fails (`Movable`). Between two connections of a pipeline no handler
releases the ones already taken; they move to `left`.

### Command builders

`CommandBuilder` says what a method of `redis/commands` can do with its arguments: a
builder is a sequence of guarded pieces, each of which adds words, refuses the call
or declares a key. `CoreCommands`, `ModuleCommands` and the first half of
`ClusterCommands` are the methods themselves, one record field each, grouped as in
the source. An argument is left out, false, given, given twice (lists), or one the
method refuses; its text is abstracted away. Arguments that a builder compares with
each other (the expiries) may also be equal: they take the value `Common`. The tables were compared with what
the library sends for calls of every method.

`ClusterCommands` has the commands that a cluster client splits by slot, with the
MGET, EXISTS, TOUCH, DEL and UNLINK of the servers as reference; the last two count a
key that is named twice once. `BitFields` is `BitFieldOperation`, whose
OVERFLOW words depend on the calls before. `CommandCalls` lets a caller vary
up to `MaxGiven` arguments of any method and states the properties. `Partner` and
`Absorbed` list what a parameter has no effect without. Most of it is in the methods'
documentation; the `stop` of JSON.ARRINDEX and the bounds of a time series' `filter_by`
are dropped without a word. `Repeated` is an expiry given beside another one of equal
value, which is dropped (section 6), and `KeysMissing` the two methods that name no keys.

## 4. The runs

| run | instance | shows |
|---|---|---|
| `pool_fork` | 2 threads, limit 2, 4 connections, 1 fork | `Exclusive`, `HandedOutHere`, `Accounted`, refinement of `PoolContract` |
| `pool_reauth` | 2 threads at a limit of 1, 2 renewals, fairness | `RenewalReaches`, `LockIsReleased`, refinement of `PoolContract` at its limit |
| `blocking_fork` | 3 threads, 2 slots, 1 fork | `Exclusive`, `NoSlotLost`, `PoolSize`, `ChildOwnsItsPool`, refinement of `PoolContract` |
| `exec_pool` | 2 callers, 2 commands each, 1 retry of every error, health checks | `ReplyIsMine`, `IdleIsClean`, `OneInFlight`, refinement of `RemoteCall` |
| `exec_single` | 2 callers on a single connection, 1 retry of timeouts, interrupts, fairness | `BoundedEffects`, `Terminates` |
| `lock_lease` | 2 threads, 2 tokens for one and 1 for the other, lease of 2, resends, 1 stray request, fairness | `LeaseHonoured`, `TTLCoversPromise`, `AbandonedExpires` |
| `pipeline` | 2 keys, 2 changes of each, 2 staged commands, 1 retry, health checks, fairness | `Isolated`, `ReleasedClean`, `Returns` |
| `pubsub` | 2 channels, 4 calls, 2 lost connections, fairness | `InSync`, `FlagMatches`, `Recovers` |
| `cache` | 1 caller, 2 connections, 2 keys, a cache of 1 entry, 3 changes, 1 lost connection, health checks | `TypeOK`, `ReadsItsReply`, `FreshReads`, `StaleIsAnnounced` |
| `cluster` | 1 thread, 3 nodes, 2 slots: one migrates, one is lost; 1 fault, 1 retry, reinitialization on every second MOVED, a pipeline over both slots, the lost one first, commands that have no one slot or whose keys must be asked for, fairness | `BoundedEffects`, `NothingHeld`, `OnlyFailedRetried`, `Terminates` |
| `cluster_shared` | 2 threads, 2 nodes, a failover, 1 fault, no forced reinitialization, fairness | `Converges` |
| `commands` | every method, up to 3 arguments that differ from the plain call | `NothingDropped`, `KeysDeclared`, `SplitAnswersAlike`, `OverflowAsAsked` |

**Bounds.** Two threads are what mutual exclusion, forks and renewals need; in
`blocking_fork` a third one waits while two others hold everything. A limit of two
connections lets one be idle while the other is in use; a limit of one makes
`make_connection` refuse. The connections that may ever exist are the limit for
each process, so no run stops for want of one; the blocking pool has one more,
because a child may exceed the limit. Two commands for each caller let a reply of
the first be taken for the second; one retry reaches both sides of
`failures > retries`. A lease of 2 passes through 1 and 0, and with two tokens of one thread a
late release can meet the same thread's next lease. In `pipeline`, a key that
changes twice can change before and after WATCH. In `pubsub`, four calls are
enough to subscribe, unsubscribe and subscribe again around a lost connection. A
cache of one entry makes every second key evict the first, also while its reply is
on the way. In `cluster`, TTL is 2 instead of 16 and one disagreement between
servers is already too many instead of six, so that both limits are reached; two
layouts are a cluster before and after a change, and every order in which the
servers learn of it is tried. Three arguments are what the longest condition of a
builder tests together. `SplitAnswersAlike` goes over all sequences of up to four of three
keys, all ways to put them in two slots, and all sets of missing keys;
`OverflowAsAsked` over all sequences of four calls. All invariants but those of the
command builders are also proved, without these bounds.

**Symmetry** is used only in runs without liveness properties, over threads,
connections and keys, which are interchangeable.

**Deadlock** is checked except where a run may stop: in `pool_fork`, where a child
may inherit a locked mutex; in the `exec_` runs, where callers stop after
`MaxCalls` commands; in `pubsub`, where the calls are bounded and a thread may wait
for itself; in `cache`, where the changes are bounded and a thread may wait for its own
`_cache_lock`; and in `commands`, where a call is complete at some point.

**Fairness.** `pool_reauth`: a thread inside a pool operation is scheduled; nobody
has to call, and the network owes nothing. `exec_single`: each step of the caller
happens, which includes that a read ends with a timeout (a `socket_timeout` is set),
and a caller that keeps asking for the connection gets it; the server owes nothing
at all. `lock_lease`: time passes and threads inside a call go on; a lost request
stays lost. `pipeline`: a method that was called goes on, and an exchange ends with a
reply or an error. `pubsub`: a call goes on, and the thread keeps calling
`get_message`, as the worker thread and `listen()` do. `cluster`, `cluster_shared`:
threads go on and keep calling, and every server eventually learns the last layout;
`Converges` would mean nothing for a cluster that never agrees.

`TypeOK` is proved for every component but the builders, which keep none; a run checks it for `ClientCache`, where it says
how many entries the cache may have.

## 5. The proofs

Each theorem holds for every value of the constants that satisfies the module's
`ASSUME`; where it assumes more, that is said here and in its statement. The
assumptions say that sets are finite, limits positive, special values different. The
inductive invariants were checked by TLC before they were proved.

### ConnectionPoolProofs

`TypeCorrect`, `ExclusiveUse`, `NoInheritedConnection` and
`EveryConnectionAccounted` hold for every number of threads, connections, forks and
renewals. None of the three safety invariants is inductive. The inductive invariant
adds: a mutex is held by the thread that is inside its section (`Mutexes`); a thread
past `_checkpid` works in a pool of this process, and while one thread resets no
other is inside (`Passed`); only a pool of this process makes connections of this
process (`Births`); a thread that asks holds nothing and what a thread holds is in
use (`Holding`); the stack has no duplicates and is disjoint from the in-use set
(`Collections`); the count is the cardinality of the connections made (`Count`).
Each part has a lemma with one step per action. `Passed` is what the order inside
`reset()` is for: with the pid assigned first, it fails.

`RenewalReachesAll` assumes that no AUTH fails on release (`~ReleaseAuthFails`);
`pool_reauth_stale.cfg` shows that it must. A renewal visits the idle connections
at once and leaves a token with the others, while threads connect, give back and
fork around it. `Renewal` says that one callback runs at a time, that nothing
waits in an idle or unmade connection, and that after a renewal no older token
waits anywhere and whoever is about to open a socket was told.

`KeepsTheContract` proves that the pool implements `PoolContract`. A fork inside
`get_connection` is what makes it more than `Exclusive`: the child goes on with the
parent's pool in its hands, and a connection made, found or returned there must be
the child's or be in nobody's. The invariant above says which threads can be
there; each action is then a step of the contract (`PopConnection` is `Reuse`,
`MakeConnection` is `Create`, either form of release is `GiveBack`) or leaves what
it mentions alone. That `Create` respects the limit needs `Count`: the code compares
a counter, the contract counts connections.

### BlockingConnectionPoolProofs

`TypeCorrect`, `ExclusiveUse`, `SlotsAreKept`, `PoolSizeKept` and
`NoInheritedConnection`. The pool has no mutex around its queue, so the invariant
has to say what each thread owes the queue while it is on its way: who asks has
nothing, who releases has something, who connects holds a connection of this
process, and what is held is held once (`Holding`) and is not queued (`Queued`).
The slots are those in the queue and those of the threads that have taken one, and
each action moves a slot from one to the other.

`KeepsTheContract` proves the same contract for this pool, with the limit in the
first process. Nothing in the code counts connections: that there are never more
than `max_connections` follows because a thread makes one only for a slot it took,
and because no connection is ever lost from the queue and the threads' hands
(`NothingDropped`), so that connections and empty slots together are the size of the
queue. `OnlyAChildDrops` and `OnlyAChildRaises` are the two halves of that for a process
that was not forked (`NoFork`): `release()` finds room (`RoomToRelease`), so it neither
drops the connection nor raises `queue.Full`. `blocking_full.cfg` (section 6) shows both
in a child.

### CommandExecutionProofs

`EveryReplyIsMine`, `ReturnedConnectionIsClean` and `OnlyOneInFlight` hold for every
number of callers, commands and retries, assuming `~Interrupts`; `exec_interrupt.cfg`
(section 6) shows that the assumption cannot be dropped. The inductive
invariant says that outside an exchange the socket is empty, and inside one it
carries the request awaited, or its reply, or nothing (`Traffic`). Each error path
has to show that it leaves the exchange with the socket closed.

`EffectsAreBounded` needs no such assumption. `Budget` counts, for each command, its
executions, the late ones still possible and its requests in the socket, and
bounds them by the failures counted so far plus the present attempt.

`TypeCorrect` and `ImplementsTheRemoteCall` (`~Interrupts` again) use both, with the
fact that a reply on its way to a caller is that of an execution (`Answered`). The
refinement is proved step by step: each action maps to a step of `RemoteCall` or to
none. With interrupts a caller may take a PONG for its answer, which is no
outcome `TypeOK` allows.

### LockProofs

`LeasesAreHonoured` and `ServerOutlivesPromise` hold for every number of threads,
every timeout except 0, all extensions, and any pattern of late, lost and repeated
requests, for the tokens that are not in `doubt`; `lock_zero.cfg` shows why 0 is
excluded, `lock_stray.cfg` why doubt is. What is proved about a token is thus that no
request of anybody else, however late, and no expiry takes the lock before the time
its holder was told, as long as the holder's own requests were answered. The inductive invariant joins the two
properties with what may be under way: every stray request is for a token in doubt,
`extend` and `reacquire` requests exist only
for locks with a timeout (`Sendable`), and only a lock without timeout is promised
for ever. Every request the server can execute does one of four things to the store
(lemma `Effects`), and each keeps the lease. `TypeCorrect` holds for the timeout 0
too: a time to live after an extension is a time only because a lock that never
expires is never extended (`Times`).

`FalseIsTrue` assumes `~Resends`, that is, a client whose retry policy does not repeat
a request, and allows every timeout: `acquire()` then returns `False` only for a lock it
has not taken. The invariant is that a token is in the store or in a request only if
it was drawn, and that the token of a `SET` under way is the newest of its thread,
neither stored nor in an abandoned request, so that only this `SET` can store it
(`FreshTokens`). `lock_retry.cfg` shows that the assumption is needed.

### PipelineProofs

`TransactionsIsolated` and `ConnectionReleasedClean`. The server's list of watched
keys, the client's flag `watching` and what the caller has watched are three accounts
of one watch, kept on two sides of a connection that may be replaced. What the
server watches the pipeline knows of, and it has the connection (`ServerWatch`); what
the caller has watched it knows of until `reset()` (`CallerWatch`); and a watched key
is watched by the server at the caller's version, or EXEC is going to fail, or a
health check has replaced the connection, or a `reset()` has ended in a timeout
(`Guarded`).

`IsolatedUnchecked` (`IsolatedUntilTimeout`) drops the first exception for a pipeline without
health checks, or without retries for them: the connection of a watching pipeline is
then never replaced silently. The second one stays: a timed-out UNWATCH needs no health
check, see `pipeline_timeout.cfg` in section 6.

### PubSubProofs

`SubscriptionsAgree` and `EventMatches`. Until everything is read, client and server
may disagree; the invariant says by how much. On a live connection the server has
nothing the client does not have (`ServerKnown`), a channel both have is pending
only while the call that unsubscribes it is running (`PendingAsked`), and what only
the client has is pending with the confirmation on its way (`RestSettles`).

### ClusterClientProofs

The invariant is `Manager`, about the shared tables and about each `initialize()` that
is running, and `Calls`, about the local variables of each call. `TypeCorrect` needs
it because one thread's swap changes the table under the others: a list of nodes
must fit the load balancer's index, and a patch after MOVED must not empty a
list, whichever layouts the servers report.

`EffectsAreBounded` keeps an account for each command: executions so far, what the
present attempt or pass may add (`Now`), and what the attempts or passes left may add
(`Later`), together at most the bound. Every action either spends one of these or
moves it to the next.

`ConnectionsReleased` has no assumption: over every failing connect, exchange and
`initialize()` and over every pass, a call that has ended has released what it took,
except what an exception in the lookup of a node has left behind (`left`).
`NothingLeftBehind` is about that exception. It assumes `Certain`: full coverage, so that a
table with a slot that has no node is never installed, and only commands with one slot
that the client finds by itself. `cluster_crossslot.cfg` (section 6) shows that both
halves are needed.

`SendsAgainWhatFailed` is about the second half of a pass, where the failed commands
are sent again one by one through all of the redirection and retry code while the
results of the others wait. `Mending` says that the collection is empty until the
batches are done, that what is left in it has a result that may be retried, and
that the command being sent is one of those and no longer in it.

### ClientCacheProofs

`TypeCorrect` holds for any number of callers: no sequence of `set`, `get`, evictions
and invalidations leaves more than `max_size` entries or two for one key. It
needs that the entries are in a linear order, so that there is always an oldest one
to evict (`OldestExists`, by well-foundedness of strict inclusion).

`FreshForOneCaller` and `StaleEntriesAreAnnounced` are about one caller (`Threads = {t}`)
over any number of connections and keys; with two callers the statement is false, see
`cache_two.cfg` in section 6. They make an exception of entries that outlived the socket
they were read on, which a health check can bring about; `FreshUnchecked` and
`AnnouncedUnchecked` prove the statements without the exception where there are no health
checks (nothing is then ever `lost`), and `cache_health.cfg` refutes them where there are. The invariant `Coherent` says, for everything that
may be served, that it is current and tracked, or that the news is behind it on the
same connection: for entries (`Entries`), for replies that are on their way
(`Replies`), for a reply that was read and is not yet stored (`Recent`). A temporary
entry and a request belong to the command under way (`Temporary`, `Requests`), and
what a command has found is no older than its call (`Recent`).

`OwnReplyForOneCaller` follows from the same invariant: at most one answer is owed, to
the command under way, on its own connection. `cache_two.cfg` shows that with
two callers a connection may go back to the pool with an answer owed.

### Checked by TLC only

Liveness (`LockIsReleased`, `Terminates`, `AbandonedExpires`, `Returns`, `Recovers`,
`Converges`) and fairness are beyond the prover. The properties of the command
builders are about finite tables, which TLC goes through; what the split commands
answer is a fold over their arguments, which would need induction over data.

## 6. Statements the code does not keep

Each of these is stated in a module, and TLC refutes it with the configuration named
here: `tlc -config <file> <module>`. A configuration that stands for several statements
checks the first and names the others in a comment. The comments of the code they come from are
quoted. Where a run of section 4 states a weaker property, this is why.

| statement | configuration, module | what happens |
|---|---|---|
| `LockObjectReset` | `pool_lockobject.cfg`, `MCConnectionPool` | the constructor's comment says that after a fork the first thread "will reset the data structures and lock object of this pool"; `reset()` does not replace the mutex, and a child forked inside a critical section blocks for ever |
| `RenewalReaches` | `pool_reauth_stale.cfg`, `MCConnectionPool` | a token whose AUTH failed on release stays pending and later replaces a newer one |
| `ReleaseNeverRaises` | `blocking_full.cfg`, `MCBlockingConnectionPool` | releasing a connection of the parent in the child raises `queue.Full`; when the queue is not full it adds a slot instead, which is why `PoolSize` is stated for a process that was not forked; there `OnlyAChildRaises` is proved |
| `ReplyIsMine` with interrupts | `exec_interrupt.cfg`, `MCCommandExecution` | an exception between send and read lets a later caller read the reply, since the pool's check sees only data that has already arrived |
| `FalseMeansNotAcquired` | `lock_retry.cfg`, `MCLock` | a repeated SET NX fails against the lock's own token, and `acquire()` says `False`; without resends it is proved (`FalseIsTrue`) |
| `LeaseHonoured` with `timeout=0` | `lock_zero.cfg`, `MCLock` | 0 means no expiry to `acquire` and deletion to `reacquire` |
| `AnswersAreKept` | `lock_stray.cfg`, `MCLock` | `extend(1, replace_ttl=True)` fails in the client and is still on its way; `reacquire()` then returns `True` for the whole timeout, the late request cuts the lease down to 1, and the lock is gone before the time `reacquire()` stands for |
| `AlwaysIsolated` | `pipeline_timeout.cfg`, `MCPipeline` | UNWATCH times out in `reset()`, which catches `ConnectionError` only: the pipeline is still watching, the caller may go on with it, and EXEC succeeds although a key it had watched has changed; no health check is needed |
| `NeverWaitsForItself` | `pubsub.cfg` (comment), `MCPubSub` | `execute_command` connects while it holds `_lock`, and `on_connect` subscribes again, which takes `_lock`: after a lost connection and an error raised to the caller, the next `subscribe()` or `unsubscribe()` never returns |
| `WaitsForItsReply` | `cache_health.cfg` (comment; also with `HealthChecks = FALSE`), `MCClientCache` | a command whose key another connection cached is not sent, although the invalidations it reads there delete the entry; it waits for a reply nobody was asked for, until the socket's timeout. An error reply has the same effect: its placeholder stays, and another command for the key finds it, is not sent and waits |
| `FreshReads` with two callers | `cache_two.cfg`, `MCClientCache` | the comment in `read_response` says "Cache only responses that still valid and wasn't invalidated by another connection in meantime"; it looks for a placeholder, and the one it finds may be another caller's, set after the invalidation: the second caller is served the stale reply |
| `ReadsItsReply` with two callers | `cache_two.cfg` (comment), `MCClientCache` | a caller has set its placeholder and sent its command when the late reply of another, whose own placeholder was flushed or evicted, is stored in it; `read_response` serves that entry, the caller's own reply stays behind, and the next command on the connection reads it |
| `AlwaysFresh`, `AlwaysAnnounced` | `cache_health.cfg`, `MCClientCache` | the health check in the inner connection's `send_command` fails and connects again; `CacheProxyConnection.disconnect`, which flushes, is not called, the server tracks nothing for the new socket, and an entry read on the old one is served after its key has changed |
| `NeverStuck` | `cache_health.cfg` (comment), `MCClientCache` | a command that is not cachable is sent under `_cache_lock`; an invalidation that arrives before the PONG of its health check is handled by `_on_invalidation_callback`, which takes the same `Lock` |
| `CacheKeysTellApart` | `commands_equal.cfg` (comment), `CommandCalls` | the cache key is the command's name and keys, so SMISMEMBER of one set with other members, or ZRANGE with and without WITHSCORES, share an entry |
| `NothingEverDropped` | `commands_equal.cfg`, `CommandCalls` | `set`, `getex`, `hsetex` and `hgetex` compare the expiries as a set, so `ex=10, px=10` passes the check that allows one, and `extract_expire_flags`, a chain of `elif`, sends `ex` only |
| `OnlyFailedAgain` | `cluster_pipeline.cfg`, `MCClusterClient` | `_send_cluster_commands` says "we only retry the commands that failed"; when a connection breaks while replies are read, the answered commands of that node are sent again too. In terms of the results the pipeline keeps, the comment is true and proved (`SendsAgainWhatFailed`) |
| `NothingLeft` without full coverage | `cluster_crossslot.cfg` (comment), `MCClusterClient` | `_send_cluster_commands` determines the node of each command outside of its `try`; when a later command's slot has no node, the error leaves the method with the connections it has already taken for the earlier ones, and they are never released |
| `NothingLeft` with full coverage | `cluster_crossslot.cfg`, `MCClusterClient` | the same after `set(a)` and an EXISTS of keys in two slots: `determine_slot` raises when the connection for `a` has been taken. A command without keys and a failing COMMAND GETKEYS end the same way |

`AlwaysIsolated` fails under the constants of `pipeline.cfg` too, in another way: a health
check replaces the connection of a watching pipeline, and EXEC runs without the WATCH.

Seen while modelling, in tables that follow the code as it is:

* The thread-local token of a lock exists only in the thread that created the lock
  or acquired it, so in any other thread `owned()` and the operations on a held
  lock raise `AttributeError` (action `NoAttribute`).
* `zrevrange` passes its name where a list of names is expected, and
  `xpending_range` no keys (`KeysMissing`).
* `hscan(no_values=False)` sends NOVALUES; `append_no_scale` and `append_no_create`
  test `is not None` in the same way; `sort_ro` sends SORT; `geosearch` drops a
  radius or count of 0; `profile` of an aggregation drops its query parameters.

## 7. What is not modelled

* The asyncio versions of the modelled classes: they interleave at awaits only, and a
  cancellation can come at each, so they need models of their own.
* Sentinel and `TokenManager`: planned. The pool's side of a credential renewal is
  in `ConnectionPool`.
* `PubSubWorkerThread`, health checks of a `PubSub`, `ClusterPubSub`.
* In `ClientCache`, a connection that holds its own `_cache_lock` while it reads from
  another connection whose handler takes that one's, and the `disconnect()` of the inner
  connection that a failed re-authentication makes.
* In `RedisCluster._execute_command` (1155-1260), `connection` is not reset between two
  rounds of the redirect loop: when a later round's lookup or `get_connection` fails, the
  connection of the round before, already released, is disconnected and released again.
  In the model each round has a connection of its own.
* The RESP parsers and reply post-processing: pure functions of a buffer or a reply.
* `scan_iter` and the other iterators, `Script` and `Function` helpers, the query
  string helpers of the search commands: they call modelled builders in a loop or
  put text together.
* TLS and OCSP (cryptography and I/O), `Monitor` (a loop over `read_response`),
  backoffs (a waiting time no decision depends on), CRC16 (the standard library's),
  `set_retry` (configuration), URL parsing.
* `_created_connections` is counted before the constructor of a connection runs, and
  `max_connections=0` means no limit; both concern invalid arguments and are left out.

# Verification of pyrsedis

TLA+ models of the Redis client in `src/src/`, checked by TLC on small
instances, with TLAPS proofs of the main results for every instance.

## 1. The system

pyrsedis is a Redis client for Python written in Rust.  A Python thread calls a
method of `Redis` (client.rs), which releases the GIL and blocks on a task of
one shared Tokio runtime (runtime.rs).  The task runs a router
(router/standalone.rs), which borrows a connection from a pool
(connection/pool.rs), writes RESP commands to it and reads RESP frames from it
(connection/tcp.rs, resp/), and gives it back.  Any number of threads share one
client, hence one pool.  The sentinel and cluster routers implement the same
trait over several pools; the Python classes use the standalone router only.

| Part | State | Operations | Interacts with |
|---|---|---|---|
| connection pool | idle deque, semaphore, permits held by guards | `get`, `take_healthy_connection`, `create_connection`, `return_connection`, `PoolGuard::drop`, `take` | TCP connection, every router |
| TCP connection | socket, `buf`, `last_used`, read timeout | `connect_timeout`, `init`, `send_raw`, `read_response`, `read_raw_response` | server, RESP parser |
| standalone router | one pool | `execute`, `execute_raw`, `pipeline`, `pipeline_raw` | pool, connection, client |
| sentinel router | master address, pool, sentinels | `execute_with_retry`, `failover`, `resolve_master`, `pipeline` | pools, sentinel servers |
| cluster router | slot map, pool per node | `execute_routed`, `execute_on`, `refresh_slots_from`, `ensure_pool_for`, `pipeline` | pools, hash slots |
| hash slots | none | `crc16`, `hash_slot`, hash tags | cluster router |
| RESP parser, writer | none | `parse`, `resp_frame_len`, `encode_command`, `encode_pipeline` | connection |
| response, graph | none | conversion of RESP values to Python objects and graph results | client |
| client API | router, queued commands of a `Pipeline` | command methods, `Pipeline.execute`, `reset`, constructors | standalone router |
| configuration, errors | none | URL parsing, error kinds and their exceptions | all |
| runtime | one Tokio runtime | `block_on` | client |

The behaviours that are hard to test:

* tasks interleave between the semaphore, the deque lock and the awaits of
  connect, write and read;
* an error leaves a call in the middle of an exchange, and the guard's
  destructor returns the connection whatever state its stream is in;
* a read timeout races with the reply it gave up on;
* the server closes a connection that is idle, or between two replies of a
  pipeline; a reply does not fit the buffer;
* idle connections expire while others are being returned;
* failovers, slot refreshes and redirections by several tasks at once, and
  pipelines that hold a connection of one node while they wait for another's;
* a `Pipeline` is used by a second thread while `execute` has released the GIL;
* two decoders of the same bytes, and two builders of every command, have to
  agree.

`PROJECT.json` lists the hazards at their lines, with the properties that cover
them.

## 2. Modules

| Module | Content |
|---|---|
| `LeasePool` | what a pool promises: exclusive loans of at most `Limit` connections |
| `ConnectionPool` | pool.rs, one action per await point or critical section |
| `StandaloneRouter` | standalone.rs and tcp.rs over `ConnectionPool`, with the server's side of each connection |
| `SentinelRouter` | sentinel.rs, with servers that crash, restart and change roles and sentinels that learn of it late |
| `SlotMap`, `ClusterRouter` | look-up and update of the slot map as operators on sets of ranges; cluster.rs over it, with a cluster that migrates slots |
| `ReadBuffer` | growth of the read buffer in tcp.rs, in bytes |
| `RedisErrors`, `ClientSession` | error.rs; constructors, handshake, calls by several threads and conversion of replies in client.rs |
| `ClientPipeline` | one `Pipeline` object shared by threads |
| `ClientCommands` | the words that the methods of `Redis` and `Pipeline` send |
| `Client` | `ReadBuffer`, `ClientSession`, `ClientPipeline` and `ClientCommands` side by side: what a client does on its own side |
| `Resp`, `RespStream`, `RespIntegers` | resp/parser.rs and resp/writer.rs as operators on byte sequences; frames that arrive byte by byte at the two read paths of tcp.rs; the integer parsers |
| `Response` | response.rs: the two-pass and the single-pass conversion to Python objects |
| `GraphResult` | graph.rs, and a server that builds and encodes results |
| `ClusterSlots` | `SlotMap::from_cluster_slots` over RESP values, and its bisection |
| `KeySlot` | key extraction and the read-only table of cluster.rs, crc16.rs |
| `ConnectionUrl` | config.rs, and an author of URLs |
| `MC...` | values of constants for the runs; `MCClient` explores the parts of `Client` and, through `MCConversions`, the conversions one at a time, so that the state space is the sum of the parts' |
| `ConnectionPoolProofs` | theorems about the pool |
| `StandaloneRouterTypes`, `StandaloneRouterStreams`, `StandaloneRouterProofs` | theorems about the standalone router: use of the pool and types; effects of one step on one stream; the invariant and what follows |
| `SentinelRouterFailover`, `SentinelRouterProofs` | theorems about the sentinel router, for one call at a time and for many |
| `ClusterRouterProofs` | theorems about the cluster router |
| `ClientProofs` | theorems about the read buffer, the `Pipeline` object, the `Redis` object and their methods |

Definitions introduced by "Mutant of ..." are deliberately wrong variants of the
definition that follows them.  Nothing uses them; each documents a bug that one
of the properties catches.

### ConnectionPool

`permits` and `waiters` are the Tokio semaphore, a FIFO queue with direct
hand-off.  `idle` is the deque, its back the last element.  `pc[t]` is the
task's position in `get` or `PoolGuard::drop`; `conn[t]` the connection it owns;
`taken` what `PoolGuard::take` moved out; `elapsed[c]` is
`last_used.elapsed()`, which stops growing one tick past the timeout because the
code only compares it with the timeout.

`Acquire` is `semaphore.acquire().await`.  `TakeIdle` and `TakeNone` are the two
results of `take_healthy_connection` under the lock.  `Connect`, `ConnectErr`,
`InitOk` and `InitErr` are the awaits of `create_connection`.  `DropStale` and
`DropGuard` are the age check of `return_connection`, which happens before the
lock; `PushIdle` is the part under the lock.  `Release` drops `_permit`: Rust
drops the fields of `PoolGuard` after `Drop::drop` has run, so the connection
goes back before the permit, and the order is a separate step.

### StandaloneRouter

Each action conjoins a pool action with what the router and the connection do in
the same step.  A command is named by its task, the number of the call and its
position in the pipeline; a reply is named by the command it answers, so that
"this is the reply to that command" can be stated.  `wire[c]` lists the commands
whose replies have not been consumed, oldest first: the first `answered[c]` are
answered, and the first `buffered[c]` of these replies are in
`RedisConnection.buf`.  `big[c]` are those that do not fit `max_buf_size`.
`peer[c]` is "closed" once the server has closed (a write may still succeed and
be lost) and "reset" once a write has failed.  `failed[c]` is a history
variable.

`execute`, `execute_raw`, `pipeline` and `pipeline_raw` have the same control
and differ in how a reply is decoded, so one family of actions models all four;
a single command is a pipeline of one.  `Call` starts a call; `Write` is
`send_raw`; `ReadSocket`, `ParseReply`, `TooLarge`, `ReadTimedOut` and `ReadEof`
are the paths through `read_response` and `read_raw_response`; `Finish`, `Fail`,
`GiveBack` and `Return` end the call.  `Serve` and `ServerClose` are the server.

Abstractions: a frame is the unit of reading, so a partly received frame counts
as not yet answered.  The handshake's own commands are not on `wire`: a
connection whose handshake fails is dropped.  Identities of closed connections
are reused; `Opened` resets everything that belongs to the stream.

### SentinelRouter

A connection is a record of its node, the node's epoch when it was made, and the
replies it still owes; it is dead once its node is down or has restarted.
`master_pool` is a number of a pool, because calls that started before a failover
keep the `Arc` of the old pool (`held`).  An attempt of `execute_with_retry` is
`Get`, `Send` and a read, and `Retry` decides what a failure leads to; `failover` is
`Resolve`, `Compare`, `SwapPool` and `StoreAddr`, since the code releases its locks
between them.  `pipeline` uses the same connection steps without retries.  The
environment crashes, restarts and promotes servers (`Faults`, `MaxFaults`), and
sentinels learn of it one by one (`Learn`), cannot be reached, or never answer: a
task may stay in `Resolve`, where the code reads without a timeout.  `calm` is set
once the master is up and all sentinels name it; no fault follows.

Abstractions: a pool has a permit for every task (permits are `ConnectionPool`'s
subject), and a server answers a command when it is sent.

### ClusterRouter

A call is a record whose `pc` is the position in `execute_routed`, `execute_on`
or `pipeline`; `left` is `redirects_left`; `conn` and `held` are the guards of
`execute_on` and of a pipeline's group, so that a redirection inside a pipeline
holds one pool's connection while it waits for another's (`PoolSize`).
`RefreshRead` and `RefreshInstall` are the two halves of the background refresh:
what was read from a node may be old by the time it is installed.  The cluster
(external) migrates slots of one key each (`Migrate`, `Migrated`), spreads the
news one node at a time (`Gossip`), and answers MOVED, ASK, TRYAGAIN and
CLUSTERDOWN as Redis does.

### Client

`ReadBuffer` keeps capacity, length and the size of the frame being received;
`Reserved` is the range of capacities that `BytesMut::reserve` may produce
(`Surplus`).  `ClientSession` has the constructors, `get` from the pool with
AUTH and SELECT on a new connection, the server's execution of a command and
the conversion of its reply to a value or an exception.  A call may time out or
find its connection broken, executed or not; the connection goes back to the
pool, and one on which a read timed out is `late`: what is read on it may be the
reply to an earlier command (`own` is false then).

`ClientPipeline` has the queue, the PyO3 borrow that `execute` holds while the
GIL is released, and the exchange: `SendBatch` writes the whole batch, `Serve` is
the server executing one command of a connection, `PipelineRaw` reads the
replies.  `ReadTimedOut` leaves the rest of the batch with the server, which goes
on with it, also while a later `execute` uses another connection or the same;
`Broken` loses any part that the server had not received.  `executed`, `batches`,
`accepted` and `failed` are history variables.

### Conversions

`Resp`, `Response`, `GraphResult`, `ClusterSlots`, `KeySlot`, `ConnectionUrl`
and `ClientCommands` translate the pure functions as operators, recursive where
the code is.  Around each is a small state machine that builds an input step by
step, and the property compares what the code computes with a reference
definition: what the server encoded, the number the digits denote, the
remainder of a polynomial division, the configuration the URL was written for.

Integers have `IntBits` = 8 bits in the parser, whose algorithm does not depend
on the width; CRC16 is on 16 bits.  Byte strings are sequences of characters with
CR, LF and one byte that is not UTF-8; URLs are sequences of tokens (separators
are single characters).  `MAX_RESP_ELEMENTS`, `MAX_PARSE_DEPTH` and
`MAX_BIGNUMBER_LEN` are made small enough for the inputs to reach them.

## 3. Runs

| Run | Instance | Checks |
|---|---|---|
| pool | 3 tasks, 3 connections, size 2, timeout of 1 tick | permits, bound, ownership and wake-ups, `LeaseContract`, `GetEnds` |
| router | 2 tasks, 1 connection, pipelines of up to 3, socket with room for 2, read timeout, both faults, a server that owes nothing | `AlignedUnlessTimedOut`, `StreamsAligned`, `ReturnsUnlessBlocked` |
| sentinel_safety | 2 tasks, 2 servers, 2 faults, commands and pipelines, no read timeouts | `RepeatedOnlyIfBroken`, `OwnReplies` |
| sentinel_failover | 1 task, 3 calls, 2 servers, 2 sentinels, 2 faults, timeouts, sentinels that cannot be reached | `CalmCallsSucceed`, `CallEnds` |
| cluster_safety | 2 tasks, 2 nodes, 2 slots in one range, 1 migration, commands and pipelines of 2, no faults | `AtMostOnce`, `OwnReplies`, `RangesDisjoint` |
| cluster_ends | 1 task, 2 calls, 3 nodes (one a replica), 2 redirections, 1 migration, all faults | `CalmCallsSucceed`, `CallEnds` |
| client | buffer: capacity 3, limit 8, frames of 1 to 12; session: 2 threads calling `set(nx=True)` and `select`, pools of 0 and 2, 2 databases, timeouts and broken connections; pipeline: 2 threads, 2 connections, 3 commands, timeouts and broken connections; methods: up to 2 further arguments; conversions (`MCConversions`): replies of up to two levels, numerals of up to 4 bytes, graph results of up to 2 cells, 3 ranges over 4 slots, keys of up to 4 bytes, URLs of up to 2 hosts | the properties of `Client`, and seven comparisons with reference definitions |

The passing runs have between 114,000 (pool) and 1.7 million distinct states
(sentinel_safety).

Why these bounds: three tasks over two permits give a waiter, a holder and a
returner at once.  Two tasks over one connection are the smallest instance in
which a connection is reused after a failure, pipelines of two are the smallest
that can fail half-way, and one of three does not fit a socket with room for two
unless the server reads.  Three commands on two connections are the smallest
pipeline in which the rest of a batch that timed out is overtaken by the next
batch.  Two faults let a server crash and another be promoted.  One migration of a
slot that shares its range with another is enough for a MOVED reply to change a range
too much and for a refresh to undo it.  Frames up to 12 bytes over a limit of 8
lie below, at and beyond it.  Bounds that are not the code's own are `MaxCalls`,
`MaxBatch`, `MaxFaults`, `MaxMoves`, `MaxCommands`, `SocketRoom` and the cap on
`elapsed`.  Tasks are symmetric in the safety runs of the sentinel and cluster
routers.  The deadlock check is off in the sentinel and cluster runs, where all calls may have
been made; that no call hangs is `CallEnds`.  In the run client an input that is
complete stays as it is.

Five runs show where the code departs from its documentation or its tests:

* **router_late_reply** (`AnswersMatch`): a read timeout leaves `execute` by
  `?`; the guard returns the connection with the reply outstanding; the next
  call on it gets that reply.  docs/advanced/pipelines.md:16 says "Results are
  returned in the same order as the commands."
* **sentinel_race** (`CalmCallsSucceed`): `failover` compares the address, replaces
  the pool and replaces the address in separate steps.  Two that interleave leave
  the pool of one master beside the address of another, every later failover
  takes the address for up to date, and commands keep failing with READONLY.
  sentinel.rs:26 says "On connection failure or READONLY error, re-resolves the
  master and retries."
* **cluster_one_connection** (`CallEnds`): `pipeline` follows a redirection with the
  guard of the group in hand.  When the redirections lead back to the group's node,
  it waits for the permit that its own guard holds.  docs/advanced/pooling.md:32
  says "If your app uses 4 threads hitting Redis, `pool_size=4` is sufficient."
* **client_errors** (`RaisedAsDocumented`): the server answers with the errors of
  every row of the table in docs/advanced/errors.md, and with BUSYGROUP.  `set`
  and `ping` look at the raw bytes and return False for an error reply, and
  error.rs:136 takes every message that begins with BUSY, such as BUSYGROUP, for a
  BUSY error.  The table maps "`BUSY ...`" to `BusyError` and "other" to
  `ResponseError`, and the docstring of `set` (client.rs:190) knows True and None
  only.
* **client_integers** (`OverflowRefused`): `parse_int_from_bytes` accumulates the
  digits of a positive number as a negative one and negates it; for 2^63 it negates
  i64::MIN (parser.rs:220), which wraps in a release build and panics in a debug
  build.  The test `integer_overflow` (parser.rs:627) asserts an error.
  `IntegersExact` says that this is the only number out of range which it accepts,
  and that `fused_parse_int` returns any number modulo 2^64.

Differences met while modelling that no run is spent on:

* Expired connections are dropped only when popped, and reuse is LIFO, so those at
  the front may stay open under steady load.
* A connection that the server has closed is young, hence healthy, and is reused
  first; the standalone router does not retry, and a retry of the sentinel router
  may meet the next such connection.  `CalmCallsSucceed` is about clean pools.
* `send_raw` has no timeout: a server that stops reading can hold a call in a write,
  and the calls behind it.  `ReturnsUnlessBlocked` says that nothing else can.
* `resolve_master` reads with no timeout (tcp.rs:53): a sentinel that accepts and
  never answers holds the call for ever.  `CallEnds` assumes that sentinels answer.
* A pipeline of the cluster router that fails between two replies returns its
  connection with the others unread, like a read that times out.
* SELECT changes the database of one pooled connection only; `ConfiguredDb` is about
  clients on which `select` has not been called.
* After an exchange of a `Pipeline` failed, what is left of its batch may be executed
  after commands that were queued later, and replies may be late.
* KEYS, SCAN, OBJECT ENCODING, XINFO and BITOP fall to the default of `extract_key`
  (cluster.rs:294) and are routed by a pattern, a cursor or a subcommand.
  `CommandsRouted` is about the forms that the code provides for.
* The two decoders differ, or one gives up, on push messages, empty verbatim strings,
  frames beyond the limits and integers out of range; these are outside
  `DecodersAgree`.
* A password with a slash in it, and an IPv6 address without brackets whose last group
  is a number (config.rs:303), are not read as they were written; these are outside
  `UrlRoundTrip`.
* A queued `set` yields 'OK' where the documentation shows True.
* `from_url` accepts a pool of size 0, with which every `get` waits.

**Fairness.**  `PoolFairness` is weak fairness of each step of `get` and of
dropping a guard: Tokio polls every ready task, connecting has a timeout, the
handshake is subject to the read timeout, and a guard lives for one operation.  A
waiter is handed its permit by the release, so acquiring needs none.  `FairSpec`
is weak fairness of each task's next step: a read from a Redis server ends or times
out, given a read timeout, and the server owes nothing.  In the sentinel router it
leaves out `Resolve`, whose read has no timeout; `AnsweredSpec` adds that every
sentinel which accepts a connection answers or closes it, and is what `CallEnds`
needs.  A write that waits for room in the socket is not enabled, and nothing makes
the server read: that is the exception in `ReturnsUnlessBlocked`.  A read of
`ReadBuffer` goes on as long as the server sends.  New calls, faults and the clock
are never fair.

## 4. Proofs

For all values of the constants that satisfy the modules' assumptions: any number of
tasks, connections, servers, slots, commands and faults, and every limit.

* **Pool** (`PoolInv`).  `PoolTypeOK`, `PermitConservation`,
  `ExclusiveOwnership`, `NoLostWakeup` and `PoolBound` are inductive together.
  `PoolBound` needs `PermitConservation`, because a task between `Acquire` and
  the deque holds a permit and no connection, and `ExclusiveOwnership` needs the
  fresh identity of `Connect`.  From them follow `ReturnFindsRoom` (the "pool is
  full" arm is dead code) and `PoolImplementsLease`: under
  the mapping kept = idle, lease = conn, gone = taken, every step is a step of
  `LeasePool` or leaves it unchanged.
* **Standalone router** (`RouterInv`).  Every step of the composition is a pool step
  or leaves the pool alone, so the pool's invariant carries over.
  `AlignedUnlessTimedOut` is not inductive: it says nothing of connections
  between two calls.  `StreamsAligned` adds that such a connection has nothing
  outstanding, or can deliver nothing (its buffer is jammed by an oversized frame
  or its socket refuses writes), or has timed out; and that the commands
  outstanding on one in use are its owner's, from the next reply on.
  `RouterAnswers` concludes that without a read timeout every call that returns
  Ok returns its own replies in order: the timeout is the only cause of
  router_late_reply.
* **Sentinel router, any number of tasks, no read timeouts** (`SentinelInv`).  A
  live connection in a pool owes nothing; one in use owes exactly what its call
  has yet to read; between two attempts every execution is matched by a broken
  connection.  Hence `RepeatedOnlyIfBroken` and `OwnReplies`.
* **Sentinel router, one call at a time, every fault** (`LentInv`, `CalmInv`).  A
  pool holds connections to its own address, and the pool follows the address except
  between `SwapPool` and `StoreAddr` (`PoolFollows`).  A command that began in calm
  is on a fresh connection to the master, or on its first attempt through an
  outdated pool, which the failover then replaces (`SentinelCalmCallsSucceed`).  For
  two tasks `PoolFollows` and the theorem fail: sentinel_race.
* **Cluster router, all calls and faults** (`RangesInv`).  The map in use and the
  one that a refresh has read consist of disjoint ranges, since the runs of slots
  a node announces are maximal and MOVED changes no bounds
  (`ClusterRangesDisjoint`).
* **Cluster router, commands and pipelines, all faults** (`ClusterInv`).  A call
  that is about to send a command has not executed it; one that waits for a reply
  holds a connection that owes this reply first; a command that was refused has not
  run, and one that has run has its reply on the way or in hand.  The connection of
  a pipeline's group owes exactly the replies to the rest of the group, in order,
  also while a redirection of one of its commands is followed on another
  connection.  A command sent on a connection that owes a reply to somebody else
  would break this, so `ClusterAtMostOnce` and `ClusterOwnReplies` suppose
  `CleanPools`: connections in the pools owe nothing.  That is not always so,
  because the guard returns its connection whatever state it is in.
  `ClusterPoolsClean` says when: as long as no read times out and no pipeline
  returns an error (one that fails between two replies leaves the others unread).
  For single commands without timeouts `CleanPools` is part of the invariant, and
  `ClusterExecutesOnce` supposes nothing.
* **Cluster router in calm** (`CalmInv`, some slot having an owner).  The map always
  has a range for every slot that has an owner: nodes announce the slot in the
  longest run around it (a minimum and a maximum taken by well-foundedness), and
  MOVED removes no range.  So a command is always routed to a node; it is there
  executed or sent on once, to the owner, and one redirection is within every limit
  (`ClusterCalmCallsSucceed`, with `CleanPools`; `ClusterExecuteSucceeds`, without).
* **Connections of the cluster router** (`WaitInv`).  A call holds at most the guard of
  a group and one connection more, and none besides the guard while it waits.  Hence
  with more connections a node than tasks whoever finds a pool exhausted waits for
  a call that waits for nobody (`ClusterNoCircularWait`), and with twice as many as
  tasks nobody waits (`ClusterTwoConnectionsSuffice`).  cluster_one_connection has
  as many as tasks.
* **Read buffer** (`BufferInv`): `RoomWithinLimit` and `RefusedIsTooLarge`, which
  need that a buffer that grows holds less than the frame.
* **Pipeline object** (`PipeInv`).  `Numbered`: what is queued was accepted after
  everything that any `execute` took, and each connection carries commands in
  ascending order.  `Ordered`: a command that has been executed, one that a
  connection still carries and one that another carries may follow each other as
  `ExecutedOnceInOrder` allows, which is what the server's later steps need, as it
  goes on with batches that the client has given up.  `Clean`: as long as no exchange
  has failed, the connection in use carries exactly the batch, its executed part in
  the replies, and the others nothing.  `Answered`: while replies are converted there
  is one for each command of the batch, and its own unless an exchange has failed.
  `CollectedFirst` is what `collect` computes for every length, by the least number
  of items for which it would be wrong; hence `FirstErrorRaised`.
* **Redis object** (`SessionInv`): unless somebody has called or is calling
  `select`, every idle connection and every one past its handshake is in the
  configured database and authenticated, broken and late ones included; hence
  `ConfiguredDb`.  What a thread has recorded of its call is what the server did, as
  far as the reply is the call's own, and a call that has ended returned what
  `ToPython` makes of it; hence `SetTellsTruth`.
* **Methods**: `CommandsMirrored` goes through the methods of `Pipeline` section by
  section and finds the same words as in `Redis`, for all arguments.

The inductive invariants were checked by TLC on small instances before they were
proved.

Only model-checked: `GetEnds`, `ReturnsUnlessBlocked`, `CallEnds` and `ReadEnds`, which are
liveness properties, and the properties of `MCConversions`, whose operators are
recursive or bitwise.  For two calls at a time that fail or time out in the middle
of an exchange, `AtMostOnce`, `OwnReplies` and `CalmCallsSucceed` of the cluster are
neither proved nor checked: a connection may then owe a reply to somebody else.

## 5. Not modelled

* runtime.rs, the lazily created Tokio runtime: its scheduling is what the fairness
  assumptions state.
* TLS, which the code does not implement: `create_connection` refuses it (`Tls`).
* Code that nothing calls: `hello3`, `encode_inline`, the helpers `resp_to_bytes` to
  `resp_to_bool` of response.rs, several accessors of types.rs, the predicates over
  errors of error.rs.  `RedisConnection::ping`.
* lib.rs (registration of the Python module), representations, pool introspection,
  and reference counts of the CPython API.
* Bytes inside a partly received frame are in `RespStream` and `ReadBuffer`, not in
  the routers, where a frame is the unit of reading.

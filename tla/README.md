# A verification project for the replicated key-value store

The repository is a key-value store that runs as a Kubernetes StatefulSet. Every
pod runs `kv_store`: a RocksDB database, an OmniPaxos instance with its own
persistent log, and an event loop. One more pod runs `net_actor`, which all
servers connect to: it forwards their messages to each other and gives an operator
a command line. This directory holds TLA+ models of that code, TLC configurations
that check them, and proofs checked by TLAPS.

## Inventory

| part | code | state | operations | what makes it correct |
|---|---|---|---|---|
| database | `kv_store/src/database.rs` | a RocksDB database on a persistent volume | `handle_command`, `handle_snapshot`, `handle_kv`, `get_all_key_values` | a snapshot or a transfer leaves exactly what the commands it stands for leave |
| snapshots | `kv_store/src/kv.rs` | `snapshotted`, `deleted_keys` | `create`, `merge` | the stored snapshot does not depend on how the log was cut into compactions |
| server | `kv_store/src/server.rs` | the OmniPaxos instance, `last_decided_idx`, `current_num_replicas`, `current_config_id`, `stop_sign_timeot` | `process_incoming_msgs`, `send_outgoing_msgs`, `handle_decided_entries`, `update_database`, `debug_heartbeat`, `run` | each decided entry is applied, in order, to every replica, whatever crashes; configurations follow each other; the state reaches every member |
| boot | `kv_store/src/main.rs` | `config_1` and `db_<pid>` directories, `restarted.flag` | `main` | what was decided or applied before a crash is recovered |
| Kubernetes query | `kv_store/src/kubernetes.rs` | none | `query_statefulset_replicas` | a change of the replica count leads to a reconfiguration |
| server network | `kv_store/src/network.rs` | writers per peer, API writer, receive buffer | `send`, `get_received`, one task per peer that reconnects | nothing is duplicated, the messages of a connection are not reordered, a lost link comes back |
| multiplexer | `network_actor/src/network.rs:105-264` | a broadcast channel per port, one central queue | one task per port, the central actor | messages reach the current connection of the receiver, in order |
| command line | `network_actor/src/network.rs:20-103, 272-313` | client writers per port; the API connection of every server | read a line, parse, route | a command reaches at most one node, the one it names, and is answered |
| OmniPaxos | dependency | log, ballots, decided index | `append`, `reconfigure`, `snapshot`, `handle_incoming` | external; see below |

The servers interact through `Message` values (`network.rs:16-23`):
`OmniPaxosMsg` between instances, `StateCatchup` with all pairs of a database after
a reconfiguration, `Debug` heartbeats whose arrival triggers the query of the
replica count, and `APIRequest`/`APIResponse` to and from the command line. Inside
a server everything runs in one loop (`server.rs:302-327`): a millisecond timer
processes the received messages, sends what the instance has produced and applies
newly decided entries. The loop is one task, so the hard behaviour comes from what
happens *between* its iterations and at its `await`s: what other servers do,
messages that are late or lost, and crashes, which can happen between any two
writes to RocksDB and lose everything that is not in a directory. What can go wrong
where is listed line by line under `hazards` in `PROJECT.json`.

## Modules

| module | role |
|---|---|
| `KvStore` | the data: databases, commands, snapshots, and the operations on them |
| `KvStoreTheorems` | lemmas and theorems about these operations, for every log |
| `SnapshotLog` | state machine: a replica's log is compacted piece by piece |
| `MCSnapshotLog` | its instance for TLC |
| `SnapshotLogProofs` | its inductive invariant and five theorems |
| `KvServer` | state machine: the servers, their directories, reconfiguration, crashes |
| `MCKvServer` | its instances: scale up, scale down |
| `KvReads` | `KvServer` with a history variable: what the clients of a static cluster read |
| `MCKvReads` | its instance: a static cluster |
| `KvServerProofs` | type correctness of the servers, and the order of the configurations |
| `KvStaticProofs` | replicas of a single configuration are exact, agree, never show older values and skip nothing, whatever crashes |
| `KvProgressProofs` | while no process is restarted, no decided entry is skipped, and the first transfers carry the final state |
| `ReconfigTrigger` | state machine: when a reconfiguration is proposed |
| `MCReconfigTrigger` | its instances for TLC |
| `ReconfigTriggerProofs` | type correctness of the trigger, and the quorums of a cluster that is scaled once |
| `LossyLinks` | what the links between servers promise: an abstract specification |
| `PeerLinks` | state machine: the links through the network actor; it implements `LossyLinks` |
| `MCPeerLinks` | its instance for TLC |
| `PeerLinksProofs` | type correctness of the links, and the refinement |
| `CommandLine` | state machine: the command line, the client ports and the API connections |
| `CommandLineProofs` | its type correctness, and that no command runs twice |

### KvStore

A database is a total function from keys to values, `NoValue` for an absent key. A
command is a key and a value, `NoValue` meaning Delete; `Get` never enters the log
(`server.rs:63-68`) and changes nothing. `Create` and `Merge` are
`KVSnapshot::create` and `merge`; the vector of deleted keys is a set, since the code
only searches and drains it. `HandleSnapshot` and `HandleKv` are the two ways a
database is overwritten, and `Torn` is every database a crash in the middle of one
can leave: they write one key at a time, all puts before any delete.
`StateAfter`, `Replay` and `FinalValue` are the reference: what a sequence of
commands leaves behind, expressed by the last write of each key, without recursion,
so that TLAPS can use it.

### SnapshotLog

`Decide` appends an entry and applies it to `db`; `StartCompaction(i)` asks for a
snapshot up to a decided index; `CreatePut` and `CreateDelete` are the arms of the
loop in `create`; `FinishCompaction` is `retain` followed by `merge` into the stored
snapshot. Decisions interleave with a running compaction. The code compacts at every
restart (`server.rs:281-285`), and OmniPaxos merges the delta into the stored
snapshot, so a server that restarts often goes through these steps many times.

### KvServer

One state machine for all servers.

| variable | code |
|---|---|
| `log`, `stopped` | the decided log of every configuration; a StopSign ends it |
| `storage[n][c]` | the log directory of node `n`: decided index, and how many entries are compacted into a snapshot |
| `db` | the RocksDB database `/data/db_<pid>` |
| `boot[n]` | the configuration whose log the directory `config_1` of `n` holds |
| `pc` | `loop`: at the top of the loop; `apply`: inside `handle_decided_entries`; `panicked`, `down`; `new`: the pod does not exist yet |
| `serving` | the configuration of `self.omni_paxos` |
| `cluster` | the nodes that this instance counts majorities among are those of configuration `cluster[n]` |
| `last_decided_idx` | `self.last_decided_idx` |
| `applied` | entries that the loop of `update_database` went over |
| `flushed` | `send_outgoing_msgs` has run since the instance was built |
| `catchup` | `StateCatchup` messages on their way |
| `restarts` | counter for the bound on crashes |

| action | code |
|---|---|
| `Choose`, `ChooseStopSign` | OmniPaxos decides an appended command, or the proposed StopSign |
| `LearnDecided`, `SyncFromSnapshot` | an incoming message advances the decided index of an instance (`server.rs:73-75`) |
| `ReceiveCatchup` | the `StateCatchup` arm (76-79) |
| `AppendPanics` | `append(cmd).unwrap()` on an instance that has accepted a StopSign (70) |
| `HandleDecidedEntries` | `send_outgoing_msgs` and the start of `handle_decided_entries` (139-165) |
| `ApplySnapshot`, `ApplyCommand` | the arms of `update_database` (192-200) |
| `ApplyStopSign`, `BuildFails` | its StopSign arm (201-256) |
| `FinishDecided` | the end of `handle_decided_entries` (165-172) |
| `Crash`, `CrashInSnapshot`, `CrashInHandleKv` | the process dies between two steps, or between two writes of an overwriting |
| `Boot` | `main` on the first boot of a node that joins |
| `Start` | `main` on a restart, then the compaction at the start of `run` |

**OmniPaxos** is a dependency, so it is modelled by what the servers rely on: each
configuration has one log of decided commands which ends with at most one StopSign;
a decision needs a majority of the nodes that an instance counts (`HasMajority`); each instance
learns a growing prefix, which its directory remembers. An instance takes part only after it
has sent its first message (`flushed`), since a fresh follower promises before it
accepts. What an instance misses it is sent again as long as some other instance of the same
configuration has a majority and counts it (`CanLearn`); after that, a message that is already
on its way may still arrive (`LearnDecided` stays enabled) and need not. That several snapshots
merge to the snapshot of a prefix, so that a number
represents a stored snapshot, is not assumed: it is what `SnapshotLog` checks and
`SnapshotLogProofs` proves.

**A joining node** boots its own "configuration 1" (`main.rs:59-70`), with as many nodes as
there are replicas, and no message names a configuration (`network.rs:17`). So its instance
takes part in whatever its peers run: the log that the StopSign is about to end, or the next
one. `Boot(n, c)` lets it be any configuration `c` up to the first that contains the node, and
`boot[n]` remembers the choice: storage is indexed by the configuration whose log a directory
holds, so that `config_1` of `n` is `storage[n][boot[n]]`. `Counted` are the node sets the
instance may be built with, at a first boot and at a restart. In configuration 1, a joiner then
goes through the StopSign like a member, sends its own state to the others, and does so again
after a restart.

**Applying is split into steps.** `update_database` does not yield to the loop, but
each of its writes is a separate RocksDB operation, other servers run meanwhile, and
a crash may fall between any two. `pc = "apply"` marks this region: the node's own
message handling cannot run in it, everything of the others can.

### KvReads

A Get is answered from the replica's own database (`server.rs:63-68`), while it recovers, too.
Whether a client sees a key go back in time cannot be told from the values: in a log that puts a
key and deletes it, the absent key is that of the beginning or of the end. The history variable
`shown[n][k]` is the index of the log that replica `n` shows key `k` at. It follows `applied`,
and never goes down: when a crash in the middle of a snapshot changes the value of some keys
before `applied` moves, those go to the first later index that has the value. `MonotonicReads`
says that such an index exists, among the decided ones, whenever a value changes. `KvReads` adds
nothing but `shown` to the steps of `KvServer`.

### ReconfigTrigger

`KvServer` lets a StopSign be decided at any time; this module models when the code
proposes one, and forgets the log and the data. Its configurations are the servers
`1 .. r` for a replica count `r` (`server.rs:101`, `main.rs:57`).

| action | code |
|---|---|
| `LeaderHeartbeat`, `LeaderPanics` | the Debug arm on the leader (`server.rs:83-110`): the debounce, or the count recorded and `reconfigure(..).expect` |
| `FollowerHeartbeat` | the same arm on any other server (113-122) |
| `Switch`, `SwitchPanics` | the StopSign arm on a remaining and on a removed member (201-256) |
| `Start`, `StartBlind` | `main`, with the replica count, and after a failed query (`main.rs:46-57`) |
| `Scale`, `DeletePod`, `Crash` | the operator, Kubernetes and the end of a process |
| `Elect`, `ChangeLeader`, `DecideStopSign`, `Join` | OmniPaxos, external |

A heartbeat is one step, from the query to the proposal: the query is awaited, but
the loop of the server handles nothing else meanwhile, so neither its instance nor its
fields change. A heartbeat that changes nothing, because the count is the recorded one
or the query fails, is a stuttering step. `TypeOK` says of `stop_sign_timeot` that it is
always 0: the only increment (line 90) is reached when the counter is not a multiple of
five, and it starts at 0, so the leader never waits before it proposes. A configuration
has one leader at a time, which all its members know, and a StopSign proposed by a former
leader may be kept or lost by its successor (`keep`). `built[n]` is the size of the node
set that `main` gave to the instance behind `config_1`, as long as that instance runs.

### LossyLinks and PeerLinks

Port `<<a, b>>` is port `80ab` of the network actor. Server `a` connects to it to
exchange messages with `b`, who uses port `<<b, a>>`. A message of `a` goes through the
writer in the map of `a`, the connection, the actor's receiver task, the central queue, the
central actor, the broadcast channel of the current connection of port `<<b, a>>`, its
sender task, that connection, the peer task of `b`, and the receive buffer.

| variable | code |
|---|---|
| `task[p]`, `sockets[p]` | the peer task of a server and the writer it has put into the map (`kv_store/src/network.rs:118-168`) |
| `inbox[n]` | `incoming_msg_buf` and the batch being processed |
| `conn[p][c]` | the `c`-th connection of port `p`: what is under way in both directions, whether it is broken, the state of the actor's sender and receiver tasks, and the broadcast channel |
| `stage[p]`, `accepted[p]` | the port's task, and how many connections its listeners have taken (`network_actor/src/network.rs:123-214`) |
| `out_channels[p]` | the entry of the port in the map; 0 is the initial channel, which nobody reads |
| `queue`, `holding` | the central channel, and the message the central actor forwards |

| action | code |
|---|---|
| `Connect`, `ReadDown`, `DownEnds`, `ReadFragment`, `ReadTorn` | the peer task: connect, store the writer, read lines; the end of the connection; `expect` on a part of a line |
| `Send`, `Process` | `Network::send`; `get_received` and the processing of a message |
| `Accept`, `InsertChannel`, `Reset` | the task of a port; after `select` it removes the channel and binds a new listener, and the task that did not end goes on |
| `Subscribe`, `WriteDown`, `SenderEnds` | the sender task; it ends when a write fails or `recv` reports `Lagged` |
| `ReadUp`, `ReadTornUp`, `ReceiverEnds` | the receiver task; it forwards what it has read of a torn line |
| `Receive`, `Forward`, `GiveUp` | the central actor: a port without channel is skipped; one that loses it meanwhile is waited for, five seconds at most |
| `Cut`, `Crash`, `CrashActor` | a connection breaks, a server or the actor is started again |

TCP is external: a connection delivers in order; when it breaks, each end notices at some
later point, data that has arrived may still be read before, a write may seem to succeed
although the data is lost, and the last line may arrive in part (`torn`). A connection that
waits in the backlog of a listener that is dropped is reset.

`LossyLinks` is the abstract specification: a message is pending from when it is sent until
it is delivered or lost; after a delivery, nothing pending was written to the same connection
before. The refinement mapping takes the messages in all buffers between two servers, from the
connection to the receive buffer, for `pending`, and what the receivers have processed for
`received`; the reconnections, resets, queues and tasks are stuttering steps or losses.
Messages of *different* connections of one link may overtake each other, since a detached
receiver task still forwards what it has read (`network_actor/src/network.rs:195-204`), and
`LossyLinks` does not promise otherwise.

`KvServer` relies on less: a `StateCatchup` arrives at any later time or never. What OmniPaxos
exchanges is inside its external model, which assumes no more than loss and delay.

### CommandLine

| variable | code |
|---|---|
| `typed`, `cli`, `next_port` | the commands, by the port they name; the command line's task, and the port its loop has reached (`network_actor/src/network.rs:57-103`) |
| `api_sockets[n]` | the connection whose writer is in the map |
| `port[n]`, `accepted[n]` | the task of a client port and the connections its listeners have taken (18-55) |
| `reader[n]`, `inbox[n]`, `executed[n]` | the API task of a server (`kv_store/src/network.rs:80-114`), what it has received, what it has processed (`server.rs:62-69`) |
| `conn[n][c]` | the connections of a port; `closed` is read as an end of file, after the data; `reset` as an error, which may discard data |

`TryNext` and `Write` are the loop over the ports, with the lock held until the write has
ended; `WritePanics` is its `unwrap`, `TypeBadPort` that of the port number. `Accept`,
`Register`, `ReadResponse`, `ReadEof` and `ReadPanics` are the task of a client port, whose
listener lives until its reader has ended. `Boot`, `ReadRequest`, `ReaderEnds` and `Execute`
are the server, which opens its API connection when it boots and never again. All commands
are Gets, the ones with a response of their own; a Put or a Delete is handed to
`KvServer`'s `Choose`. A port that no server has is treated like one without a writer.

## Runs

| run | instance | checks |
|---|---|---|
| `snapshot_log` | 2 keys, 2 values, 4 entries | `TypeOK`, `SnapshotExact`, `InstallCatchesUp`, `CreateLoopExact`, `ReferenceExact` |
| `static` | 2 nodes, 1 configuration, 2 keys, 1 value, 2 entries, 3 crashes (`MCKvReads`) | `CaughtUpReplicaExact`, `MonotonicReads`, `Convergence` |
| `scale_up_crash` | 1 to 2 nodes, 2 + 1 entries, 1 key, 1 value, 2 crashes | `TypeOK`, `ConfigurationsInSequence`, `CatchupCarriesFinalState` |
| `scale_down_live` | 3 to 2 nodes, 0 + 2 entries, no crash | `NoEntrySkipped`, `ReconfigurationCompletes` |
| `trigger` | up to 3 servers, counts 2 and 3, 2 changes, 1 fault | `TypeOK`, `LeaderReconfigures`, `CountRecorded` |
| `peer_links` | 2 servers, 3 messages of one, channels and buffers of 2, 5 connections per port, 1 fault, 1 torn line | `TypeOK`, `LinksAreLossyFifo`, `LinksRecover`, `WorkingLinksDeliver` |
| `command_line` | 2 servers, 2 commands, 2 connections per port, 1 fault | `TypeOK`, `CommandsRoutedOnce`, `ReadersRegistered`, `GetsAnswered` |
| `members_agree` | 2 to 3 nodes | `MembersAgree` is violated |
| `restart_skips` | 2 to 3 nodes, 1 crash | `NoEntrySkipped` is violated |
| `joiner_state` | 2 to 3 nodes | `JoinerHoldsState` is violated |
| `peer_tasks` | as `peer_links` | `PeerTasksContinue` is violated |
| `quorums` | up to 5 servers, counts 3 and 5, 1 change, 1 crash | `QuorumsIntersect` is violated |

What the passing runs show:

- **A static cluster is right, whatever crashes.** A replica that has gone over
  everything decided holds exactly the decided state: although the index is volatile
  and all entries are applied again after a crash, although a snapshot is written
  over old content, and although a crash may leave a snapshot half installed.
  Meanwhile the values a client reads from one replica never go back in time, behind the
  index a key was last shown at; this needs the compaction at restart, since replaying entries
  one by one would pass through old values, and bring back deleted keys (the mutant
  `SnapshotIdxKept` shows it). And it converges.
- **Configurations follow each other**, also when nodes crash in the middle of a
  transfer or of the old log: nothing is decided in the next configuration, no command and no
  StopSign, before the StopSign of the previous one, and no member of a configuration runs a
  later one before its own is stopped. A node that joins with the later one may run an instance
  of it by then, and sends messages. What keeps it from deciding is
  that the joiners are no majority of the nodes they count, as in every growth from three
  to at most six; the instances of a majority of joiners could decide on their own.
- **Reconfiguration without crashes moves on.** No entry of the new log is skipped
  although `last_decided_idx` keeps the old log's index until the next iteration, and the state
  a member sends in the first reconfiguration is that of the complete old log even when another
  member's transfer hit it while it was applying that log. Every member of the new configuration
  reaches it and applies what is decided there, and one that is left out panics, with two
  exceptions. A command may make a member panic before it has switched (`AppendPanics`). And
  a member that has not learned the StopSign when the others have replaced, or lost, their old
  instances is left behind for good (`LeftBehind`), unless a message that is already on its way
  helps it: see the disagreements below.
- **A leader that sees a change acts on it.** If the last change of the replica count
  reaches a server in office, a configuration of that size follows, unless the server
  loses its place, which includes the panic of `expect` when a previous StopSign is still
  pending. And every server learns the count, also one whose first query failed.
- **The links lose messages, and do nothing worse.** Through broken connections, restarts of
  both ends, detached tasks, refused connections, overwritten channels and torn lines no
  message is delivered twice, or after a later one of the same connection. When faults end,
  every port has a working connection again, unless its peer task has panicked; and a message
  on a working connection to a receiver with a working one is processed.
- **A command runs once at most**, on the server it names, in the order of typing, although
  the writer in the map may belong to a dead connection. A Get that was written to a live
  connection is answered. A server that still reads from its API connection is the one that
  is registered; the other possibility is that its reader has ended, for good.

What the violated ones show, with the code lines under `findings` in `PROJECT.json`:

- `members_agree`: a `StateCatchup` carries no index and is installed whenever it
  arrives. If it arrives after its receiver has applied writes of the new
  configuration, it removes them, and they are not applied again.
- `restart_skips`: after a reconfiguration a restart goes through `config_1` again
  and re-enters the next instance, whose directory already has decided entries; the
  reset of `last_decided_idx` only fires for an instance with none, so the node
  continues at the old log's index and skips entries.
- `joiner_state`: the transfer is sent once, and dropped without a connection.
- `peer_tasks`: a peer task that reads a part of a line panics in `expect` and never connects
  again; the server stays alive with one link less. The part may come from its own connection,
  or from one of its peer, whose last line the actor forwards without its end.
- `quorums`: a server that restarts after a `kubectl scale` and before the reconfiguration
  builds configuration 1 with the new nodes. With the joiners it is a majority of five, while
  the two servers that did not restart are a majority of three.

Other disagreements, which no run has for its subject:

- A client's command that arrives between the acceptance of a StopSign and the switch of its
  server panics the process (`server.rs:70`; action `AppendPanics`).
- The old instance is replaced in the iteration of the loop that has sent the decision of its
  StopSign, once (`server.rs:253`), and nobody calls `reconnected`. A member that this message does
  not reach, when all the others have moved on, stays in the old configuration, although README.md:81
  says that a new instance is started on all servers (`LeftBehind`).
- `current_config_id` starts at 1 in every process (`main.rs:101`), so that of a node that joined
  is behind; as leader it would propose an id that is in use (`server.rs:101`).
- A command without a port goes to the first port that has a connection
  (`network_actor/src/network.rs:75`), where README.md:152 says that it goes to the leader.
- A server that is not the leader records a new replica count without proposing anything
  (`server.rs:120`). When all do so before a leader is elected, no later leader sees a
  difference, and the cluster keeps its size.
- The API reader says "Retrying..." on an error and ends (`kv_store/src/network.rs:107-110`);
  `ReaderEnds` has no counterpart that connects again. In particular, a server that restarts
  before its port has read the end of the old connection is lost to the command line.
- A write to an ended client connection ends the command line (`WritePanics`), and a read error
  ends the task of the client port (`ReadPanics`), without an error message.
- The task that `select` did not wait for is detached, not cancelled as the comments say
  (`network_actor/src/network.rs:195-204`). A detached sender task waits for ever.

### Bounds

Two commands and one key are the smallest log in which order matters; with two keys
a torn overwriting has intermediate states, and a snapshot can hold a put and a
tombstone. Three crashes let a node crash during the recovery from a crash, and another one
besides. The replicas of one configuration share only the decided log, so two of them show
what any number does: that a decision goes on without a crashed third is no different, to the
crashed one, from decisions it had not learned before. In `scale_up_crash` the joiner may take part in
configuration 1, and then there are two nodes that go through its StopSign and send their state to
each other; one that still applies the old log receives the other's transfer before, between or
after the two entries. Two crashes let a node crash again on its way back, or both crash. The
one replica at the beginning stands for the old members: `main.rs` starts with three, and OmniPaxos
refuses a cluster of one. From two to three nodes there are more than five million states; the
three properties of this run are theorems for any number of nodes, `ConfigurationsInSequence` under
a condition and `CatchupCarriesFinalState` for one reconfiguration. The runs with three nodes are
`scale_down_live` and the violated ones. In
`scale_down_live` the indexes of the entries matter and not what they write, so that the only
value is `NoValue`; the StopSign has index 0 and the new log two entries, so a stale index of 1
would skip one. Four entries in `SnapshotLog` allow put, delete, put of a key with a compaction
boundary between any two. Nodes of the same configurations, keys (in `SnapshotLog`)
and values are interchangeable: no operator orders or distinguishes them, so the
symmetry sets are sound; the runs with liveness use none. In `trigger` two changes
let the second one meet a pending StopSign or undo the first, and one fault is a crash,
a failed query or a change of leader at any point. The default of three replicas in
`main.rs` is the constant `DefaultReplicas`, which is 2 here, so that one server
joins and leaves. `quorums` has the counts of the deployment.

In `peer_links` three messages overflow a channel of two (10000 in the code) before its sender
task runs, and leave one for a connection after the fault. A fault makes a port connect up to
three times, because a connection that waits in the backlog is refused; five connections leave
room for this and for a sender task that lags, and `LinksRecover` would fail if they did not
suffice. In `command_line` the fault lets a server's second connection wait in the backlog, a
command be written to a dead connection, and the actor restart; a third connection is
never needed by the same server, since only a boot connects.

### Fairness

In `KvServer`, `Fairness` is weak fairness of `Step(n)` for every node: the loop of a running
server never rests, and a stopped pod is started again by Kubernetes. A server learns what it
misses only as long as `CanLearn`: OmniPaxos sends it again while some instance of the same
configuration has a majority. In a static cluster that is so whenever enough servers run. After a
StopSign it ends when the instances of the others are replaced, and nothing is assumed of what
they sent last. Nothing is assumed of clients, of
crashes or of the arrival of a `StateCatchup`. In `ReconfigTrigger` the same holds
for heartbeats, which are sent every two seconds (`server.rs:303-327`), for switching
and joining, and for Kubernetes, which starts missing pods and removes surplus ones; of
OmniPaxos it assumes that a leader is elected and a StopSign decided when a majority
runs. Nothing is assumed of the operator and of faults. In `PeerLinks` and `CommandLine` every task
of tokio runs when it can, except that nobody is obliged to send or to type. Nothing is
assumed about which of the tasks of a connection runs first, nor about when the end of a broken
connection is noticed, only that it is. No keepalive is set, so a connection that breaks without
a sign is noticed by writing to it: every server writes a heartbeat to every peer each two seconds,
which the actor writes to the peer's connection, so between servers both ends get to know. On an
API connection writes come only with commands and decisions, and that a server
or the command line notices a silent break rests on those; that it does is assumed in `CommandLine`.
Deadlock is not checked in these
runs: when the bounds are used up and all is applied, there is nothing left to do.

## Proofs

`KvStoreTheorems` proves, for all keys, values and logs: merging the snapshots of two
consecutive pieces gives the snapshot of the whole (`MergeOfCreates`); a replica that
applied any part of a prefix and then installs its snapshot holds what the prefix
leaves behind (`SnapshotSkipsApplied`); `handle_kv` replaces the database
(`HandleKvReplaces`). They rest on lemmas about the last write of a key in a
concatenation, and on the existence of a last write, which follows from the
well-foundedness of `<` on the naturals.

`SnapshotLogProofs` proves all five properties of the run `snapshot_log` for every
number of keys, values and entries. `SnapshotExact` alone is not inductive: while a
compaction runs, the locals of `create` must describe the entries gone through. The
invariant `Inv` adds this (the property `CreateLoopExact` of the run) and that a
finished compaction has left the locals empty. `FinishCompaction` is then
`MergeOfCreates`.

`KvServerProofs` proves `TypeOK` of the servers for every sequence of configurations,
number of keys, values, entries and crashes. The assumptions are those of the
modules: `NoValue` is not a value, every node is a member of some configuration, the nodes
are finitely many, and the bounds are numbers. The parts that are more than typing are the
index bounds: no instance has decided or compacted more than its log has, the compacted
index never passes the decided one, and a stopped configuration always has a next one, which
`ApplyStopSign` needs.

It also proves `ConfigurationsInSequence`, under the condition `JoinersNoMajority`: of the
members of any configuration, at most half are new since any earlier one. Without it the property is
false. In `<< {n1}, {n1, n2, n3} >>` the instances of the two joiners are a majority of the second
configuration before the first one has ended (see the finding of `quorums`, where the same
arithmetic lets them decide). A decision takes the active members of a majority of the nodes that
some instance counts, which may be those of a later configuration (`cluster`), so at least one of
them has been a member before (`MajorityMoved`). The invariant `SequenceInv` says that every
configuration between the one that `config_1` of a node holds and the one it serves is stopped, that
the first is no later than the first it is a member of (`ServesInSequence`), and that a log is empty
and not stopped until its predecessor is (`DecidesInSequence`). Here finite sets matter: two sets of
more than and at least half the members meet.

`KvStaticProofs` is about one configuration, and any number of nodes, keys, commands and
crashes. `CaughtUpReplicaExact` speaks of replicas that are caught up, so it says nothing of
one that replays. The invariant `StaticInv` adds, for each server (`ReplicaInv`): a database
that is past the stored snapshot holds the state after the entries applied, and at all
times, torn installations included, each key shows the state after some prefix that ends
before the replay does (`ShowsUpTo`, `Reach`), not necessarily the same one for all keys. The
second part is what the installation of the snapshot needs: every key written up to there is
overwritten or deleted, and the others cannot be in the database. `MonotonicReads` is
a theorem of `ReadsSpec`: the invariant `ReadsInv` adds that every key of a replica has the value of
the index `shown`, that this index is at least the number of entries applied, and that it is never
beyond the snapshot that a recovering replica is going to install. So an installation, also one
that is torn, gives each key the value of an index no smaller than the one it was shown at, and
behind it the two go on together. Two of the properties that reconfigurations break
are theorems here, with crashes: `MembersAgree`, since exact replicas of one log agree, and
`NoEntrySkipped`, since outside `update_database` the index is the number of applied entries,
after a restart zero.

`KvProgressProofs` proves `NoEntrySkipped` for every sequence of configurations when
no process is restarted (`MaxRestarts = 0`; with restarts it is false, see
`restart_skips`). The stale index that line 169 leaves behind is harmless only because the
new instance has decided nothing the first time `handle_decided_entries` meets it; the
invariant `ServerInv` ties `last_decided_idx` and `flushed` to the entries already
applied in the configuration that a server runs.

It also proves `CatchupCarriesFinalState`, for at most two configurations. A member that
applies the rest of the old log may receive the transfer of another one in the middle, and
goes on from the final state: entries are then applied a second time. The invariant
`FinalStateInv` gives up the exact content of the database and keeps what survives this
(`Settled`): every key that none of the remaining entries writes has its final value. At the
StopSign no entry remains, so all keys have it. With three configurations
the property is false, and TLC shows why: a transfer of the first reconfiguration that arrives
late, in the second configuration, removes what was written there, and the next
reconfiguration passes the loss on to every member. It is the finding of `members_agree`, carried
one configuration further.

`ReconfigTriggerProofs` proves `TypeOK` of the trigger for every number of servers, of
replica counts, changes and faults. Two of its parts say something of the code: a server never
moves on to a configuration that does not exist, and `stop_sign_timeot` is always zero, so the
debounce of `server.rs:87` never makes a leader wait. `TypeOK` is inductive as it stands.

It also proves `QuorumsIntersect`, under `OneScaling`: no server fails, the replica count is
changed once at most, and to no more than twice the default. The run `quorums` shows what one
restart does. Without the last condition the property is false even so: with a default of 2
and a count of 5, the three new servers are a majority of the five they were built with, while
the two old ones are a majority of two. The invariant `ScalingInv` says that servers built with
the new count are joiners (`JoinersBuiltNew`), which holds because no other server starts again:
a member leaves a configuration only for a StopSign, every StopSign asks for the count that its
leader has recorded (`ProposalsAgree`), and so every one contains the members that Kubernetes
keeps running (`ServersStay`). The number of joiners then decides.

`PeerLinksProofs` proves `TypeOK` of the links and `LinksAreLossyFifo`, that `PeerLinks`
implements `LossyLinks`, for every set of nodes, all capacities and all bounds. The refinement
mapping takes for `pending` what the buffers hold that can still be delivered: the way to the
central actor, the inboxes, and of the connections back to the servers only those that a peer
task still reads (`Arriving`). A step sends (`SendStep`), delivers the head of an inbox
(`ProcessStep`) or loses at most. What has to be shown is that the head of an inbox is earlier
than all that is pending of its connection. The invariant `OrderInv` says it of every two places on the
way: each buffer is sorted (`Sorted`), and what is further along is earlier (`Before`): the
inbox before the receiver's connection, that before the central actor, the central channel
and the connection of the sender. It holds for the connections that nobody reads any more,
too, since detached tasks go on filling them. Torn lines need `FragmentInv`: a fragment is the
last thing that its connection delivers to the actor, since its receiver task has ended
(`Dead`), and there are no more fragments than torn lines; `TypeOK` counts them out of the
capacity of a connection. The bounds of the model play no part in the argument.

`CommandLineProofs` proves `TypeOK` and `CommandsRoutedOnce` for every number of servers,
commands, connections and faults (at least one server). The invariant `CommandInv` adds what is behind an executed command
(`FlowInv`): what a server has executed, what it has received and what is on its current
connection are in the order of typing; each of these commands is for that server, is with no
other, and is not the one that the command line is about to write. `RoutingInv` keeps the loop
over the ports on the named one, and `ConnectionsInv` says that nothing is on a connection that
is not made yet, which `FlowInv` needs when a server boots.

Only model-checked: everything under fairness (`Convergence`,
`ReconfigurationCompletes`, `LeaderReconfigures`, `CountRecorded`, `LinksRecover`,
`WorkingLinksDeliver`, `ReadersRegistered`, `GetsAnswered`), since TLAPS has no rules for
ENABLED. Every safety property of the passing runs is a theorem, `ConfigurationsInSequence`,
`NoEntrySkipped`, `CatchupCarriesFinalState` and the properties of static clusters under the
conditions above. Of the properties that a run violates, `JoinerHoldsState` and
`PeerTasksContinue` have no theorem; `MembersAgree` and `QuorumsIntersect` have one under the
conditions above.

## Plan

The modules above came in the order `KvStore`, `SnapshotLog`, `KvServer`, their proofs,
`ReconfigTrigger`, `LossyLinks` and `PeerLinks`, `CommandLine`, their proofs. What is left:

1. An abstract replicated store (each replica shows, for every key, the state after some
   prefix, which only grows), which a static `KvServer` implements.
2. Conditions under which `MembersAgree` and `JoinerHoldsState` hold in a cluster that is
   reconfigured, such as that no command is decided before every `StateCatchup` has arrived.

## Not modelled

The inside of OmniPaxos and RocksDB; text handling (JSON, command parsing, UTF-8);
logging; the list of `partitions` of the network actor, which is always empty (and whose
`continue` would only continue its own loop); the lock of the client writers as a state of its
own, since no bounded number of commands fills a connection; the `Reconnect` message, which no
code sends; the benchmark script and the deployment files; a RocksDB or file system
error, on which the code panics. In `KvServer` any
member of a configuration may have its command or StopSign decided. The ids in
`ClusterConfig` and in directory names, and `current_config_id`, are replaced by the position of
the configuration in the sequence. Each configuration has one log: what an instance does that has
accepted entries of one configuration and then hears messages of another is inside OmniPaxos, and the
choice of `Boot` stands for whom a joiner hears first. In `ReconfigTrigger` there is at least one
replica: a count of 0, for which `reconfigure` is refused, and one of 1, for which
OmniPaxos builds no instance, are not treated as special.

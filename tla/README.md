# A verification project for git6824

TLA+ models of the Raft library, the key/value service and the shard controller of
this repository, and of what its tests rest on: the simulated network, the harness that
crashes and partitions servers, and the linearizability checker. TLC runs check them on small
instances, and TLAPS proofs show what holds on all.
Paths are relative to the directory that holds `src/`; the Go code is under `src/src/`.

## The system and its parts

| part | source | modelled in |
|---|---|---|
| Raft peer: elections, replication, snapshots | `raft/raft.go` | `Raft` |
| Persister: state and snapshot of a peer | `raft/persister.go` | `Raft` (fields `raftstate`, `snapshot`) |
| RPC network: loses, delays and reorders calls | `labrpc/labrpc.go` | `Labrpc`; what it does to a call also in `Raft` (`rpcs`), `KvRaft` and `ShardCtrler` (`LoseRequest`, `LoseReply`) |
| Test harness of Raft: crash, restart, the service | `raft/config.go` | `Raft` (`Restart`, `Apply`, `Snapshot`) |
| Key/value server and clerk | `kvraft/` | `KvRaft`, promise in `KvStore` |
| Test harness of the key/value service | `kvraft/config.go` | `KvConfig` |
| Linearizability checker and its model | `porcupine/`, `models/` | `Porcupine` |
| Shard controller and clerk | `shardctrler/` | `ShardCtrler`, algorithm in `ShardBalance` |
| Sharded key/value service | `shardkv/` | not modelled: the server is an empty skeleton |
| Encoding | `labgob/` | not modelled: a wrapper of gob without state |
| MapReduce | `mr/`, `mrapps/`, `main/` | not modelled: skeletons and sequential text processing |

A clerk sends a request to one server after the other. A server that takes itself for the
leader passes it to `Start` and waits on a channel; Raft replicates it, and `fetchApply` of
every server takes it from `applyCh`, applies it, and, on the leader, sends the answer into
the channel. Everything runs over a network that loses and reorders, on servers that crash.

What is shared, and by whom: a Raft struct, under `rf.mu`, by the ticker, the `elect`
goroutines, one `aeSender` and one goroutine per heartbeat and follower, the RPC handlers,
`updateApplied` and the service; a server's map and channels, under `kv.mu` or `sc.mu`, by
its handlers and `fetchApply`; the tables of a network, under `rn.mu`, by every call and by
the harness; the flag `kill`, the channel of answers and `longest` by the goroutines of the
linearizability checker. Every release of a lock is where another actor may come in,
and is where an action ends. Where that can go wrong is listed, line by line, under
`hazards` in `PROJECT.json`.

## The modules

**`Raft`** is `raft.go`. `rf[i]` is the Go struct of peer `i`, and the operators on a record
`r` are its methods, under their names. An action is what one goroutine does between taking
and releasing `rf.mu`, so that `elect` is split into one `SendRequestVote` per peer, and
`onRound` into the sending, the handler on the other side, and the handling of the reply.

* `todo` and `votes` hold the `elect` goroutines: which peers each has still to ask, and
  which votes it has counted. A goroutine is named by the term it started in, but asks with
  the term of the moment, as the code does.
* `rpcs` holds the calls in flight, each as a request or as its reply, together with what
  the caller remembers. Any may be handled next and any may be lost. A round may be sent
  twice with the same content (heartbeats and `aeSender` run side by side); `copy` tells the
  two apart. `live` is false once the caller has crashed: the request may still be served.
* `batch` is what `updateApplied` has collected under the lock and still has to push;
  `snaps` are the goroutines of `InstallSnapshot` that wait to push theirs. Both race for
  the same channel.
* `hist` is the service: the commands applied, which are also what a snapshot holds. `Apply`
  skips a command it already has. The dummy entry's nil command and a gap end the process,
  as do slice indexes out of range: `panicked`.
* `elected` and `committed` are history variables, which no action reads.

The timers are nondeterministic. The tokens of `aeChan`, which only make the next round
start earlier, are left out: a round may start at any time. `Links` is the connectivity of a
run, fixed; losses come on top of it.

**`Consensus`** is the contract the two services rely on: `Start` on a peer that takes itself
for the leader, entries committed by the last leader elected, and the same committed prefix
on every `applyCh`. Old leaders go on accepting requests that are then lost or survive. Its
actions name the handlers of `raft.go` they stand for, but it is not derived from `Raft`: as
`figure8` below shows, `raft.go` does not keep the contract in every execution. All that may go wrong (an election while there is a leader, a restart, a
Start on an old leader, a lost call or late answer) counts against one budget, `MaxFaults`.

**`KvRaft`** is `kvraft/server.go` and `client.go`. `Arrive`, `DealRequest`, `Wait` and `Return` are
the handler, cut at `Start` and at the lock of `getWaitChan`; `fetchApply` and `sendAnswer` are
the goroutine that applies, cut where it releases `kv.mu` before it asks whether it is still the
leader. A handler whose clerk has given up goes on with `live` false. When two handlers of one
request come by the same channel key (its entry was overwritten and started again at the same
index), the first to return deletes the channel the other one waits on: state `cut`. `maps` is a
history variable: the map after each committed entry. Strings are sequences of pieces.
**`KvStore`** is what the service promises, and `Linearizable` is the refinement: a Put or Append
takes effect when its first entry is committed, a Get may return what any of its entries saw.

**`ShardCtrler`** has the same structure over the list of configurations. **`ShardBalance`** is the
algorithm: as Go walks its maps in any order, an operator takes the walk as a parameter
and `balance` is the set of all results. Groups are sets of ids; the server names are left out.

**`Labrpc`** is `labrpc.go`: the tables of a `Network` (`enabled`, `connections`, `servers`) and the
life of a call. `call[c].pc` is where it is: `Call` and `Send` are `ClientEnd.Call`; `ReadInfo`,
`DropRequest` and `Dispatch` are `processReq` up to the start of the handler; `TakeReply`, `GiveUp`,
`CheckReply` and `Deliver` are what follows, with `isServerDead` asked while it waits (`GiveUp`) and once
more when the handler is back (`CheckReply`); `handler[c]` is the goroutine that runs the handler, which goes on when nobody waits for it any more.

**`KvConfig`** is the harness of `kvraft/config.go` on this network. Every start of a server is an instance
with a number, which is also the owner of its ends, and has a persister of its own. Connecting and
partitioning are lists of calls of `Enable` (`todo`), made one at a time, as each takes the network's
lock for itself; `ShutdownServer` and `StartServer` are cut at each call into the network (`stage`). A
handler is one that persists its update and then answers. An instance may go on after it is killed.
`wanted` is a history variable.

**`Porcupine`** is `CheckOperations` and its variants. `makeEntries` gives every order in which
`sort.Sort`, which is not stable, may leave entries of equal time. `task[k]` holds the locals of
`checkSingle` for part `k`: the linked list as `next` and `prev`, the cursor, the bit set in words of
`Word` bits, the cache by hash, the stack of calls. One action is one pass of its loop; `Receive`,
`TimeOut`, `Drain` and `Return` are `checkParallel`. What it is checked against (`Linearizations`) is
the definition: an order of the operations that respects real time and that one map would give.

`MCRaft`, `MCKvRaft`, `MCShardCtrler`, `MCKvConfig` and `MCPorcupine` hold the networks, scripts and
histories of the runs. A definition marked *Variant* is a plausible mistake in the definition
that follows it, which the properties have been shown to detect.

## The runs

Run one with `tlc -config <run>.cfg <module>`. Three servers are the least with a majority
that is not everyone; bounds on terms, log and calls are as small as the case a run is about
allows, and each is named in its `.cfg`.

| run | module | checks |
|---|---|---|
| `replication` | `MCRaft` | `TypeOK`, `ElectionSafety`, `RestartKeepsPromises`, `LogMatching`, `MatchIndexSound`, `OwnTermCompleteness`, `BackupProgress` with three peers, two candidates, two terms and a crash of any peer, over a change of leader that leaves conflicting logs |
| `snapshots` | `MCRaft` | `StateMachineSafety`, `AppliedWasCommitted`, `NoPanic`, `SnapshotIndexMatches`, `MatchIndexSound`, `NoLostWakeup`, `CommitMonotonic` with services that compact, two rounds to one follower that overtake each other, another leader that takes over, and snapshots waiting while entries arrive |
| `kv` | `MCKvRaft` | `Linearizable`, `EveryCallReturns`, `MapFollowsLog`, `ApplyNeverBlocks`, `TypeOK` for an Append and a Get of the same key, with snapshots and one fault of any kind |
| `controller` | `MCShardCtrler` | `ExactlyOnce`, `ReplicasAgree`, `AnsweredIsCommitted`, `QueryIsFresh`, `ApplyNeverBlocks`, `TypeOK` for a Join and a Query on two servers, with two faults |
| `rebalance` | `MCShardCtrler` | `Balanced`, `OwnersAreMembers`, `JoinIsMinimal`, `ApplyTerminates`, `ExactlyOnce` for every Join followed by any two updates, over three groups and five shards (a Move may name any shard and group), with a crash |
| `harness` | `MCKvConfig` | `AnsweredIsSaved`, `OneWriter`, `LinksAreWanted`, `OldInstanceIsIsolated`, `CallsReturn` for one call anywhere in the network while three servers are shut down, restarted, partitioned and connected |
| `porcupine` | `MCPorcupine` | `VerdictIsRight`, `SearchIsConsistent`, `PartialsAreLongest`, `Returns`, `TypeOK` for every history of four staggered operations on one key or two, with and without a timeout and partial results |

Five runs check one property each that the repository's notes or tests state, and find an
execution of the code that breaks it:

| run | shows |
|---|---|
| `figure8` | a leader commits an entry of an earlier term by counting (`raft.go:682`), and the leader of a later term lacks it |
| `mixed_votes` | with four peers, an `elect` goroutine that outlives its term adds up votes of two terms (`raft.go:414`), and a term has two leaders |
| `old_snapshot` | after a restart the commit index is below the peer's own snapshot, and an older snapshot of the leader passes both tests (`raft.go:363`, `:823`); installing it would slice the log at a negative index (`:371`), and `lastApplied` follows the commit index down in the same way (`:858`) |
| `snapshot_term` | a follower that installs a snapshot persists the term of an older one (`raft.go:378`) |
| `emptied` | a member whose last shard a Move took away has none after the next Join either (`server.go:487`), while another member has two |

`OwnTermCompleteness` is what remains true next to `figure8`: an entry committed together with
one of the leader's own term survives. `Balanced` is what remains true next to `emptied`: a Leave evens
out all the members, and so does a Join unless it passes over a member without a shard while another group has
several (`passedOver`); then it evens out the groups that have shards and those that join. That the executions of
the first four need a goroutine or a message to be late is why tests hardly meet them.

No run is about how much a Leave moves. `balance` gives the shards of the groups that left to one group and evens out by
moving the first shards of that group (`server.go:573`), which may be its own: a shard can move between two groups that
stay, which `test_test.go:244` and `:374` call non-minimal.

**Bounds.** `MaxTerm`, `MaxLog`, `MaxRpc`, `MaxCopies` and `MaxRestart` bound `Raft`; `MaxLog`,
`MaxFaults` and the length of the scripts bound the services; `MaxInstance` and `MaxOp` the harness.

* In `replication` and `figure8` peers 0 and 1 do not reach each other, so that their logs differ for
  as long as the run needs. `replication` has two calls in flight until the first entry is in a log and
  one from then on (`OneCallOnceLogged`): stale votes cross each other during the elections, while
  AppendEntries calls are late or lost, but do not overtake each other. That they do is left to `snapshots` and, without
  snapshots, to the theorems. Two terms do not lead the fast backup into its search for a conflicting term;
  `BackupMakesProgress` covers it.
* `snapshots` explores two instances in one run (`RoundsOrTakeover`): a leader with two entries and
  two rounds under way to its only follower, the least with which an old round can be shorter than a
  new one; and one entry with one call at a time, where another peer takes over. It leaves out
  rounds that overtake each other during a change of leader. It has no crashes: as `old_snapshot` shows,
  a restart takes the commit index and `lastApplied` below the snapshot, so that `CommitMonotonic`
  and `NoPanic` do not hold of the code with them. Its commands are symmetric, which is
  sound: no property or action tells them apart.
* Two servers are enough in `kv` and `controller` because `Consensus` counts no votes: one is the
  leader and the other one the old leader, or the one that restarts or is behind. That two handlers of one request
  wait on the same key takes three faults (the entry of the first is replaced, and the request comes back to its server),
  which the runs do not have: that no answer is wrong then is shown by `ServiceIsLinearizable` only.
* `rebalance` has fewer groups than shards; that groups without shards are right when there are more groups is shown by
  `SharesAreEven`. `emptied` has three shards, the least with which a member can lose its only one and another keep two.
* `harness` has three servers (the least that a partition splits into a majority and a
  minority), one call, by the clerk or by any instance, one restart and three operations of the test:
  a shutdown, a start and one more operation before, between or after them.
* `porcupine` has words of two bits in place of 64, so that four operations need two words and
  different bit sets have the same hash.

**Deadlock** is not checked (`CHECK_DEADLOCK FALSE`): every run ends in states where its bounds
are used up and its scripts done, from which the program could go on and the model cannot, or, in
`porcupine`, where the function has returned. Where stopping would be wrong, `EveryCallReturns`,
`CallsReturn`, `Returns` and `ApplyNeverBlocks` say so.

**Fairness.** In `KvRaft` `consensus` is weakly fair: the election timers of a cluster
without a leader fire until one is elected, heartbeats make it commit and old leaders step down.
`fetchApply` is weakly fair, as a goroutine that can run. So is every call, at the clerk, whose loop
does not end until it has an answer, and in its handler, whose `select` ends with the timeout at
the latest. Faults, requests and snapshots are under no fairness. That a fault happens only finitely
often is the bound `MaxFaults`; with endless elections no call need ever return. A handler's timeout
counts as a fault only while its answer is still on the way. A late snapshot that reaches a server just as it has
become leader is left out of `readSnapshot`, and so are entries collected before a snapshot and
pushed after it, which are in `Raft`. In `KvConfig` the goroutines of the network and the
operation the harness has begun are weakly fair, and a handler is so only while the network
still has its instance: after a shutdown it may hang for ever. In `Porcupine` every goroutine is weakly fair.
`Raft` and `ShardCtrler` state no fairness, and no liveness is checked of them.

## The proofs

Checked with `tlapm`. Each module of proofs begins with the argument. A line `USE ZenonT(2), SMT, Zenon`
has the provers tried in that order, which takes a fraction of the time of the default.

### Raft

For every number of peers, every network, any set of commands, and any bounds, with crashes, lost,
late and doubled calls; they assume only what the `ASSUME`s of `Raft` say (there is a peer, nil is not a
command, links and the other sets are among the peers). `RaftProofs` holds the results that need
nothing else, and the election argument; `RaftLogs`, `RaftCompleteness` and `RaftSafety` build on it, and
the theorems are at the end of `RaftSafety`.

* **`TypeCorrect`**: `Spec => []TypeOK`. One lemma for each method of the struct, then
  one for each action. `TypeOK` is inductive as it stands because it says that no log is
  empty and no index that is sent is negative.
* **`CrashRecovery`**: `Spec => RestartKeepsPromises`: a crash at any moment takes
  back no term, vote or entry. The invariant is `AllSaved` (theorem `AlwaysSaved`): what
  the persister holds is what the peer has promised, after every action. Each method that changes
  a promise is shown to save it, each other one to keep both, and `Make` to restore it.
* **`SnapshotsAreWhole` and `WakeupsAreKept`**: `Spec => []SnapshotIndexMatches` and
  `Spec => []NoLostWakeup`. The inductive invariant `SnapshotInv` adds the snapshots that wait in
  `applyChan`, of which neither property speaks, and rests on `AllSaved` for the restart.
* **`ElectionSafetyOfThree`**: `N <= 3 => (Spec => []ElectionSafety)`. The
  inductive invariant `ElectionInv` adds to `AllSaved` that a peer's own vote is with itself while
  it is no follower (`SelfVote`), that a vote on its way or counted binds its voter for the rest of the
  term (`VoteBinds`), that it gives one per term (`OneVote`), and that a majority has settled on
  every leader there ever was (`LeadersSealed`). The last is needed because `AppendEntries` resets
  `votedFor` in the same term for a candidate: a voter that was counted is no candidate, and one that is
  has not settled. With up to three peers the deciding vote and the leader's own are a
  majority, whatever else was counted.
* **`ElectionSafetyOfAny`**: `Spec /\ []OneTermPerElection => []ElectionSafety`, for any
  number of peers: the hypothesis, that a goroutine counts votes of its own term only, is what
  `mixed_votes` shows the code does not ensure.

What the logs hold is proved for services that take no snapshots (`Compacting = {}`: the labs before
snapshots, and a `KVServer` with `maxraftstate` -1), under `[]VotesOfOneTerm`, which is `N <= 3` or the
hypothesis above. Snapshots move the beginning of a log; with them these properties are checked by `snapshots`.

* **`LogsMatchWithoutSnapshots`, `MatchIndexIsSound`, `BackupMakesProgress`**: `LogMatching`,
  `MatchIndexSound` and `BackupProgress`. The invariant (`LogsAlways`) says that there is a family `G` with the last log of
  every leader there was, and that every log and every round is a piece of it: an entry of term `t`
  came from `G[t]` along with all before it. `G` is in no variable; each step shows how to
  extend it. What `matchIndex` and a reply say of a follower is then a statement about `G` (`Match`, `Acks`),
  and so is where a rejection sends the leader (`Backs`).
* **`OwnTermsAreComplete`**: `OwnTermCompleteness`, the part of leader completeness that holds next to `figure8`.
  The invariant (`CompleteAlways`) adds who elected each leader (`Voters`), and that a peer that took an entry of
  the leader of `t` has it, and voted later only for who had it, unless a leader between was without it (`Acked`).
  A majority took what is committed, so no leader is the first to be without it.
* **`AppliedIsCommitted`, `StateMachinesAgree`, `NothingPanics`, `CommitsAdvance`**: `AppliedWasCommitted`,
  `StateMachineSafety`, `NoPanic` and `CommitMonotonic`, under `[]OwnCommits` as well: every
  commit counts an entry of the leader's own term. This is the rule of the design notes that `figure8` shows the code
  does not keep; without it these properties do not hold. It is true of every execution in
  which no leader commits before it has replicated an entry of its own. The invariant (`SafeAlways`) says that what lies below a
  commit index, a peer's or a round's, is what a leader has committed there (`PeersCommit`, `RoundsCommit`), and
  that the service has, and is about to be handed, just that, in order (`Applied`).

Of the sizes of sets the steps use only what `Counting` says: two majorities meet, and what the
code counts is one. It is proved as `CountingHolds`.

### The key/value service

Over `Consensus`, for any number of servers and clerks, any scripts,
logs and faults. The assumptions are `ServerAssumption` (the servers are numbered from 0),
`FaultsAssumption` and `ScriptAssumption` (the scripts are sequences of sets of operations). All in `KvRaftProofs`.

* **`RequestsCountOnce`**: `Spec => []MapFollowsLog`. That a server holds the map of what it
  has applied is not inductive: `execute` skips a request by its number alone, which is
  right only if the log holds the requests of a clerk in order. The invariant `IInv` says why it does.
  A clerk has one call in hand, and an entry or handler with its current number carries that call
  (`RequestsMade`, `OneCall`); it goes on only when its last request is committed (`DoneIsCommitted`);
  so every log that may become the leader's has the requests of a clerk in the order of their numbers
  (`InOrder`), and "not above `lastRequestId`" is the same as "applied before" (`ServersFollow`).
  `DoneIsCommitted` in turn needs that an answer, wherever it waits, is that of its key's entry
  (`AnswersRight`, `Waiters`).
* **`ServiceIsLinearizable`**: `Spec => Linearizable`, the refinement of `KvStore`.
  The commit of the first entry of a request is the step at which a Put or Append takes effect, and
  the commit of any of its entries one at which a Get may read; a call is a `Call`, an answer taken
  by a live handler, or a request found applied, is a `Return`; all other steps change nothing the store shows.
* **`KvTypeCorrect` and `ChannelsNeverFill`**: `[]TypeOK` and `[]ApplyNeverBlocks`. A key holds the index of its entry,
  and what is in a channel was sent for an index that is already applied (`AnswersSent`); a restart, after which
  indexes come again, takes the channels with it.

### The shard controller

Over `Consensus` too, for any number of servers, clerks, groups and shards, any scripts, walks and
faults. The assumptions are those of the service, `GroupAssumption` (finitely many groups, whose ids are
positive) and `NShardsAssumption` (there is a shard); a Query asks for a number from -1 on.

* **`ShardBalanceProofs`, `BalanceDeals`** (a lemma): `balance` returns, with one result for all walks, and `Dealt`
  says what it is: all shards have a group if there is one, the groups are within one of each other, and
  groups that no other exceeds by more than one gain nothing. Each loop of the code
  is a function defined round by round. Induction over the rounds is the lemma
  `UpTo`, on the least round that fails. `getNext` and its like return the same group for every walk because ties go to
  the lesser id; a round moves one shard from a largest group to a smallest one, and a shard that was
  moved stays (`Settled`), so there are no more rounds than shards.
* **`ShardCtrlerProofs`**: `UpdatesCountOnce`, `AnswersAreCommitted`, `QueriesAreFresh`, `TypeCorrect`, `ChannelsNeverFill` from an
  invariant like that of the key/value service, with the number of updates in place of the map;
  `ConfigurationsAgree`, `MembersOwn`, `SharesAreEven`, `JoinMovesLittle` and `BalanceEnds` from
  `BalanceDeals` and the conjunct `history` of `ServersFollow`, which says that each configuration is one that `deal` makes of the one
  before with the update at its place, the first entry of its request. For `SharesAreEven`, either the balance of a Join knows
  every member, or no group has more than one shard and nothing moves (`SinglesStay`).

### The harness

* **`KvConfigProofs`, `AnsweredStaysSaved` and `OneWriterEach`**: `Spec => []AnsweredIsSaved` and
  `Spec => []OneWriter`, for any number of servers, clerks, calls, restarts and operations. The invariant
  says whose persister each instance writes at every stage of a shutdown and a start (`Instances`),
  and, for each call, that a handler that is through has saved to the persister of its instance
  (`OnItsWay`): then a reply that passes `isServerDead` was saved before the persister was copied.
* **`KilledInstancesAreIsolated`**: `Spec => OldInstanceIsIsolated`, for any number of servers. The invariant `Wires` says that
  the ends of a server are those of its last instance, which no two servers share (`Owners`), and that every end that is
  enabled, or is about to be, belongs to a clerk or to an instance that is up (`Isolation`). For the moment of the
  kill it needs what a shutdown has still to do: the ends of its server are disabled or on the list.
* **`LinksAreAsWanted`**: `Spec => []LinksAreWanted`, for an odd number of servers from three on, as in every
  test: with an even number `make_partition` leaves a 0 in its smaller part. The invariant `Links` says of each pair of
  servers that a call of `Enable` that is still to be made sets the end as the test wants it, and where none is to be
  made the end is so already. What ConnectAll and partition plan is proved list by list (`ConcatLists`, `PartitionPlans`), and so
  is that the parts have every server once (`make_partitionSplits`, `CoinsSplit`).

### Only model-checked

* Liveness (`EveryCallReturns`, `CallsReturn`, `Returns`), which is out of the prover's reach.
* The linearizability checker, whose module sorts and searches with recursive operators.
* What Raft's logs hold while services take snapshots, `snapshots`.

## Not modelled

* Durations and delays in milliseconds, the counters of `labrpc`, `Reliable` called in the middle of
  a test, and the dispatch of a call to a method by reflection.
* The encoding (what is encoded, and that it is restored in the same order, is modelled); logging;
  `RaftStateSize`, for which any moment to take a snapshot will do.
* Concurrent calls on one clerk of `kvraft`, which the notes exclude and no test makes.
* That `Raft` implements `Consensus`: `figure8` and `mixed_votes` are executions in which it does not.
* Of `porcupine`, the interface for events, which nothing in the repository calls, and the
  visualization, which is output; a history without operations, which no test passes.
* Of the harness, `deleteClient`, which only forgets a clerk, and the reports and time limits. The
  connections of the other two harnesses have the same text; in `Raft` the links of a run are fixed.
* The server of `shardkv`, whose handlers are empty, and with it the clerk's retry over groups, which
  has nothing to talk to; MapReduce, which is the skeleton of the lab.

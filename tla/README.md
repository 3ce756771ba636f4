# TLA+ verification of the distributed file system

TLA+ modules, TLC runs and TLAPS proofs about the Rust distributed file system in
this repository. The models are translated from the Rust sources; line numbers are
those of `dfs/metaserver/src/simple_raft.rs` (`raft:`) and
`dfs/metaserver/src/master.rs` (`master:`), `dfs/chunkserver/src/chunkserver.rs` (`chunk:`),
`dfs/client/src/mod.rs` (`client:`), `dfs/common/src/sharding.rs` (`sharding:`) and
`dfs/metaserver/src/config_server.rs` (`config:`). `PROJECT.json` maps every definition to
the lines it models.

    tlc -workers 2 -config RaftTerms.cfg MCSimpleRaft      # a run
    tlapm SimpleRaftProofs.tla                             # the proofs of a module

## 1. The system

| Part | State | Operations | Hard behaviours |
|---|---|---|---|
| **Raft group** (`simple_raft.rs`), one per shard and one for the config server | in RocksDB: term, vote, log keys, snapshot; in memory: role, log, commit and apply indices, peer tracking, waiting clients and reads | tick, RequestVote, AppendEntries, InstallSnapshot and their replies, client batch, GetReadIndex, snapshot, restart | interleaved elections; lost, late and repeated HTTP exchanges; several database writes per handler and a crash between them; absolute and relative indices |
| **Membership** (`simple_raft.rs`) | cluster configuration, non-voting members, catch-up progress, transfer state | add/remove server, joint consensus, promotion, TimeoutNow | configuration changes racing elections and each other |
| **Master namespace** (`master.rs`, `apply_command`) | files, transaction records, shuffling prefixes | create, delete, allocate, complete, rename, ingest, tiering and EC commands | what a handler reads is stale when its proposal is applied |
| **Cross-shard rename** (`master.rs`) | a transaction record in each of two shards, handlers in flight | 8-step rename, prepare/commit/abort/inquire RPCs, cleanup task, recovery task | partial failure, crashes, late RPCs, tasks racing handlers, garbage collection |
| **Chunkserver registry** (`master.rs`) | status per server, pending commands, bad blocks, safe mode | register, heartbeat, liveness check, heal, balance | commands lost with a heartbeat's answer, servers declared dead too early |
| **Shard map and config server** (`sharding.rs`, `config_server.rs`) | ranges to shards, peers, registered masters | split, merge, rebalance, register, fetch; split detector, shuffler, migration | stale cached maps, migrations that stop half way |
| **Chunkserver** (`chunkserver.rs`) | blocks and checksums on disk, known master term, cache | write pipeline, read, replicate, scrub, reconstruct | fencing by term without a lock, partial replication |
| **Client** (`client/src/mod.rs`) | shard-map cache, host aliases | leader hints, redirects, retries, hedged reads | a retried call that had already succeeded |
| **S3 gateway, auth, audit** | multipart parts as files, credentials cache, audit batch with hash chain | S3 operations as sequences of client calls, SigV4, STS, policies | multi-step operations that fail in the middle |

How they interact: a master handler reads the applied state under a mutex, sends an
`Event::ClientRequest` to its Raft node and waits for the answer, which comes from
`apply_logs` or from `step_down_to_follower`. Masters of different shards call each
other over gRPC (`PrepareTransaction`, `CommitTransaction`, `AbortTransaction`,
`InquireTransaction`, `IngestMetadata`). Chunkservers talk to masters by heartbeats,
masters to chunkservers only in the heartbeat's answer. Everybody fetches the shard map
from the config server, itself a Raft group.

What makes each part correct: for Raft, one leader per term, one log, acknowledged
writes that stay, reads that see them, restarts that forget nothing; for rename, no file
lost, success told only when the file has moved, every vote eventually resolved; for
sharding, every path owned by exactly one shard and found there; for chunkservers, no
write of a deposed master, no acknowledged block without its replicas; for healing, every
under-replicated block eventually repaired and none over-deleted. `PROJECT.json` lists
the hazards line by line.

## 2. Modules

| Module | What it is |
|---|---|
| `SimpleRaft` | the Raft group with fixed members |
| `ReplicatedLog` | what a Raft group promises its users: the abstract specification |
| `MCSimpleRaft` | instances, symmetry and view for TLC |
| `SimpleRaftProofs` | TLAPS: no term has two leaders; the types of the whole state |
| `SimpleRaftLogProofs` | TLAPS: logs match, restarts find the log they had |
| `SimpleRaftCommitProofs` | TLAPS: lemmas about votes, acceptances and what can still be committed |
| `SimpleRaftSafetyProofs` | TLAPS: leaders are complete, state machines agree, `ReplicatedLog` is implemented; a group of one with compaction |
| `CrossShardRename` | the two-phase commit between two shards with its background tasks |
| `MCCrossShardRename` | instances for TLC |
| `CrossShardRenameProofs` | TLAPS: no file is lost, committed renames have moved |
| `Deployment` | the constants that master and chunkservers share |
| `ChunkServer` | the chunkservers: write pipeline, reads and recovery, scrubber, commands, crashes |
| `MasterRegistry` | the master's view of chunkservers and one file: heartbeats, healing, placement, tiering, safe mode |
| `BlockStore` | `ChunkServer`, `MasterRegistry` and a client composed, with the faults between them |
| `MCBlockStore` | instance and scenarios for TLC |
| `BlockStoreProofs` | TLAPS: reads answer what was written, acknowledged writes are stored |
| `ShardMap` | the range map as operators |
| `ConfigServer` | the replicated map and its RPCs: the abstract view of a sharded cluster |
| `ConfigServerProofs` | TLAPS: the map stays well formed and covers the key space |
| `Sharding` | config server, masters with their detectors and a client composed; implements `ConfigServer` |
| `MCSharding` | instance and scenarios for TLC |
| `ShardingProofs` | TLAPS: made-up maps route alike, the config server is implemented, every file has one holder while the maps rest |

A definition marked `Mutant:` is a plausible bug of the definition that follows it. No
specification uses it; it exists to show that a property notices.

### SimpleRaft

One action is one event of `RaftNode::run`: the loop handles events one after another, so
a handler is atomic except for crashes. Variables have the names of the struct's fields.
`log[i]` holds the entries after the snapshot and `last_included_index`/`_term` stand for
the dummy entry at position 0; `db_log` is the set of `log:<n>` keys in RocksDB, apart
from `log` so that a restart can find something else. The state machine is the sequence of
commands applied to it, so a lost, doubled or reordered command shows.

| Action | Code |
|---|---|
| `ElectionTimeout`, `SoleMemberElection` | `tick` raft:1190, `start_election` raft:1276, `become_leader` raft:1367 |
| `QuietTick`, `LeaderTick` | `tick`, `send_heartbeats` raft:1410; each ends with `create_snapshot` raft:1033 when the log is too long (`Compact`) |
| `ClientRequest` | `handle_event_batch` raft:1689 |
| `GetReadIndex` | raft:1863, `check_read_indices` raft:993 |
| `HandleRequestVote` ... `HandleInstallSnapshotResponse` | the arms of `handle_rpc` raft:1900 |
| `LoseExchange`, the parameter `lost` | HTTP calls given up; the retry loops raft:1488, 1593 that send a request again when its reply was lost |
| `Restart` | process death, `RaftNode::new` raft:669, `load_state` raft:809 |
| `CrashIn...` | a crash between two database writes of one handler: term and vote, key-by-key truncation, snapshot meta and data |

`PeerOfReply` models the search at raft:2345 for the peer whose address *contains* the
replier's number; `HelmAddress` is what it finds with the names of `deploy/helm`.
`chosen`, `acked`, `elected` and `served_reads` are history.

Left out: changes of membership (`RaftNode::new`, raft:712-735, drops a peer whose address
does not parse; here all members have the same list); the S3 backup of snapshots; errors of RocksDB (`save_log_entries_batch` failing
and the batch being rolled back); `MasterState` fields that are not replicated; leader
hints. A crash among the deletions of `create_snapshot` leaves only keys below the
snapshot, which nothing reads.

### CrossShardRename

A shard is what its Raft group has applied, as the leader reads it: `ReplicatedLog`
justifies this. What a handler reads and what it proposes later are separate steps.
A proposal is applied, or fails for its proposer and is then applied later or never
(`limbo`): a leader that steps down answers its clients with an error while the entry may
still commit. `calls` are RPC handlers of the participant; the caller may give up
(`RpcFails`) while the handler runs, or starts, later.

| Action | Code |
|---|---|
| `BeginRename`, `RecordPending`, `RecordPrepared`, `AfterRpc`, `RecordAborted`, `Finish` | `rename` master:2728, steps 1 to 8; `send_*_to_dest_shard` master:3667 |
| `PrepareArrives`, `PrepareRecords` | `prepare_transaction` master:3026 |
| `CommitArrives`, `CommitApplies`, `CommitUpdates` | `commit_transaction` master:3131 |
| `AbortArrives` | `abort_transaction` master:3232 |
| `StartCoordinatorCleanup`, `StartParticipantCleanup`, `Inquire` | `run_transaction_cleanup` master:968, `inquire_transaction` master:3276 |
| `StartRecovery`, `RecoveryTodo` | `run_transaction_recovery` master:1171 |
| `RunTask` | the `*_via_raft` helpers master:851 |
| `FilesAfter`, `RecordsAfter` | `apply_command` raft:3079-3147, 3286-3296 |
| `CommitLate`, `CrashCoordinator`, `CrashParticipant`, `Age` | Raft, process death, the one-hour limit master:182 |

A record may be 10 seconds old at any moment, so that limit is no guard. It is an hour old
(`aged`) only when nothing of the transaction is under way any more. The tasks of
followers change nothing (their proposals are refused); a commit RPC of a follower's
recovery task is a `StartRecovery` whose coordinator then crashes, and "not found" answered
by a lagging follower is an `RpcFails`. Legacy records without coordinator and participant
records in state Pending cannot arise and are left out. Ordinary creations and deletions of
the same paths by clients are left out.

### ChunkServer, MasterRegistry, BlockStore

One file with one block, replicated or erasure-coded (one data and one parity shard, or k and
m by `Shards`). Contents are model values: what the client wrote, what the disk made of it,
an unfinished file. A checksum is the content it was computed of, so a file verifies exactly
when both agree; a file without checksums is what `verify_block` says of it.

| Action | Code |
|---|---|
| `LoadTerm`, `StoreTerm`, `CreateBlock`, `SyncBlock`, `CreateMeta`, `WriteMeta`, `WriteFails`, `Answer` | `write_block` chunk:719, `replicate_block` chunk:983, one step per await or system call; the chain below a server answers before it does; the `.meta` file is emptied by `File::create` (chunk:202) and filled later, and an error or a crash in between leaves it empty |
| `StartRead`, `OpenBlock`, `ReadBlock`, `CheckRead`, `PartialRead` | `read_block` chunk:831, `read_block_async` chunk:211; a full read is verified and cached, a partial one is verified chunk by chunk |
| `LookupPeers`, `TryPeer`, `Reread`, `Return` | `recover_block` chunk:353: its read of a peer is a `read_block` there, so `call` is a stack of frames across servers |
| `Scrub`, `Evict` | `run_background_scrubber` chunk:642, the cache |
| `Replicate`, `Reconstruct`, `MoveBlock`, `MoveMeta` | the commands of a heartbeat's answer: chunk:462, 503, 124 |
| `Crash`, `Restart`, `Rot` | process death (`Below` and `Hop` unwind the chains and stacks that wait for the server), a start with term 0, the disk |
| `RegisterChunkServer` | master:2562, which no component calls: the server is known, safe mode is neither asked nor ended |
| `Heartbeat`, `LivenessCheck`, `HealCmds`, `PeriodicHeal`, `Balance`, `InitiateShuffle`, `Shuffle`, `ScanTiering` | master:2596, 729, 432, 762, 777, 3618, 1324, 1933 |
| `CreateFile`, `AllocateBlock`, `GetFileInfo`, `BlockLocations`, `DeleteFile`, `SelectServersRackAware` | master:2235, 2351, 2179, 2687, 2295, 374 |
| `EnterSafeMode`, `ShouldExitSafeMode`, `SetSafeMode`, `Writable` | master:260, 287, 3338, 2163 |
| `ForgetLocalState`, `NewTerm`, `UpdateTerm`, `Silence` | what a restart of the master loses (it reports term 0 at first, master:1895), a new leader's term, `run_term_updater` master:712, a server not heard of for 15 seconds |
| `ClientCreate` ... `ClientComplete`, `ReadFile`, `AskLocation`, `TakeAnswer`, `EndRead`, `ReadRange` | client:225, 496, 695, 921, 948, 1110, 731 |
| `Beat`, `BeatElsewhere`, `BeatLost`, `ElectionElsewhere` | the heartbeat loop of `bin/chunkserver.rs`:195 over all masters of all shards, of whose terms it keeps the highest; a lost answer loses its commands |

`CHUNK_SERVER_ADDR`, by which `recover_block` leaves out itself, is set nowhere in the
repository: without it every location "contains" the empty address and is skipped. Both cases
are modelled (`ownAddr`). `file` with its locations is Raft's, applied at once; `reg`,
`bad`, pending commands and safe mode are local and lost with the process.

What is coarser than the code: of the other masters that a chunkserver beats to only the term
matters here, so followers' registries and the healers that run on them are left out. There is
one call stack: reads, recoveries and scrubs of different requests do not overlap, though each
overlaps with writes, commands and heartbeats (`StartRead`). `Reconstruct` fetches its shards
in one step and writes in the steps of any write. `Torn` and `Emptied` are both an empty or
unfinished file to the code; the model tells them apart by what was there before, so that a
property can say that a recovery emptied it.

### ShardMap, ConfigServer, Sharding

Keys are naturals in the order of the strings and a range is named by its end, which it
includes. `ShardMap` translates `sharding.rs` operation by operation, with the range that
`add_shard` makes up ("/m", "z-<id>"). In `ConfigServer` an RPC is the application of its
command; the answer says that it was committed, not that the map accepted it.

| Action | Code |
|---|---|
| `RegisterMaster`, `ProposeSplit`, `ProposeMerge`, `ProposeAdd`, `ProposeRemove`, `ProposeRebalance` | config:63-306, raft:3302-3388 |
| `AllocatePeers`, `NotifySplit` | `split_shard` chooses the peers of the new shard under a lock (config:143, `Allocations`) and then waits for Raft: masters may register before the split is applied (`Chosen`) |
| `NotifyFails`, `ApplyLate` | a call without an answer, repeated at another config server or given up; its command may be in Raft and is applied later or never |
| `Fetch`, `Install`, `ClientFetch`, `AnswerLost` | `run_shard_map_refresh` master:1429, `refresh_shard_map` client:1493; the answer holds no ranges (config:43), so `Rebuild` makes them up from the sorted ids |
| `Start`, `Call`, `CallFails`, `Serve`, `NextAttempt` | `execute_rpc` client:1293, 1328; `check_shard_ownership` master:2141; the state is read or changed some time after the check |
| `StartList`, `ListShard`, `EndList` | `list_all_files` client:125 |
| `Register`, `Decay`, `DetectSplit`, `DetectMerge`, `Collect`, `NotifyMerge`, `Push` | `run_split_detector` master:1483, `decay_metrics` master:656, `ingest_metadata` master:3558, SplitShard and IngestBatch raft:3148 |
| `Restart` | a master starts with an empty map (`bin/master.rs`:195); the commands it has sent to the config server live on |
| `Operator` | the RPCs of the config server that no program of the repository calls |

A group of masters is one process with one address. A decay may leave any of the prefixes
asked for above the threshold. `CallFails` also stands for a master that refuses a write in
safe mode (`Status::unavailable`, which the client treats like a failed call). A registration
is applied at once: the loop of a master repeats it until it is answered.

## 3. Runs

| Run | Instance | States | Shows |
|---|---|---|---|
| `RaftTerms` | 3 members, 3 terms, NoOps only, exchanges lost, a request repeated | 420 k | `LogMatching`, `LeaderCompleteness`, `IndicesWithinLog` |
| `RaftCrash` | 3 members, 2 terms, 1 command, messages delayed across elections, 1 restart, crashes between term and vote | 680 k | `ElectionSafety`, `RestartRecoversLog`, `StateMachineSafety`, refinement of `ReplicatedLog` |
| `RaftSnapshots` | 3 members, compaction at every entry, all crash windows, Helm addresses | 849 k | `SnapshotLabels`, `TypeOK` (no index underflows) |
| `RaftPair` | 2 members, 2 commands, batches of 2, retries, fairness | 109 k | `AckedOnMajority`, `MatchIndexTrue`, `CommittedEntriesStay`, `WritesAnswered` |
| `RaftSole` | 1 member, 3 commands, 3 terms, 2 restarts, 2 reads, threshold 3 | 13 k | `LinearizableReads`, `StateMachineSafety` |
| `RenameRecovery` | 1 rename, 2 failures, presumed abort after 1 inquiry, fairness | 524 k | `TypeOK`, `ContentPreserved`, `CommittedIsMoved`, `UnackedRecordKept`, `ParticipantResolves` |
| `BlockStore` | 3 chunkservers in 2 racks, 2 replicas or 1+1 shards, 21 scenarios, fairness | 151 k | `FullReadsRight`, `AckedIsStored`, `Healed`, `ReadsAnswered`, `ReadSurvives`, `FencingConverges`, `TypeOK` |
| `Sharding` | 2 masters, 2 further shard ids, 2 files on both sides of "/m", 17 scenarios, fairness | 230 k | `RangesBelongToShards`, `WholeKeySpaceKept`, `ImplementsConfigServer`, `SameShardsSameRoute`, `SteadyRequests`, `OneHolder`, `RequestEnds`, `MapsConverge`, `TypeOK` |
| `RaftReadIndex` | 3 members, 2 terms, 1 read | | finds the violation of `LinearizableReads` below |
| `RaftSnapshotContents` | 3 members, 2 commands, threshold 2 | | finds the violation of `StateMachineSafety` below |
| `RenameDataLoss` | 2 renames to one path, no failure | | finds the violation of `ContentPreserved` below |
| `ShardingReads` | one split, two requests | | finds the violation of `ReadsContinue` below |

**Bounds.** `MaxTerm` 3 is what Raft's hard cases need: an entry replicated by the leader of
term 1, overwritten or completed by the leaders of 2 and 3; what these properties compare is
the term of an entry, so the leaders' NoOps are enough and `RaftTerms` needs no commands. `MaxInFlight` limits when a
*new* round of messages may start, not how long a message stays: with 2, a message of one
election is delivered in the next (`RaftCrash`, `RaftPair`). With 1 there are still up to
two messages of a round, delivered in any order or lost. `RaftPair` is where late and
repeated replies meet batches; two members suffice because everything it says is about a
leader and one peer. `RaftSnapshots` has no client commands: NoOps fill the log, and with
threshold 1 every committed entry is compacted, so transfers, labels and crashes abound.
`RaftSole` is the configuration of the single-node tests. In `RenameRecovery` two failures
reach every pair (a proposal that fails and commits late, followed by a crash); the theorems
lift both bounds. Symmetry permutes members and commands in runs without liveness; the view
drops fields that a node's role makes dead, and the ballots recorded in `elected`.
Deadlock is checked in the Raft runs (`QuietTick` is always possible for a follower) and not
for renames, which really end.

`BlockStore` and `Sharding` bound behaviours by *scenarios*: `budget` says which operations and
faults a behaviour has and how often at most; everything that is not a fault or an operation
happens as often as the code lets it. A scenario combines the faults that can meet. In
seven scenarios of `BlockStore` there are three servers: a crash with a lost heartbeat or with
shards to rebuild; a scrub, a term change or an I/O error with a write; copies and shuffles of
damaged files. In fourteen one of them is `absent`, so that every server is listed: a crash
with a write, of shards too; two crashes with a read (a server that dies, comes
back, and then the other one dies); damage, an I/O error and a crash in one recovery; two
damaged copies; a tier move with a read; elections of this shard, of another one and a write;
a new master in safe mode. In `Sharding`: stale maps with lost calls, splits with requests,
with merges and with masters that register, merges of both masters, restarts of the victim,
and commands that outlive the master that sent them. Three servers and two replicas leave one
spare to heal to; two racks make placement choose. Two masters and one split of each are the
smallest cluster in which a third id (whose made-up range is the odd "z-" one) appears; two
attempts per request are enough for a redirect and for a circle of them, and `RequestEnds`
depends only on the count. `MaxDepth` cuts the stack of nested reads, deep enough for the
endless recursion to come back to its first server; `MaxJobs` stops new copies while handlers
are busy. Deadlock is checked in both.

**Fairness.** `SimpleRaft!Fairness`: every node ticks and handles the messages that arrive
(`run` selects over its timer and its channel), and exchanges end; no election is assumed to
happen or to succeed, and `RaftPair` loses no message for ever. `WritesAnswered` then says
that a client of a leader is answered, or the leader stops being one.
`CrossShardRename!Fairness`: handlers and tasks that run go on, and the intervals tick; RPCs
whose caller has given up, and proposals in limbo, owe nothing, and failures are finite.
`BlockStore!Fairness`: heartbeats of running servers to this master and to the others, the
master's background loops (liveness, healer, term updater), the handlers of a running server
and the client go on; a crashed server need not restart, but its silence is noticed. `Sharding!Fairness`: the refresh and registration loops of masters,
spawned tasks, answers under way and the client's request go on; detectors, operators,
restarts and commands whose caller has given up owe nothing.

### Disagreements between code and documentation

1. **ReadIndex** (`RaftReadIndex`). `GetReadIndex` takes `commit_index` at once. A new leader
   that has not committed anything in its term may not know what its predecessor committed and
   acknowledged; the first acknowledgement of the term serves the read, before the handler
   advances `commit_index`. raft:15 promises "Linearizable reads without log replication".
2. **Contents of a sent snapshot** (`RaftSnapshotContents`). `send_heartbeats` sends the
   state of now under the index of the last compaction; the receiver applies the entries
   between again. Commands that are not idempotent (block allocation, `IncrementInquiryCount`)
   are applied twice.
3. **Rename to an occupied path** (`RenameDataLoss`). `Create` skips a path that is taken, by
   whatever file, and the coordinator deletes the source. Two renames prepared for one
   path before either commits lose one file, contrary to
   `docs/superpowers/specs/2026-06-18-2pc-recovery-design.md:225`.
4. **Reads during a split** (`ShardingReads`). Applying `SplitShard` removes the files at and
   above the split key; the detector looks for the files to move afterwards, by prefix, and
   finds none. A file under the hot prefix is gone for its client, where
   `DYNAMIC_SHARDING.md:357` says that reads can continue during a split.

These further ones are reproducible by changing a configuration and are kept out of the
list of runs; each passing run excludes exactly the setting, or does not claim the property, named:

* `RaftPair` with three members, threshold 2, `MaxTerm` 1: a late InstallSnapshot empties a
  log that reaches beyond it (raft:2307 compares snapshot indices only) and `AckedOnMajority` fails;
  in the same instance `RestartRecoversLog` fails, the keys above the snapshot
  stay in the database (raft:1135).
* `RaftPair` with threshold 2, `MaxTerm` 1: `WritesAnswered` fails. `next_index` never goes
  below the snapshot (raft:2202), so the snapshot the peer needs is never sent, despite
  raft:2211 "The heartbeat logic should detect this and send a snapshot."
* `RaftCrash` with window `"truncate"`: a crash leaves a gap in the keys; entries behind it
  come back after later appends and `RestartRecoversLog` fails.
* `RaftSole` with window `"create"`: after a crash between `snapshot_meta` and
  `snapshot_data` the commands in between are lost and `StateMachineSafety` fails.
* `BlockStore` with `Scenarios <- MCRestart` and the property `SafeModeWaitsForReports`, which
  is what master:224, master:269 and `refactor-instructions.md:76` say: 99 % of the blocks must
  be reported. It fails: `bin/master.rs:121` enters safe mode on the default state, before Raft
  has loaded anything, so no block is expected and the first heartbeat ends it whatever it
  reports.
* `BlockStore` with `Scenarios <- MCOtherShard` and the invariant `OnlyStaleFenced`, which is
  what chunk:38-40, chunk:732 and `TODO.md:136` say of fencing. It fails: a chunkserver keeps
  the highest term that any master of any shard reports (`bin/chunkserver.rs:259`), but each
  shard counts its own elections. After an election elsewhere it refuses (chunk:735) the writes
  of the current and only leader of a shard with a lower term.

What the passing runs state precisely *because* the code does less than one would expect:

* `AckedIsStored` allows a listed copy whose `.meta` file is empty: a recovery rewrites it in
  place (chunk:202-204), and a crash or an I/O error in between leaves it so. Such a copy fails
  its verification until another recovery or a scrub mends it.
* `ReadsAnswered` excepts two damaged copies: `read_block` and `recover_block` of the two
  servers call each other without end.
* `ReadSurvives` asks for a copy that stays good throughout the read. The client tries each
  location once (client:962-976), so two copies that are down in turn, at the wrong moments, make
  it fail although some copy is good at every moment. It excepts a tier move: the read opens
  the path it chose before the move.
* `FencingConverges` is all that holds of the fencing term: it may fall back when two writes
  overlap, and after a restart; and what it converges to is the highest term of all shards, not
  that of the shard whose file is written (`OnlyStaleFenced` above).
* `Healed` speaks of a copy on some spare server, not of the locations: nothing enters the
  new copy in the metadata, so the healer goes on sending commands.
* `SteadyRequests` and `OneHolder` hold while the maps rest: after a change a path may be served
  by a master that does not hold its file, the files of a merge's victim are never moved, and
  a master without a map (after a restart) serves everything. A split-off shard's peers are
  masters that keep their own id and redirect every path of it; nothing is claimed of it.

## 4. Proofs

**`SimpleRaftProofs!NoTwoLeaders`: `Spec => []ElectionSafety`**, for every finite set of
members, every bound, every set of crash windows, any `PeerOfReply`. `ElectionSafety` alone is
not inductive: it says nothing about votes under way. `Cast(v, t, c)` collects every place in
which a vote of `v` for `c` in term `t` can be: `v`'s own state, a reply under way, the votes
a candidate has counted, the ballot of a leader. The invariant `ElectionInv` says that a vote
cast is the voter's present one or of a past term (`VotesHonest`), that nobody has cast two
in a term (`OneVoteEach`), and that leaders had majorities. Each kind of step is shown to be a
`VoteStep`: terms rise, a vote changes only with the term, and only real votes are
reported and counted. That holds of a crash between `save_term` and `save_vote` too, where
an old vote moves into the new term: it was never cast there, and the voter merely withholds
its vote from others. Two leaders of a term would need a common voter (`MajoritiesMeet`, from
the cardinality theorems). Assumptions: `ServerAssumption`, `BoundAssumption` and
`WindowAssumption` of the module.

**`SimpleRaftProofs!TypeCorrect`: `Spec /\ []IndicesWithinLog => []TypeOK`**, for every
group, with compaction, installed snapshots, every crash window and any `PeerOfReply`. The
proviso is what the code takes for granted ("This should not happen"): where a commit index
passes the end of the log, `apply_logs` has no entry to apply. It is not implied by `Spec`. An
InstallSnapshot that comes late replaces a longer log, committed entries go with it, and a
later conflict may be cut below `commit_index`. `UncompactedTypes` discharges it where nothing
is compacted, `SoleTypesCorrect` for a group of one. Types alone are not inductive: that a
snapshot's index is no larger than what is applied, that a commit index, a `leader_commit`
and the label of a snapshot under way are at most the length of what leaders have committed,
and that the database has finitely many keys (which `load_state` counts up through) are part
of `TypesInv`. One lemma per operator of the model says what it makes of typed arguments, one
per action that it keeps the types.

**`SimpleRaftLogProofs`, `SimpleRaftCommitProofs`, `SimpleRaftSafetyProofs`: `LogsMatch`,
`RestartsRecover`, `LeadersAreComplete`, `StateMachinesAgree`, `AcknowledgedStays`,
`MatchesAreTrue`, `IndicesStayWithin`, `CommittedStaysInLog` and
`ReplicatedLogImplemented`**, for every number of members and every bound, with messages lost,
repeated and reordered, restarts, and crashes inside `start_election` and
`step_down_to_follower`. They have the form `Spec /\ []NothingCompacted => []P`. The proviso
says that every `last_included_index` is still 0 and that no crash cuts
`delete_log_entries_from` short. It is what remains when the faults of the snapshot code are
set aside: with compaction `StateMachineSafety`, `AckedOnMajority` and `RestartRecoversLog`
are false (`RaftSnapshotContents`, and the configurations listed in section 3), and the crash
in the deletion makes `RestartRecoversLog` false. `ShortLogsStayWhole` gives a condition on
the logs alone: as long as they stay two entries below `SNAPSHOT_THRESHOLD`, the proviso
holds. `RaftTerms`, `RaftCrash` and `RaftPair` are instances in which it holds throughout.

The argument has three layers, one module each, on top of `ElectionInv`.
*Logs* (`LogsInv`): there is a history `H` that gives each term the longest log its leader
has had; `H` is rooted (what precedes an entry of term T is what the leader of T had there),
every log is a piece of it, and so is every AppendEntries under way. `H` is not a variable:
the invariant says that some such history exists, and each step says how it grows. Every
action is one of three kinds: it keeps the logs (`LogKept`), a leader appends (`Grows`), or a
follower merges a request (`Merges`), which is where `Matches` and `MergedLog` are reasoned
about.
*Acceptances* (`AcceptInv`): a second history `A` says who has had which entries of which
leader. An entry that some majority has passed by, each member in a later term and without
it, is `Lost`, and cannot be committed any more. Every other entry of an earlier term is in
the log of every later leader (`Safe`), because its voters compared logs (`VotesSafe`).
*Commitment* (`CommitInv`): a commit index is `Known`, that is backed by an entry of the
leader's own term that a majority accepted, in every node and every message; a state
machine is the log up to the commit index. Two majorities meet, so what is known to be
committed is not lost, and every later leader has it (`LaterHave`). The refinement maps
`chosen` to the abstract log. TLC checked the conjuncts first, with `H` and `A` as variables.

**The group of one (`SimpleRaftSafetyProofs`): `SoleReadsLinearizable`, `SoleSnapshotLabels`,
`SoleRecovers`, `SoleStatesAgree`, `SoleTypesCorrect`**, with compaction and every crash window,
under `SoleGroup`: no server has a peer (`RaftSole` is an instance). The single-node branches
of the code commit on append, answer reads at once, and meet no snapshot from others, so
here the properties that fail in larger groups hold. The invariant `SoleInv` says that the
log is `Whole`: the snapshot's index and the log after it make up the committed log, the
database has exactly the keys of that log above the index (below it a crash may leave keys
that `load_state` passes over), the label has the term of its entry, a leader has committed
all it has, and no read waits. `SoleStates` adds that the state machine and the snapshot are
the committed commands up to their index, for which `"create"` must not be among the crash
windows: between the two writes of `create_snapshot` the database has the new label and the
old data, and a restart loses the commands between them.

**`CrossShardRenameProofs`: `NoFileLost`, `CommittedRenamesMoved`, `UnackedRecordsKept`,
`RenameTypes`**, for every set of renames and paths, any number of failures and inquiries. The
first two under `NoCollision`: renames to one path are renames of one file. `RenameDataLoss`
shows that the proviso cannot be dropped. The invariant `RenameInv` rests on two ideas.
`Arrived(t)`, some file is at the destination of `t`, is stable. And whatever can lead to
deleting the source or to a record that says Committed - a handler at `delete`, a commit
handler at `update`, a queued command of a task, a proposal in limbo, a record - exists only
when `Arrived(t)` holds. A command is a `GoodCommand` if it may be applied at any later time;
one lemma shows that `apply_command` keeps the shards right for good commands (`ApplyFiles`,
`ApplyRecords`), one that a proposal does, whether it succeeds, fails or comes late
(`ProposeKeeps`), and one lemma per action that what it proposes, sends or queues is good.
`NoCollision` comes in only at the end: the file that has arrived is the rename's own
(`ArrivedIsOwn`).
`UnackedRecordsKept` is the GC guard, an action property. `run_transaction_cleanup` decides
from a copy of the record, and the deletion it proposes may come much later, so the guard is
right only if the record cannot leave the state that was read. `GuardOK` says why: of an old
transaction the commands queued by a task or in limbo (`Coming`) lead the record along the
way it is on, to Aborted or to Committed and acknowledged, and never across; a deletion is
among them only when the record is at the end of its way. Each action is shown to be a
`GuardStep`, and `GuardKeeps` that such a step keeps the guard and deletes no unacknowledged
commit. It rests on the model's clock: a transaction is an hour old only once its handlers,
RPCs and late proposals have come to rest (`Age`). TLC checked `RenameInv` and `GuardInv` first,
with one rename and two failures, and with two that collide.

**`BlockStoreProofs`: `ReadsAreRight`, `AcknowledgedIsStored`, `TypeCorrect`**, for every finite set of chunkservers, every rack map, policy and depth, and
every scenario, so for any number of elections anywhere, crashes, damaged files, lost heartbeats, repairs, copies,
tier moves and restarts. No conjunct is local to a server, since commands are decided by the
master, wait there, travel in a heartbeat's answer and are carried out later, perhaps on
another server. The invariant `StoreInv` follows that path: a command that waits, a task that
runs and a write that is under way is `Harmless`, it writes to no listed server, or it writes
what the client wrote there (`JobOK`). It holds because the list of locations, once
allocated, never changes (the healer does not enter its copies in it), and because before
the allocation there is nothing at all (`NothingYet`). Then the checksums and the cache of a
listed server know nothing but what the client wrote (`CopiesOK`), and a read is right
because it was verified against them. `AckInv` adds the writes the client waits for: each has
left its checksums on the servers of the chain that it has passed (`WritesOK`), no server is
waited for twice (`OncePerServer`), and the copies counted so far are on different servers
(`CountOK`). A server `Holds` the block when its `.meta` file has these checksums or was
emptied by a recovery that had them to write. That it stays so is a lemma about every step
(`HeldStays`): a step leaves the checksums of a listed server alone, empties the file, writes
them again, or moves them to the cold directory (`MetaStep`), and `CopiesOK` excludes other
contents. Assumptions: `ServersAssumption`, `DepthAssumption` and `PolicyAssumption`, which
says that the numbers of shards and replicas are positive and `Shards` names every shard. TLC
checked both invariants first, on the instance of the run.

**`ConfigServerProofs`: `RangesOwned`, `KeySpaceKept`, `ConfigTypes`**, for any ids, addresses
and keys, under `KeysAssumption` (the order of "/m", "z-<id>" and the last key) and
`KeysSubset`. The invariant `ConfigInv` says that the map is typed, every range has a known
owner, and no shard has two ranges. The last part is what makes it inductive: `merge_shards`
and `remove_shard` take away one range of the victim (the first it finds), which is all of
them only because there is one. One lemma per map operation (`AddShardOK`, `RemoveShardOK`,
`SplitShardOK`, `MergeShardsOK`, `RebalanceBoundaryOK`), each from two facts about inserting
and removing a key.

**`ShardingProofs`: `ConfigServerImplemented`, `RangesOwnedByAll`, `KeySpaceKeptByAll`,
`SameRoutes`, `OneHolderOnly`, `SteadyRequestsAnswered`, `TypeCorrect`**,
for any ids, finite set of masters, paths, prefixes, retries and scenarios, so for any number
of splits, merges, restarts, lost calls and late answers. Assumptions: those of
`ConfigServer`; `AddressesAssumption` (addresses are ids, split ids are fresh),
`PathsAssumption` (paths lie below the last key, prefixes are keys) and `ClientAssumption`
(some master is configured).
*Made-up maps.* `Rebuild` is a recursive function over sets of ids, so that it is defined at
all needs a proof (`MakesExists`). Both this and what it computes go by induction over a finite
set with the property given as a *set* (`FiniteInduction`, `IdInduction`), which the provers
can instantiate where they cannot instantiate the operator of the library's theorems.
`RebuildFacts`: the map is `Proper`, every shard has a range, the end of the key space is
covered, and ends are of the three kinds `add_shard` makes, which is why a new end "z-<id>"
never overwrites another. `SameRanges`: the ranges depend on the ids alone.
*The composed system.* `ShardInv` says that the config server's map is well formed with
finitely many shards, and that every map of a master or the client is one `Rebuild` makes
(`MadeUp`). Two more parts are what `ImplementsConfigServer` needs. A merge under way names
another shard than the one that asks (`NeighborFacts`: the ranges of the stale map are one per
shard). And the peers of a split that waits for Raft, or is left there by a caller that gave
up or restarted, are masters the config server knows (`PeersChosen`): they were when they were
chosen, and masters are only ever added (`MastersGrow`), so the command may be applied at any
later time (`SplitAllowed`, `ApplyLateOK`). One lemma per action.
*While the maps rest.* `SteadyInv`: every master holds the settled map, merges have not
reached the config server (one that does changes its map, `MergeChanges`), files are at their
owners, what the client was told exists is there, and without lost calls the second attempt of
a request begins at the owner. `OneHolderOnly` and, for a client that may try twice,
`SteadyRequestsAnswered` follow: its hypothesis `MaxRetries > 1` is needed, a single attempt
of a client with a stale map ends at a redirect (`MAX_RETRIES` is 5; `with_retry_config` may
set 1). TLC checked both invariants first, on the instance of the `Sharding` run.

**Only model-checked.** Liveness (`WritesAnswered`, `ParticipantResolves`, `Healed`,
`ReadsAnswered`, `ReadSurvives`, `FencingConverges`, `RequestEnds`, `MapsConverge`): this prover
has neither fairness nor `ENABLED`. `SnapshotLabels` is proved for a group of one and only
checked, in `RaftSnapshots`, for a larger one; `LinearizableReads` is false of a larger one
(`RaftReadIndex`).

## 5. Not modelled, and the plan

`PROJECT.json` has a status for every component. What is left, in the order of its worth:

1. Proofs: the log and commit layers of `SimpleRaft` with compaction in groups of several.
2. Membership (AddServer and the legacy RemoveServer). Joint consensus and leader transfer are
   written but called by nobody.
3. `complete_file`, the same-shard rename and `scan_ec_conversion`; a
   chunkserver's own refresh of the shard map.
4. The S3 gateway's sequences of client calls (overwrite, multipart), and algorithms against
   references: policy evaluation (a deny wins), the linearizability checker.

Out of reach or without state of their own: Reed-Solomon and other cryptographic or coding
arithmetic, TLS, the io_uring pool, request parsing, XML, metrics, the command line.

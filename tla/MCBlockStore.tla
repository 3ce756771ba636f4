---------------------------- MODULE MCBlockStore ----------------------------
(***************************************************************************)
(* Chunkservers in two racks, two replicas or one data and one parity       *)
(* shard.  Every behaviour follows one scenario: which faults and           *)
(* operations happen, and how often at most.                                *)
(***************************************************************************)
EXTENDS BlockStore

CONSTANTS s1, s2, s3

MCRack == [s \in Servers |-> IF s = s3 THEN "r2" ELSE "r1"]
MCShards == <<"shard1", "shard2">>

Quiescent == [absent |-> {}, start |-> 0, create |-> 1, ownAddr |-> 1, ec |-> 0, reads |-> 0,
              ranges |-> 0, deletes |-> 0, lost |-> 0, io |-> 0, rot |-> 0, crash |-> 0, scrubs |-> 0,
              cold |-> 0, terms |-> 0, others |-> 0, restarts |-> 0, registers |-> 0, manual |-> 0,
              balances |-> 0, shuffles |-> 0]

Stored == [Quiescent EXCEPT !.create = 0]

(* Three servers: writes, copies, rebuilt shards, the master's commands. *)
MCThree == {
    [Quiescent EXCEPT !.manual = 1, !.deletes = 1],
    [Stored EXCEPT !.crash = 1, !.lost = 1],                    \* commands get lost
    [Quiescent EXCEPT !.terms = 1, !.io = 1],                   \* a write of an older term
    [Stored EXCEPT !.ec = 1, !.crash = 1],                      \* shards are rebuilt
    [Quiescent EXCEPT !.ownAddr = 0, !.scrubs = 1],             \* a scrub while a write goes on
    [Stored EXCEPT !.rot = 1, !.balances = 1, !.reads = 1],     \* copies of damaged files
    [Stored EXCEPT !.rot = 1, !.shuffles = 1]}                  \* a shuffle of a damaged file

(* Two servers, both listed: reads and recoveries under several faults, terms. *)
MCPair == {
    [Quiescent EXCEPT !.start = 1],                             \* a new master, in safe mode
    [Stored EXCEPT !.restarts = 1, !.registers = 1],
    [Quiescent EXCEPT !.restarts = 1],                          \* its reported term falls back
    [Quiescent EXCEPT !.crash = 1],                             \* a write is cut short
    [Quiescent EXCEPT !.ec = 1, !.crash = 1],                   \* so is that of a shard
    [Stored EXCEPT !.terms = 2, !.others = 2],                  \* terms overtake each other
    [Quiescent EXCEPT !.terms = 1, !.others = 1, !.io = 1],
    [Stored EXCEPT !.rot = 2, !.reads = 1, !.lost = 1],         \* two damaged copies
    [Stored EXCEPT !.crash = 2, !.reads = 1],                   \* no copy that stays
    [Stored EXCEPT !.rot = 1, !.io = 1, !.crash = 1, !.reads = 1],    \* a recovery cut short
    [Quiescent EXCEPT !.ownAddr = 0, !.rot = 1, !.reads = 1],   \* recovery without an own address
    [Stored EXCEPT !.ec = 1, !.rot = 2, !.reads = 1],           \* peers hold other shards
    [Stored EXCEPT !.rot = 1, !.ranges = 1, !.scrubs = 1],
    [Stored EXCEPT !.rot = 1, !.cold = 1, !.reads = 1]}         \* a read while the block moves

MCScenarios == MCThree \cup {[b EXCEPT !.absent = {s2}] : b \in MCPair}

(* One question each: a master restarts; another shard holds its elections. *)
MCRestart == {[Stored EXCEPT !.restarts = 1]}
MCOtherShard == {[Quiescent EXCEPT !.others = 1]}
=============================================================================

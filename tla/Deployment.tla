---- MODULE Deployment ----
(* How a cluster is set up: what its masters and chunkservers share. *)
EXTENDS Sequences, FiniteSets

CONSTANTS
    Servers,        \* addresses of the chunkservers
    Nobody,         \* the empty address of an unavailable shard source
    Rack,           \* rack_id of every chunkserver
    ColdDir,        \* the chunkservers started with --cold-storage-dir
    Shards          \* names of the shard contents of the block, by shard index

ASSUME ServersAssumption == IsFiniteSet(Servers)
ASSUME NobodyAssumption == Nobody \notin Servers
ASSUME ColdDirAssumption == ColdDir \subseteq Servers

(* The content of a file: nothing, the whole block, a file that was opened  *)
(* and not filled yet, a .meta file that lost its checksums, bytes that      *)
(* nobody wrote; and the answer to a read that failed.                       *)
None == "none"
Whole == "whole"
Torn == "torn"
Emptied == "emptied"
Rotten == "rotten"
Err == "err"

(* Shards hold something else than any of these. *)
ASSUME ShardsAssumption ==
    \A i \in DOMAIN Shards : Shards[i] \notin {None, Whole, Torn, Emptied, Rotten, Err}
====

---------------------------- MODULE ConfigServer ----------------------------
(***************************************************************************)
(* The config server: the shard map and the registered masters, replicated  *)
(* by Raft.  An RPC proposes one command; its step is the application of    *)
(* the committed command.  The answer says that it was committed, not that  *)
(* the map accepted it.  A heartbeat only renews the time by which masters  *)
(* are chosen for a new shard: any order of them may be the latest one.     *)
(***************************************************************************)
EXTENDS ShardMap

CONSTANTS
    Addrs,      \* addresses of masters
    Keys        \* keys at which ranges are split or moved

ASSUME KeysSubset == Keys \subseteq Nat

VARIABLES
    cmap,       \* ConfigStateInner.shard_map
    masters     \* ConfigStateInner.masters: the addresses

configVars == <<cmap, masters>>

ConfigTypeOK ==
    /\ cmap = [ranges |-> cmap.ranges, peers |-> cmap.peers]
    /\ cmap.ranges \in [DOMAIN cmap.ranges -> Ids] /\ DOMAIN cmap.ranges \subseteq Nat
    /\ cmap.peers \in [DOMAIN cmap.peers -> Seq(Addrs)] /\ DOMAIN cmap.peers \subseteq Ids
    /\ masters \subseteq Addrs

ConfigInit == cmap = EmptyMap /\ masters = {}

(* An unknown shard is added with the master as its only peer. *)
RegisterMaster(a, id) ==
    LET ps == IF id \in DOMAIN cmap.peers THEN cmap.peers[id] ELSE <<>>
    IN  /\ cmap' = IF \E i \in DOMAIN ps : ps[i] = a THEN cmap ELSE AddShard(cmap, id, Append(ps, a))
        /\ masters' = masters \cup {a}

(* What a split command may name: at least one and up to three masters. *)
Chosen(ms) ==
    {q \in UNION {[1..n -> ms] : n \in 1..3} : \A i, j \in DOMAIN q : q[i] = q[j] => i = j}

(* split_shard chooses the three masters heard from last, or all there are. *)
Allocations(ms) ==
    {q \in Chosen(ms) : Len(q) = 3 \/ \A a \in ms : \E i \in DOMAIN q : q[i] = a}

ProposeSplit(key, id, ps) ==
    cmap' = SplitShard(cmap, key, id, ps) /\ UNCHANGED masters

ProposeMerge(victim, retained) ==
    cmap' = MergeShards(cmap, victim, retained) /\ UNCHANGED masters

ProposeAdd(id, ps) ==
    cmap' = AddShard(cmap, id, ps) /\ UNCHANGED masters

ProposeRemove(id) ==
    cmap' = RemoveShard(cmap, id) /\ UNCHANGED masters

ProposeRebalance(old, new) ==
    cmap' = RebalanceBoundary(cmap, old, new) /\ UNCHANGED masters

(* What masters ask for.  A split names masters that had registered when    *)
(* split_shard chose them: more may have by the time Raft applies it.  A    *)
(* master merges a neighbour, never itself.                                 *)
MasterStep ==
    \/ \E a \in Addrs, id \in Ids : RegisterMaster(a, id)
    \/ \E key \in Keys, id \in Ids : \E ps \in Chosen(masters) : ProposeSplit(key, id, ps)
    \/ \E victim, retained \in Ids : victim # retained /\ ProposeMerge(victim, retained)

(* The RPCs that no program of the repository calls. *)
OperatorStep ==
    \/ \E id \in Ids : ProposeRemove(id) \/ \E ps \in Allocations(Addrs) : ProposeAdd(id, ps)
    \/ \E old, new \in Keys : ProposeRebalance(old, new)

ConfigNext == MasterStep \/ OperatorStep

ConfigSpec == ConfigInit /\ [][ConfigNext]_configVars

-----------------------------------------------------------------------------
(* Every range of the config server's map belongs to a shard of the map     *)
(* that still has its peers, and no shard has two ranges, whatever          *)
(* registrations, splits, merges, removals and boundary shifts happen, also *)
(* those the map refuses (add_shard, split_shard, merge_shards).            *)
RangesBelongToShards ==
    /\ \A k \in DOMAIN cmap.ranges : cmap.ranges[k] \in DOMAIN cmap.peers
    /\ \A j, k \in DOMAIN cmap.ranges : cmap.ranges[j] = cmap.ranges[k] => j = k

WholeKeySpace(m) == Top \in DOMAIN m.ranges

(* Once some shard covers the end of the key space, so that every path has  *)
(* an owner, no registration, split or merge takes that away, whatever      *)
(* range the victim of a merge had and whoever its neighbours are: only an  *)
(* operator's remove_shard or rebalance_shard can (merge_shards).           *)
WholeKeySpaceKept ==
    [][MasterStep /\ WholeKeySpace(cmap) => WholeKeySpace(cmap')]_configVars
=============================================================================

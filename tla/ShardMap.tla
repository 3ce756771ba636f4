------------------------------ MODULE ShardMap ------------------------------
(***************************************************************************)
(* dfs_common::sharding::ShardMap with the Range strategy.  Keys (paths,    *)
(* prefixes and ends of ranges) are naturals in the order of the strings,   *)
(* and so are shard ids.  A range is named by its end, which it includes.   *)
(* The set of shards is the domain of `peers`: both change together.        *)
(***************************************************************************)
EXTENDS Naturals, Sequences

CONSTANTS
    Ids,        \* shard ids
    Mid,        \* "/m", where the second shard splits the first one
    ZBase,      \* "z-", above every path
    Top         \* "\u{10FFFF}", the end of the last range

ASSUME KeysAssumption ==
    /\ Ids \subseteq Nat /\ Mid \in Nat /\ ZBase \in Nat /\ Top \in Nat
    /\ Mid < ZBase /\ \A id \in Ids : ZBase + id < Top

NoShard == Top          \* get_shard answers None

EmptyMap == [ranges |-> <<>>, peers |-> <<>>]       \* ShardMap::new_range

(* HashMap::insert and HashMap::remove *)
Put(f, k, v) == [x \in DOMAIN f \cup {k} |-> IF x = k THEN v ELSE f[x]]
Without(f, S) == [x \in DOMAIN f \ S |-> f[x]]

Least(S) == CHOOSE x \in S : \A y \in S : x <= y
Greatest(S) == CHOOSE x \in S : \A y \in S : y <= x

EndsOf(m, id) == {k \in DOMAIN m.ranges : m.ranges[k] = id}

(* The first shard covers everything, the second takes the keys up to "/m"  *)
(* from it, later ones end at "z-<id>".                                     *)
AddShard(m, id, ps) ==
    [ranges |->
        IF id \in DOMAIN m.peers THEN m.ranges
        ELSE IF DOMAIN m.ranges = {} THEN Put(<<>>, Top, id)
        ELSE IF \E k \in DOMAIN m.ranges : DOMAIN m.ranges = {k}
        THEN LET old == m.ranges[CHOOSE k \in DOMAIN m.ranges : TRUE]
             IN  Put(Put(<<>>, Mid, id), Top, old)
        ELSE Put(m.ranges, ZBase + id, id),
     peers |-> Put(m.peers, id, ps)]

RemoveShard(m, id) ==
    IF id \in DOMAIN m.peers
    THEN [ranges |-> Without(m.ranges, EndsOf(m, id)), peers |-> Without(m.peers, {id})]
    ELSE m

(* The shard of the first range that ends at or above the key. *)
GetShard(m, key) ==
    LET ends == {k \in DOMAIN m.ranges : k >= key}
    IN  IF ends = {} THEN NoShard ELSE m.ranges[Least(ends)]

(* Refused for a known id, for an existing end and above the last range.    *)
(* The new shard gets the keys below the split key.                         *)
SplitShard(m, key, id, ps) ==
    IF \/ id \in DOMAIN m.peers
       \/ key \in DOMAIN m.ranges
       \/ \A k \in DOMAIN m.ranges : k < key
    THEN m
    ELSE [ranges |-> Put(m.ranges, key, id), peers |-> Put(m.peers, id, ps)]

(* Mutant: the end of the key space is not handed over. *)
MergeShardsNoTop(m, victim, retained) ==
    IF {victim, retained} \subseteq DOMAIN m.peers /\ EndsOf(m, victim) # {}
    THEN [ranges |-> Without(m.ranges, EndsOf(m, victim)), peers |-> Without(m.peers, {victim})]
    ELSE m

(* Mutant: the range of the victim stays in the map. *)
MergeShardsKeepRange(m, victim, retained) ==
    IF {victim, retained} \subseteq DOMAIN m.peers
    THEN [m EXCEPT !.peers = Without(@, {victim})]
    ELSE m

(* The victim's range falls to the next one; the last range goes to the     *)
(* retained shard, which gives up its own.                                  *)
MergeShards(m, victim, retained) ==
    IF {victim, retained} \subseteq DOMAIN m.peers /\ EndsOf(m, victim) # {}
    THEN LET vk == Least(EndsOf(m, victim))
             rest == Without(m.ranges, {vk})
             rk == {k \in DOMAIN rest : rest[k] = retained}
             own == IF rk = {} THEN {} ELSE {Least(rk)}
         IN  [ranges |-> IF vk = Top THEN Put(Without(rest, own), Top, retained) ELSE rest,
              peers |-> Without(m.peers, {victim})]
    ELSE m

RebalanceBoundary(m, old, new) ==
    IF old \in DOMAIN m.ranges
    THEN [m EXCEPT !.ranges = Put(Without(@, {old}), new, m.ranges[old])]
    ELSE m

(* The shards of the ranges before and after the first range of a shard, as *)
(* sequences of at most one id.                                             *)
Neighbors(m, id) ==
    LET end == Least(EndsOf(m, id))
        below == {k \in DOMAIN m.ranges : k < end}
        above == {k \in DOMAIN m.ranges : k > end}
        at(S, k) == IF S = {} THEN <<>> ELSE <<m.ranges[k]>>
    IN  IF EndsOf(m, id) = {} THEN [prev |-> <<>>, next |-> <<>>]
        ELSE [prev |-> at(below, Greatest(below)), next |-> at(above, Least(above))]
=============================================================================

------------------------- MODULE ConfigServerProofs -------------------------
(***************************************************************************)
(* The shard map of the config server stays well formed: its ranges belong  *)
(* to known shards, one each, and what masters ask for never uncovers the   *)
(* end of the key space.  For any ids, addresses and keys.                  *)
(***************************************************************************)
EXTENDS ConfigServer, TLAPS

(* The ranges alone: typed, and each shard of S has at most one. *)
RangesOK(r, S) ==
    /\ r \in [DOMAIN r -> Ids] /\ DOMAIN r \subseteq Nat
    /\ \A k \in DOMAIN r : r[k] \in S
    /\ \A j, k \in DOMAIN r : r[j] = r[k] => j = k

PeersOK(p) == p \in [DOMAIN p -> Seq(Addrs)] /\ DOMAIN p \subseteq Ids

MapOK(m) ==
    /\ m = [ranges |-> m.ranges, peers |-> m.peers]
    /\ RangesOK(m.ranges, DOMAIN m.peers) /\ PeersOK(m.peers)

(* A map with these ranges and peers is well formed. *)
LEMMA MapOKIntro ==
    ASSUME NEW r, NEW p, RangesOK(r, DOMAIN p), PeersOK(p)
    PROVE  MapOK([ranges |-> r, peers |-> p])
  BY DEF MapOK

(* BTreeMap::remove takes keys away and leaves the others alone. *)
LEMMA WithoutFacts ==
    ASSUME NEW f, NEW S
    PROVE  /\ DOMAIN Without(f, S) = DOMAIN f \ S
           /\ \A x \in DOMAIN f \ S : Without(f, S)[x] = f[x]
           /\ Without(f, S) = [x \in DOMAIN Without(f, S) |-> Without(f, S)[x]]
  BY DEF Without

LEMMA EmptyDomain == DOMAIN <<>> = {}
  OBVIOUS

(* A range for a shard that has none, at any end, keeps the ranges unique. *)
LEMMA PutRange ==
    ASSUME NEW r, NEW S, NEW T, NEW k \in Nat, NEW id \in Ids,
           RangesOK(r, S), S \subseteq T, id \in T,
           \A j \in DOMAIN r : r[j] # id
    PROVE  RangesOK(Put(r, k, id), T)
  BY DEF RangesOK, Put

(* Ranges without some ends are ranges still. *)
LEMMA WithoutRange ==
    ASSUME NEW r, NEW S, NEW T, NEW K,
           RangesOK(r, S),
           \A j \in DOMAIN r \ K : r[j] \in T
    PROVE  RangesOK(Without(r, K), T)
  BY DEF RangesOK, Without

LEMMA PutPeers ==
    ASSUME NEW p, PeersOK(p), NEW id \in Ids, NEW ps \in Seq(Addrs)
    PROVE  PeersOK(Put(p, id, ps)) /\ DOMAIN Put(p, id, ps) = DOMAIN p \cup {id}
  BY DEF PeersOK, Put

LEMMA WithoutPeers ==
    ASSUME NEW p, PeersOK(p), NEW K
    PROVE  PeersOK(Without(p, K)) /\ DOMAIN Without(p, K) = DOMAIN p \ K
  BY DEF PeersOK, Without

(* The one element of a set is its least. *)
LEMMA LeastOfOne ==
    ASSUME NEW x \in Nat
    PROVE  Least({x}) = x
  BY DEF Least

(* A shard of a well-formed map has one range or none. *)
LEMMA OneEnd ==
    ASSUME NEW m, MapOK(m), NEW id, EndsOf(m, id) # {}
    PROVE  \E k \in DOMAIN m.ranges : EndsOf(m, id) = {k} /\ k \in Nat /\ m.ranges[k] = id
  BY DEF MapOK, RangesOK, EndsOf

(* register_master and add_shard keep the map well formed. *)
LEMMA AddShardOK ==
    ASSUME NEW m, MapOK(m), NEW id \in Ids, NEW ps \in Seq(Addrs)
    PROVE  MapOK(AddShard(m, id, ps))
<1> DEFINE r == m.ranges
           p == Put(m.peers, id, ps)
<1>1. PeersOK(p) /\ DOMAIN p = DOMAIN m.peers \cup {id}
  BY PutPeers DEF MapOK
<1>2. RangesOK(r, DOMAIN p)
  BY <1>1 DEF MapOK, RangesOK
<1>3. Mid \in Nat /\ Top \in Nat /\ ZBase + id \in Nat /\ Mid # Top
  BY KeysAssumption
<1>4. RangesOK(<<>>, DOMAIN p)
  BY EmptyDomain DEF RangesOK
<1>5. CASE id \in DOMAIN m.peers
  <2>1. AddShard(m, id, ps) = [ranges |-> r, peers |-> p]
    BY <1>5 DEF AddShard
  <2> QED BY <2>1, <1>1, <1>2, MapOKIntro
<1>6. CASE id \notin DOMAIN m.peers
  <2>1. \A j \in DOMAIN r : r[j] # id
    BY <1>6 DEF MapOK, RangesOK
  <2>2. CASE DOMAIN r = {}
    <3>1. AddShard(m, id, ps) = [ranges |-> Put(<<>>, Top, id), peers |-> p]
      BY <1>6, <2>2 DEF AddShard
    <3>2. RangesOK(Put(<<>>, Top, id), DOMAIN p)
      BY <1>1, <1>3, <1>4, PutRange, EmptyDomain
    <3> QED BY <3>1, <3>2, <1>1, MapOKIntro
  <2>3. CASE DOMAIN r # {} /\ \E k \in DOMAIN r : DOMAIN r = {k}
    <3> DEFINE old == r[CHOOSE k \in DOMAIN r : TRUE]
               q == Put(<<>>, Mid, id)
    <3>1. AddShard(m, id, ps) = [ranges |-> Put(q, Top, old), peers |-> p]
      BY <1>6, <2>3 DEF AddShard
    <3>2. old \in DOMAIN p /\ old \in Ids /\ old # id
      <4>1. (CHOOSE k \in DOMAIN r : TRUE) \in DOMAIN r
        BY <2>3
      <4> HIDE DEF r, p
      <4> QED BY <4>1, <1>2, <2>1 DEF RangesOK
    <3>3. RangesOK(q, DOMAIN p) /\ DOMAIN q = {Mid} /\ q[Mid] = id
      <4>1. RangesOK(q, DOMAIN p)
        BY <1>1, <1>3, <1>4, PutRange, EmptyDomain
      <4>2. DOMAIN q = {Mid} /\ q[Mid] = id
        BY EmptyDomain DEF Put
      <4> QED BY <4>1, <4>2
    <3>4. RangesOK(Put(q, Top, old), DOMAIN p)
      <4>1. \A j \in DOMAIN q : q[j] # old
        BY <3>2, <3>3
      <4> QED BY <1>3, <3>2, <3>3, <4>1, PutRange
    <3> QED BY <3>1, <3>4, <1>1, MapOKIntro
  <2>4. CASE DOMAIN r # {} /\ ~ \E k \in DOMAIN r : DOMAIN r = {k}
    <3>1. AddShard(m, id, ps) = [ranges |-> Put(r, ZBase + id, id), peers |-> p]
      BY <1>6, <2>4 DEF AddShard
    <3>2. RangesOK(Put(r, ZBase + id, id), DOMAIN p)
      BY <1>1, <1>2, <1>3, <2>1, PutRange
    <3> QED BY <3>1, <3>2, <1>1, MapOKIntro
  <2> QED BY <2>2, <2>3, <2>4
<1> QED BY <1>5, <1>6

(* remove_shard keeps the map well formed. *)
LEMMA RemoveShardOK ==
    ASSUME NEW m, MapOK(m), NEW id
    PROVE  MapOK(RemoveShard(m, id))
<1>1. CASE id \in DOMAIN m.peers
  <2> DEFINE r == Without(m.ranges, EndsOf(m, id))
             p == Without(m.peers, {id})
  <2>1. RemoveShard(m, id) = [ranges |-> r, peers |-> p]
    BY <1>1 DEF RemoveShard
  <2>2. PeersOK(p) /\ DOMAIN p = DOMAIN m.peers \ {id}
    BY WithoutPeers DEF MapOK
  <2>3. \A j \in DOMAIN m.ranges \ EndsOf(m, id) : m.ranges[j] \in DOMAIN p
    BY <2>2 DEF MapOK, RangesOK, EndsOf
  <2>4. RangesOK(r, DOMAIN p)
    BY <2>3, WithoutRange DEF MapOK
  <2> QED BY <2>1, <2>2, <2>4, MapOKIntro
<1> QED BY <1>1 DEF RemoveShard

(* split_shard keeps the map well formed, whatever it refuses. *)
LEMMA SplitShardOK ==
    ASSUME NEW m, MapOK(m), NEW key \in Nat, NEW id \in Ids, NEW ps \in Seq(Addrs)
    PROVE  MapOK(SplitShard(m, key, id, ps))
<1> DEFINE r == Put(m.ranges, key, id)
           p == Put(m.peers, id, ps)
<1>1. CASE SplitShard(m, key, id, ps) = m
  BY <1>1
<1>2. CASE SplitShard(m, key, id, ps) # m
  <2>1. SplitShard(m, key, id, ps) = [ranges |-> r, peers |-> p] /\ id \notin DOMAIN m.peers
    BY <1>2 DEF SplitShard
  <2>2. PeersOK(p) /\ DOMAIN p = DOMAIN m.peers \cup {id}
    BY PutPeers DEF MapOK
  <2>3. \A j \in DOMAIN m.ranges : m.ranges[j] # id
    BY <2>1 DEF MapOK, RangesOK
  <2>4. RangesOK(r, DOMAIN p)
    BY <2>2, <2>3, PutRange DEF MapOK
  <2> QED BY <2>1, <2>2, <2>4, MapOKIntro
<1> QED BY <1>1, <1>2

(* merge_shards keeps the map well formed: a victim with the last range     *)
(* hands it to the retained shard, whose own range goes.                    *)
LEMMA MergeShardsOK ==
    ASSUME NEW m, MapOK(m), NEW victim \in Ids, NEW retained \in Ids, victim # retained
    PROVE  /\ MapOK(MergeShards(m, victim, retained))
           /\ WholeKeySpace(m) => WholeKeySpace(MergeShards(m, victim, retained))
<1>1. CASE {victim, retained} \subseteq DOMAIN m.peers /\ EndsOf(m, victim) # {}
  <2> DEFINE p == Without(m.peers, {victim})
  <2>1. PICK vk \in DOMAIN m.ranges : EndsOf(m, victim) = {vk} /\ vk \in Nat /\ m.ranges[vk] = victim
    BY <1>1, OneEnd
  <2> DEFINE rest == Without(m.ranges, {vk})
             rk == {k \in DOMAIN rest : rest[k] = retained}
             own == IF rk = {} THEN {} ELSE {Least(rk)}
             last == Put(Without(rest, own), Top, retained)
  <2>2. MergeShards(m, victim, retained) = [ranges |-> IF vk = Top THEN last ELSE rest, peers |-> p]
    BY <1>1, <2>1, LeastOfOne DEF MergeShards
  <2>3. PeersOK(p) /\ DOMAIN p = DOMAIN m.peers \ {victim}
    BY WithoutPeers DEF MapOK
  <2>4. \A j \in DOMAIN m.ranges \ {vk} : m.ranges[j] \in DOMAIN p
    BY <2>1, <2>3 DEF MapOK, RangesOK, EndsOf
  <2>5. RangesOK(rest, DOMAIN p) /\ DOMAIN rest = DOMAIN m.ranges \ {vk}
    BY <2>4, WithoutRange, WithoutFacts DEF MapOK
  <2>6. own = rk
    <3>1. CASE rk = {}
      BY <3>1
    <3>2. CASE rk # {}
      <4>1. PICK k \in DOMAIN rest : k \in Nat /\ rk = {k}
        BY <3>2, <2>5 DEF RangesOK
      <4> QED BY <4>1, LeastOfOne
    <3> QED BY <3>1, <3>2
  <2>7. RangesOK(last, DOMAIN p) /\ Top \in DOMAIN last
    <3> DEFINE u == Without(rest, own)
    <3>1. RangesOK(u, DOMAIN p)
      <4>1. \A j \in DOMAIN rest \ own : rest[j] \in DOMAIN p
        BY <2>5 DEF RangesOK
      <4> HIDE DEF rest, own, p
      <4> QED BY <4>1, <2>5, WithoutRange
    <3>2. \A j \in DOMAIN u : u[j] # retained
      <4>1. DOMAIN u = DOMAIN rest \ own /\ \A j \in DOMAIN rest \ own : u[j] = rest[j]
        <5> HIDE DEF rest, own
        <5> QED BY WithoutFacts
      <4>2. \A j \in DOMAIN rest \ rk : rest[j] # retained
        <5> HIDE DEF rest
        <5> QED OBVIOUS
      <4> HIDE DEF rest, own, rk, u
      <4> QED BY <4>1, <4>2, <2>6
    <3>3. retained \in DOMAIN p /\ Top \in Nat
      BY <1>1, <2>3, KeysAssumption
    <3> HIDE DEF u, p
    <3>4. RangesOK(Put(u, Top, retained), DOMAIN p) /\ Top \in DOMAIN Put(u, Top, retained)
      <4>1. RangesOK(Put(u, Top, retained), DOMAIN p)
        BY <3>1, <3>2, <3>3, PutRange
      <4>2. Top \in DOMAIN Put(u, Top, retained)
        BY DEF Put
      <4> QED BY <4>1, <4>2
    <3> QED BY <3>4 DEF u
  <2> DEFINE r == IF vk = Top THEN last ELSE rest
  <2>8. RangesOK(r, DOMAIN p) /\ (Top \in DOMAIN m.ranges => Top \in DOMAIN r)
    BY <2>5, <2>7
  <2> HIDE DEF r, p
  <2>9. MapOK([ranges |-> r, peers |-> p])
    BY <2>3, <2>8, MapOKIntro
  <2> QED BY <2>2, <2>8, <2>9 DEF WholeKeySpace, r
<1> QED BY <1>1 DEF MergeShards

(* rebalance_boundary moves one end, possibly onto that of another shard. *)
LEMMA RebalanceBoundaryOK ==
    ASSUME NEW m, MapOK(m), NEW old \in Nat, NEW new \in Nat
    PROVE  MapOK(RebalanceBoundary(m, old, new))
<1>1. CASE old \in DOMAIN m.ranges
  <2> DEFINE id == m.ranges[old]
             u == Without(m.ranges, {old})
             r == Put(u, new, id)
  <2>1. RebalanceBoundary(m, old, new) = [ranges |-> r, peers |-> m.peers]
    BY <1>1 DEF RebalanceBoundary, MapOK
  <2>2. RangesOK(u, DOMAIN m.peers) /\ \A j \in DOMAIN u : u[j] # id
    <3>1. RangesOK(u, DOMAIN m.peers)
      <4>1. \A j \in DOMAIN m.ranges \ {old} : m.ranges[j] \in DOMAIN m.peers
        BY DEF MapOK, RangesOK
      <4> QED BY <4>1, WithoutRange DEF MapOK
    <3>2. \A j \in DOMAIN u : u[j] # id
      <4>1. \A j \in DOMAIN m.ranges \ {old} : m.ranges[j] # m.ranges[old]
        BY <1>1 DEF MapOK, RangesOK
      <4>2. DOMAIN u = DOMAIN m.ranges \ {old} /\ \A j \in DOMAIN u : u[j] = m.ranges[j]
        BY DEF Without
      <4> HIDE DEF u
      <4> QED BY <4>1, <4>2
    <3> QED BY <3>1, <3>2
  <2>3. id \in Ids /\ id \in DOMAIN m.peers
    BY <1>1 DEF MapOK, RangesOK
  <2>4. RangesOK(r, DOMAIN m.peers)
    BY <2>2, <2>3, PutRange
  <2> QED BY <2>1, <2>4, MapOKIntro DEF MapOK
<1> QED BY <1>1 DEF RebalanceBoundary

(* A new shard, registered or split off, leaves the end of the key space    *)
(* covered.                                                                 *)
LEMMA WholeKeySpaceGrows ==
    ASSUME NEW m, NEW id, NEW key, NEW ps, WholeKeySpace(m)
    PROVE  WholeKeySpace(AddShard(m, id, ps)) /\ WholeKeySpace(SplitShard(m, key, id, ps))
<1>1. \A f, k, v : Top \in DOMAIN f => Top \in DOMAIN Put(f, k, v)
  BY DEF Put
<1>2. \A f, v : Top \in DOMAIN Put(f, Top, v)
  BY DEF Put
<1>3. Top \in DOMAIN AddShard(m, id, ps).ranges
  BY <1>1, <1>2 DEF WholeKeySpace, AddShard
<1>4. Top \in DOMAIN SplitShard(m, key, id, ps).ranges
  BY <1>1 DEF WholeKeySpace, SplitShard
<1> QED BY <1>3, <1>4 DEF WholeKeySpace

(* The masters that a split names are addresses. *)
LEMMA ChosenType ==
    ASSUME NEW ms, ms \subseteq Addrs, NEW ps \in Chosen(ms)
    PROVE  ps \in Seq(Addrs)
<1>1. PICK n \in 1..3 : ps \in [1..n -> ms]
  BY DEF Chosen
<1>2. ps \in [1..n -> Addrs]
  BY <1>1
<1> QED BY <1>2

(* Masters that were registered when they were chosen still are later on. *)
LEMMA ChosenGrows ==
    ASSUME NEW ms, NEW ns, ms \subseteq ns, NEW ps \in Chosen(ms)
    PROVE  ps \in Chosen(ns)
<1>1. PICK n \in 1..3 : ps \in [1..n -> ms]
  BY DEF Chosen
<1>2. ps \in [1..n -> ns]
  BY <1>1
<1>3. \A i, j \in DOMAIN ps : ps[i] = ps[j] => i = j
  BY DEF Chosen
<1> QED BY <1>2, <1>3 DEF Chosen

-----------------------------------------------------------------------------
ConfigInv == MapOK(cmap) /\ masters \subseteq Addrs

LEMMA InitInv == ConfigInit => ConfigInv
<1>1. RangesOK(<<>>, DOMAIN <<>>) /\ PeersOK(<<>>)
  BY EmptyDomain DEF RangesOK, PeersOK
<1>2. MapOK(EmptyMap)
  BY <1>1, MapOKIntro DEF EmptyMap
<1> QED BY <1>2 DEF ConfigInit, ConfigInv

LEMMA RegisterMasterInv ==
    ASSUME ConfigInv, NEW a \in Addrs, NEW id \in Ids, RegisterMaster(a, id)
    PROVE  ConfigInv' /\ (WholeKeySpace(cmap) => WholeKeySpace(cmap'))
<1> DEFINE ps == IF id \in DOMAIN cmap.peers THEN cmap.peers[id] ELSE <<>>
<1>1. ps \in Seq(Addrs)
  BY DEF ConfigInv, MapOK, PeersOK
<1>2. Append(ps, a) \in Seq(Addrs)
  BY <1>1
<1>3. cmap' = cmap \/ cmap' = AddShard(cmap, id, Append(ps, a))
  BY DEF RegisterMaster
<1>4. MapOK(AddShard(cmap, id, Append(ps, a)))
  BY <1>2, AddShardOK DEF ConfigInv
<1>5. masters' \subseteq Addrs
  BY DEF RegisterMaster, ConfigInv
<1> HIDE DEF ps
<1> QED BY <1>3, <1>4, <1>5, WholeKeySpaceGrows DEF ConfigInv

LEMMA MasterStepInv ==
    ASSUME ConfigInv, MasterStep
    PROVE  ConfigInv' /\ (WholeKeySpace(cmap) => WholeKeySpace(cmap'))
<1>1. CASE \E a \in Addrs, id \in Ids : RegisterMaster(a, id)
  BY <1>1, RegisterMasterInv
<1>2. ASSUME NEW key \in Keys, NEW id \in Ids, NEW ps \in Chosen(masters), ProposeSplit(key, id, ps)
      PROVE  ConfigInv' /\ (WholeKeySpace(cmap) => WholeKeySpace(cmap'))
  <2>1. key \in Nat /\ ps \in Seq(Addrs)
    BY KeysSubset, ChosenType DEF ConfigInv
  <2> QED BY <1>2, <2>1, SplitShardOK, WholeKeySpaceGrows DEF ProposeSplit, ConfigInv
<1>3. ASSUME NEW victim \in Ids, NEW retained \in Ids, victim # retained, ProposeMerge(victim, retained)
      PROVE  ConfigInv' /\ (WholeKeySpace(cmap) => WholeKeySpace(cmap'))
  BY <1>3, MergeShardsOK DEF ProposeMerge, ConfigInv
<1> QED BY <1>1, <1>2, <1>3 DEF MasterStep

LEMMA OperatorStepInv ==
    ASSUME ConfigInv, OperatorStep
    PROVE  ConfigInv'
<1>1. ASSUME NEW id \in Ids, ProposeRemove(id)
      PROVE  ConfigInv'
  BY <1>1, RemoveShardOK DEF ProposeRemove, ConfigInv
<1>2. ASSUME NEW id \in Ids, NEW ps \in Allocations(Addrs), ProposeAdd(id, ps)
      PROVE  ConfigInv'
  <2>1. ps \in Seq(Addrs)
    BY ChosenType DEF Allocations
  <2> QED BY <1>2, <2>1, AddShardOK DEF ProposeAdd, ConfigInv
<1>3. ASSUME NEW old \in Keys, NEW new \in Keys, ProposeRebalance(old, new)
      PROVE  ConfigInv'
  BY <1>3, KeysSubset, RebalanceBoundaryOK DEF ProposeRebalance, ConfigInv
<1> QED BY <1>1, <1>2, <1>3 DEF OperatorStep

LEMMA InvMeans == ConfigInv => ConfigTypeOK /\ RangesBelongToShards
  BY DEF ConfigInv, MapOK, RangesOK, PeersOK, ConfigTypeOK, RangesBelongToShards

(* The map of the config server is well formed in every reachable state:    *)
(* typed, every range owned by a known shard, and no shard with two ranges. *)
THEOREM ConfigInvariant == ConfigSpec => []ConfigInv
<1>1. ConfigInv /\ [ConfigNext]_configVars => ConfigInv'
  <2> SUFFICES ASSUME ConfigInv, [ConfigNext]_configVars
               PROVE  ConfigInv'
    OBVIOUS
  <2>1. CASE UNCHANGED configVars
    BY <2>1 DEF configVars, ConfigInv
  <2> QED BY <2>1, MasterStepInv, OperatorStepInv DEF ConfigNext
<1> QED BY <1>1, InitInv, PTL DEF ConfigSpec

(* The config server keeps its types (ConfigStateInner). *)
THEOREM ConfigTypes == ConfigSpec => []ConfigTypeOK
  BY ConfigInvariant, InvMeans, PTL

(* Every range belongs to a shard of the map and no shard has two, after    *)
(* any registrations, splits, merges, removals and boundary shifts          *)
(* (add_shard, split_shard, merge_shards, rebalance_boundary).              *)
THEOREM RangesOwned == ConfigSpec => []RangesBelongToShards
  BY ConfigInvariant, InvMeans, PTL

(* Nothing that masters ask for leaves the end of the key space without an  *)
(* owner (register_master, split_shard, merge_shard).                       *)
THEOREM KeySpaceKept == ConfigSpec => WholeKeySpaceKept
<1>1. ConfigInv /\ [ConfigNext]_configVars
        => [MasterStep /\ WholeKeySpace(cmap) => WholeKeySpace(cmap')]_configVars
  BY MasterStepInv
<1> QED BY <1>1, ConfigInvariant, PTL DEF ConfigSpec, WholeKeySpaceKept
=============================================================================

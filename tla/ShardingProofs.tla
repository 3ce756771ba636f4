--------------------------- MODULE ShardingProofs ---------------------------
(***************************************************************************)
(* Proofs about Sharding, for any ids, addresses, paths and scenarios.       *)
(***************************************************************************)
EXTENDS Sharding, ConfigServerProofs, FiniteSetTheorems, SequenceTheorems, WellFoundedInduction

-----------------------------------------------------------------------------
(* Least and greatest elements, and induction over a finite set of ids.     *)

LEMMA LeastOf ==
    ASSUME NEW T \in SUBSET Nat, T # {}
    PROVE  Least(T) \in T /\ \A j \in T : Least(T) <= j
  <1> DEFINE R == {ss \in Nat \X Nat : ss[1] < ss[2]}
  <1>1. IsWellFoundedOn(R, Nat)
    BY NatLessThanWellFounded DEF OpToRel
  <1>2. PICK x \in T : \A y \in T : <<y, x>> \notin R
    <2> HIDE DEF R
    <2> QED BY <1>1, WFMin
  <1>3. ASSUME NEW y \in T PROVE x <= y
    <2>1. x \in Nat /\ y \in Nat /\ <<y, x>> \notin R
      BY <1>2
    <2>2. ~(y < x)
      BY <2>1
    <2> QED BY <2>1, <2>2
  <1>4. \E k \in T : \A j \in T : k <= j
    BY <1>3
  <1> QED BY <1>4 DEF Least

\* A property of the empty set that one more element keeps holds of every finite set.
LEMMA FiniteInduction ==
    ASSUME NEW D, IsFiniteSet(D), NEW P, {} \in P,
           \A S \in SUBSET D : S # {} => \E x \in S : S \ {x} \in P => S \in P
    PROVE  \A S \in SUBSET D : S \in P
  <1> SUFFICES ASSUME NEW S0 \in SUBSET D, S0 \notin P PROVE FALSE
    OBVIOUS
  <1> DEFINE T == {Cardinality(S) : S \in {U \in SUBSET D : U \notin P}}
  <1>1. \A S \in SUBSET D : IsFiniteSet(S) /\ Cardinality(S) \in Nat
    BY FS_Subset, FS_CardinalityType
  <1>2. T \in SUBSET Nat /\ T # {}
    BY <1>1
  <1>3. Least(T) \in T /\ \A j \in T : Least(T) <= j
    <2> HIDE DEF T
    <2> QED BY <1>2, LeastOf
  <1>4. PICK S \in SUBSET D : S \notin P /\ Cardinality(S) = Least(T)
    <2> DEFINE k == Least(T)
    <2>1. k \in T
      BY <1>3
    <2> HIDE DEF k
    <2>2. \E S \in {U \in SUBSET D : U \notin P} : k = Cardinality(S)
      BY <2>1
    <2> QED BY <2>2 DEF k
  <1>5. S # {}
    <2> DEFINE E == {}
    <2>1. E \in P /\ S \notin P
      BY <1>4
    <2> HIDE DEF E
    <2>2. S # E
      BY <2>1
    <2> QED BY <2>2 DEF E
  <1>6. PICK x \in S : S \ {x} \in P => S \in P
    BY <1>5
  <1>7. S \ {x} \in SUBSET D /\ S \ {x} \notin P
    BY <1>4, <1>6
  <1>8. Cardinality(S \ {x}) = Cardinality(S) - 1
    BY <1>1, FS_RemoveElement
  <1>9. Cardinality(S \ {x}) \in T
    BY <1>7
  <1> HIDE DEF T
  <1>10. Least(T) <= Cardinality(S) - 1 /\ Cardinality(S) \in Nat
    BY <1>1, <1>3, <1>8, <1>9
  <1> QED BY <1>4, <1>10

LEMMA GreatestOf ==
    ASSUME NEW D \in SUBSET Nat, IsFiniteSet(D), D # {}
    PROVE  Greatest(D) \in D /\ \A j \in D : j <= Greatest(D)
  <1> DEFINE P == {S \in SUBSET D : S = {} \/ \E x \in S : \A y \in S : y <= x}
  <1>1. ASSUME NEW S \in SUBSET D, NEW x \in S, S \ {x} \in P PROVE S \in P
    <2>1. x \in Nat
      OBVIOUS
    <2>2. CASE S \ {x} = {}
      <3>1. \A y \in S : y = x
        BY <2>2
      <3> QED BY <2>1, <3>1
    <2>3. CASE S \ {x} # {}
      <3>1. PICK z \in S \ {x} : \A y \in S \ {x} : y <= z
        BY <1>1, <2>3
      <3>2. CASE x <= z
        <4>1. \A y \in S : y <= z
          BY <3>1, <3>2
        <4> QED BY <3>1, <4>1
      <3>3. CASE ~(x <= z)
        <4>1. ASSUME NEW y \in S PROVE y <= x
          <5>1. z \in Nat /\ y \in Nat
            OBVIOUS
          <5>2. y = x \/ y <= z
            BY <3>1
          <5> QED BY <2>1, <3>3, <5>1, <5>2
        <4> QED BY <4>1
      <3> QED BY <3>2, <3>3
    <2> QED BY <2>2, <2>3
  <1>2. {} \in P
    OBVIOUS
  <1>3. D \in P
    <2> HIDE DEF P
    <2>1. \A S \in SUBSET D : S # {} => \E x \in S : S \ {x} \in P => S \in P
      BY <1>1
    <2>2. \A S \in SUBSET D : S \in P
      BY <1>2, <2>1, FiniteInduction
    <2> QED BY <2>2
  <1> QED BY <1>3 DEF Greatest

\* Induction over the subsets of a set of ids, the greatest id last.
LEMMA IdInduction ==
    ASSUME NEW D \in SUBSET Nat, IsFiniteSet(D), NEW P, {} \in P,
           \A S \in SUBSET D : (S # {} /\ S \ {Greatest(S)} \in P) => S \in P
    PROVE  \A S \in SUBSET D : S \in P
  <1>1. \A S \in SUBSET D : S # {} => Greatest(S) \in S
    BY FS_Subset, GreatestOf
  <1>2. \A S \in SUBSET D : S # {} => \E x \in S : S \ {x} \in P => S \in P
    BY <1>1
  <1> QED BY <1>2, FiniteInduction

\* The maps that Rebuild makes of the subsets of the ids.
Makes(f, peers) ==
    f = [S \in SUBSET DOMAIN peers |->
           IF S = {} THEN EmptyMap
           ELSE AddShard(f[S \ {Greatest(S)}], Greatest(S), peers[Greatest(S)])]

LEMMA GreatestKeeps ==
    ASSUME NEW S \in SUBSET Nat, IsFiniteSet(S), NEW T \in SUBSET S, Greatest(S) \in T
    PROVE  Greatest(T) = Greatest(S)
  <1>1. IsFiniteSet(T) /\ T # {} /\ S # {}
    BY FS_Subset
  <1>2. /\ Greatest(T) \in T /\ (\A j \in T : j <= Greatest(T))
        /\ Greatest(S) \in S /\ (\A j \in S : j <= Greatest(S))
    BY <1>1, GreatestOf
  <1>3. Greatest(T) <= Greatest(S) /\ Greatest(S) <= Greatest(T) /\ Greatest(T) \in Nat /\ Greatest(S) \in Nat
    BY <1>2
  <1> QED BY <1>3

\* There is such a function: AddAll is well defined.
LEMMA MakesExists ==
    ASSUME NEW peers, DOMAIN peers \in SUBSET Nat, IsFiniteSet(DOMAIN peers)
    PROVE  \E f : Makes(f, peers)
  <1> DEFINE D == DOMAIN peers
             Part(f, S) == f = [T \in SUBSET S |->
                IF T = {} THEN EmptyMap
                ELSE AddShard(f[T \ {Greatest(T)}], Greatest(T), peers[Greatest(T)])]
             P == {S \in SUBSET D : \E f : Part(f, S)}
  <1>1. {} \in P
    <2> DEFINE f == [T \in SUBSET {} |-> EmptyMap]
    <2>1. Part(f, {})
      OBVIOUS
    <2> HIDE DEF Part
    <2> QED BY <2>1
  <1>2. ASSUME NEW S \in SUBSET D, S # {}, S \ {Greatest(S)} \in P PROVE S \in P
    <2> DEFINE G == Greatest(S)
               U == S \ {G}
    <2>1. PICK f : Part(f, U)
      BY <1>2
    <2>2. S \in SUBSET Nat /\ IsFiniteSet(S)
      BY FS_Subset
    <2>3. G \in S
      BY <1>2, <2>2, GreatestOf
    <2> DEFINE h == [T \in SUBSET S |-> IF T \in SUBSET U THEN f[T] ELSE AddShard(f[T \ {G}], G, peers[G])]
    <2>4. ASSUME NEW T \in SUBSET S
          PROVE  h[T] = IF T = {} THEN EmptyMap
                        ELSE AddShard(h[T \ {Greatest(T)}], Greatest(T), peers[Greatest(T)])
      <3>1. CASE T = {}
        BY <2>1, <3>1
      <3>2. CASE T # {} /\ T \in SUBSET U
        <4>1. Greatest(T) \in T /\ T \ {Greatest(T)} \in SUBSET U /\ T \ {Greatest(T)} \in SUBSET S
          BY <2>2, <3>2, FS_Subset, GreatestOf
        <4>2. h[T] = f[T] /\ h[T \ {Greatest(T)}] = f[T \ {Greatest(T)}]
          BY <3>2, <4>1
        <4>3. f[T] = AddShard(f[T \ {Greatest(T)}], Greatest(T), peers[Greatest(T)])
          BY <2>1, <3>2
        <4> QED BY <3>2, <4>2, <4>3
      <3>3. CASE T \notin SUBSET U
        <4>1. G \in T
          BY <3>3
        <4>2. Greatest(T) = G
          BY <2>2, <4>1, GreatestKeeps
        <4>3. T \ {G} \in SUBSET U /\ T \ {G} \in SUBSET S
          OBVIOUS
        <4>4. h[T] = AddShard(f[T \ {G}], G, peers[G]) /\ h[T \ {G}] = f[T \ {G}]
          BY <3>3, <4>3
        <4> QED BY <4>1, <4>2, <4>4
      <3> QED BY <3>1, <3>2, <3>3
    <2>5. h = [T \in SUBSET S |-> h[T]]
      OBVIOUS
    <2> HIDE DEF h
    <2>6. Part(h, S)
      BY <2>4, <2>5
    <2> QED BY <2>6
  <1>3. D \in P
    <2> HIDE DEF P
    <2>1. \A S \in SUBSET D : S \in P
      BY <1>1, <1>2, IdInduction
    <2> QED BY <2>1
  <1> QED BY <1>3 DEF Makes

LEMMA RebuildMakes ==
    ASSUME NEW peers, DOMAIN peers \in SUBSET Nat, IsFiniteSet(DOMAIN peers)
    PROVE  \E f : Makes(f, peers) /\ Rebuild(peers) = f[DOMAIN peers]
  <1> DEFINE One(x, y, z) == CHOOSE new \in {AddShard(old, x, y) : old \in {z}} : TRUE
             body(g) == [S \in SUBSET DOMAIN peers |->
                           IF S = {} THEN EmptyMap ELSE One(Greatest(S), peers[Greatest(S)], g[S \ {Greatest(S)}])]
             f == CHOOSE g : g = body(g)
  <1>1. Rebuild(peers) = f[DOMAIN peers]
    BY DEF Rebuild, AddAll
  <1>2. \A x, y, z : One(x, y, z) = AddShard(z, x, y)
    OBVIOUS
  <1>3. \A g : g = body(g) <=> Makes(g, peers)
    <2> HIDE DEF One
    <2> QED BY <1>2 DEF Makes
  <1>4. PICK g : Makes(g, peers)
    BY MakesExists
  <1>5. f = body(f)
    <2>1. g = body(g)
      BY <1>3, <1>4
    <2> HIDE DEF body
    <2> QED BY <2>1
  <1> HIDE DEF f, body
  <1>6. Makes(f, peers)
    BY <1>3, <1>5
  <1> QED BY <1>1, <1>6

-----------------------------------------------------------------------------
(* What a made-up map is.                                                   *)

(* The answers of fetch_shard_map, and the maps that are made of them. *)
PeerMaps == UNION {[D -> Seq(Addrs)] : D \in {E \in SUBSET Ids : IsFiniteSet(E)}}
MadeUp == {Rebuild(p) : p \in PeerMaps}

(* A map as add_shard builds it from nothing: every shard has its range,    *)
(* the whole key space is covered, and the ends are the three kinds of      *)
(* add_shard.                                                               *)
Proper(m) ==
    /\ MapOK(m)
    /\ \A x \in DOMAIN m.peers : \E k \in DOMAIN m.ranges : m.ranges[k] = x
    /\ DOMAIN m.ranges # {} => Top \in DOMAIN m.ranges
    /\ \A k \in DOMAIN m.ranges : k = Mid \/ k = Top \/ \E x \in DOMAIN m.peers : k = ZBase + x

LEMMA PeerMapsMeans ==
    ASSUME NEW p
    PROVE  p \in PeerMaps <=> PeersOK(p) /\ IsFiniteSet(DOMAIN p)
  BY DEF PeerMaps, PeersOK

LEMMA PutFacts ==
    ASSUME NEW f, NEW k, NEW v
    PROVE  /\ DOMAIN Put(f, k, v) = DOMAIN f \cup {k}
           /\ Put(f, k, v)[k] = v
           /\ \A x \in DOMAIN f : x # k => Put(f, k, v)[x] = f[x]
  BY DEF Put

LEMMA EmptyProper == Proper(EmptyMap) /\ DOMAIN EmptyMap.peers = {} /\ DOMAIN EmptyMap.ranges = {}
  <1>1. RangesOK(<<>>, DOMAIN <<>>) /\ PeersOK(<<>>)
    BY EmptyDomain DEF RangesOK, PeersOK
  <1>2. MapOK(EmptyMap)
    BY <1>1, MapOKIntro DEF EmptyMap
  <1>3. EmptyMap.peers = <<>> /\ EmptyMap.ranges = <<>>
    BY DEF EmptyMap
  <1> QED BY <1>2, <1>3, EmptyDomain DEF Proper

\* A shard that is added to such a map gets a range and takes none away.
LEMMA AddShardProper ==
    ASSUME NEW m, Proper(m), NEW id \in Ids, id \notin DOMAIN m.peers, NEW ps \in Seq(Addrs)
    PROVE  /\ Proper(AddShard(m, id, ps))
           /\ AddShard(m, id, ps).peers = Put(m.peers, id, ps)
           /\ Top \in DOMAIN AddShard(m, id, ps).ranges
  <1> DEFINE a == AddShard(m, id, ps)
             r == m.ranges
  <1>1. MapOK(a)
    BY AddShardOK DEF Proper
  <1>2. a.peers = Put(m.peers, id, ps) /\ DOMAIN a.peers = DOMAIN m.peers \cup {id}
    BY PutFacts DEF AddShard
  <1>3. /\ \A x \in DOMAIN m.peers \cup {id} : \E k \in DOMAIN a.ranges : a.ranges[k] = x
        /\ Top \in DOMAIN a.ranges
        /\ \A k \in DOMAIN a.ranges : k = Mid \/ k = Top \/ \E x \in DOMAIN m.peers \cup {id} : k = ZBase + x
    <2>1. CASE DOMAIN r = {}
      <3>1. a.ranges = Put(<<>>, Top, id)
        BY <2>1 DEF AddShard
      <3>2. DOMAIN m.peers = {}
        BY <2>1 DEF Proper
      <3>3. DOMAIN a.ranges = {Top} /\ a.ranges[Top] = id
        BY <3>1, EmptyDomain DEF Put
      <3> HIDE DEF a
      <3> QED BY <3>2, <3>3
    <2>2. CASE DOMAIN r # {} /\ \E k \in DOMAIN r : DOMAIN r = {k}
      <3> DEFINE old == r[CHOOSE k \in DOMAIN r : TRUE]
                 q == Put(<<>>, Mid, id)
      <3>1. a.ranges = Put(q, Top, old)
        BY <2>2 DEF AddShard
      <3>2. \A x \in DOMAIN m.peers : x = old
        <4>1. PICK k \in DOMAIN r : DOMAIN r = {k}
          BY <2>2
        <4>2. (CHOOSE j \in DOMAIN r : TRUE) = k
          BY <4>1
        <4> QED BY <4>1, <4>2 DEF Proper
      <3>3. DOMAIN q = {Mid} /\ q[Mid] = id
        BY EmptyDomain DEF Put
      <3>4. Mid # Top
        BY KeysAssumption
      <3> HIDE DEF a, old, q
      <3>5. DOMAIN a.ranges = {Mid, Top} /\ a.ranges[Mid] = id /\ a.ranges[Top] = old
        BY <3>1, <3>3, <3>4 DEF Put
      <3> QED BY <3>2, <3>5
    <2>3. CASE DOMAIN r # {} /\ ~ \E k \in DOMAIN r : DOMAIN r = {k}
      <3>1. a.ranges = Put(r, ZBase + id, id)
        BY <2>3 DEF AddShard
      <3>2. ZBase + id \notin DOMAIN r
        <4>1. ASSUME NEW x \in DOMAIN m.peers, ZBase + id = ZBase + x PROVE FALSE
          <5>1. x \in Ids /\ x # id
            BY DEF Proper, MapOK, PeersOK
          <5>2. x \in Nat /\ id \in Nat /\ ZBase \in Nat
            BY <5>1, KeysAssumption
          <5> QED BY <4>1, <5>1, <5>2
        <4>2. ZBase + id # Mid /\ ZBase + id # Top
          BY KeysAssumption
        <4> QED BY <4>1, <4>2 DEF Proper
      <3>3. DOMAIN a.ranges = DOMAIN r \cup {ZBase + id} /\ a.ranges[ZBase + id] = id
            /\ \A k \in DOMAIN r : a.ranges[k] = r[k]
        BY <3>1, <3>2 DEF Put
      <3> HIDE DEF a
      <3> QED BY <2>3, <3>3 DEF Proper
    <2> QED BY <2>1, <2>2, <2>3
  <1> HIDE DEF a
  <1> QED BY <1>1, <1>2, <1>3 DEF Proper, a

LEMMA RebuildFacts ==
    ASSUME NEW p \in PeerMaps
    PROVE  Proper(Rebuild(p)) /\ Rebuild(p).peers = p
  <1> DEFINE D == DOMAIN p
  <1>1. PeersOK(p) /\ IsFiniteSet(D) /\ D \in SUBSET Ids /\ D \in SUBSET Nat
    BY PeerMapsMeans, KeysAssumption DEF PeersOK
  <1>2. PICK f : Makes(f, p) /\ Rebuild(p) = f[D]
    BY <1>1, RebuildMakes
  <1>3. \A S \in SUBSET D : f[S] = IF S = {} THEN EmptyMap
                                   ELSE AddShard(f[S \ {Greatest(S)}], Greatest(S), p[Greatest(S)])
    BY <1>2 DEF Makes
  <1> DEFINE Good(m, S) == Proper(m) /\ DOMAIN m.peers = S /\ \A x \in S : m.peers[x] = p[x]
             P == {S \in SUBSET D : Good(f[S], S)}
  <1>4. {} \in P
    BY <1>3, EmptyProper
  <1>5. ASSUME NEW S \in SUBSET D, S # {}, S \ {Greatest(S)} \in P PROVE S \in P
    <2> DEFINE g == Greatest(S)
               m == f[S \ {g}]
    <2>1. g \in S
      BY <1>1, <1>5, FS_Subset, GreatestOf
    <2>2. f[S] = AddShard(m, g, p[g])
      BY <1>3, <1>5
    <2>3. Good(m, S \ {g})
      BY <1>5
    <2>4. p[g] \in Seq(Addrs) /\ g \in Ids /\ g \notin DOMAIN m.peers
      BY <1>1, <2>1, <2>3 DEF PeersOK
    <2> HIDE DEF g, m
    <2>5. Proper(f[S]) /\ f[S].peers = Put(m.peers, g, p[g])
      BY <2>2, <2>3, <2>4, AddShardProper
    <2>6. DOMAIN f[S].peers = S /\ \A x \in S : f[S].peers[x] = p[x]
      BY <2>1, <2>3, <2>5 DEF Put
    <2> QED BY <2>5, <2>6
  <1>6. D \in P
    <2> HIDE DEF P
    <2>1. \A S \in SUBSET D : S \in P
      BY <1>1, <1>4, <1>5, IdInduction
    <2> QED BY <2>1
  <1>7. Good(Rebuild(p), D)
    BY <1>2, <1>6
  <1>8. Rebuild(p).peers = p
    <2>1. Rebuild(p).peers = [x \in D |-> Rebuild(p).peers[x]]
      BY <1>7 DEF Proper, MapOK, PeersOK
    <2>2. p = [x \in D |-> p[x]]
      BY <1>1 DEF PeersOK
    <2> QED BY <1>7, <2>1, <2>2
  <1> QED BY <1>7, <1>8

\* The ranges are made up of the ids alone.
LEMMA SameRanges ==
    ASSUME NEW p \in PeerMaps, NEW q \in PeerMaps, DOMAIN p = DOMAIN q
    PROVE  Rebuild(p).ranges = Rebuild(q).ranges
  <1> DEFINE D == DOMAIN p
  <1>1. IsFiniteSet(D) /\ D \in SUBSET Nat
    BY PeerMapsMeans, KeysAssumption DEF PeersOK
  <1>2. PICK f : Makes(f, p) /\ Rebuild(p) = f[D]
    BY <1>1, RebuildMakes
  <1>3. PICK h : Makes(h, q) /\ Rebuild(q) = h[D]
    BY <1>1, RebuildMakes
  <1> DEFINE P == {S \in SUBSET D : f[S].ranges = h[S].ranges /\ DOMAIN f[S].peers = DOMAIN h[S].peers}
  <1>4. {} \in P
    BY <1>2, <1>3 DEF Makes
  <1>5. ASSUME NEW S \in SUBSET D, S # {}, S \ {Greatest(S)} \in P PROVE S \in P
    <2> DEFINE g == Greatest(S)
               x == f[S \ {g}]
               y == h[S \ {g}]
    <2>1. f[S] = AddShard(x, g, p[g]) /\ h[S] = AddShard(y, g, q[g])
      BY <1>2, <1>3, <1>5 DEF Makes
    <2>2. x.ranges = y.ranges /\ DOMAIN x.peers = DOMAIN y.peers
      BY <1>5
    <2> HIDE DEF g, x, y
    <2>3. f[S].ranges = h[S].ranges
      BY <2>1, <2>2 DEF AddShard
    <2>4. DOMAIN f[S].peers = DOMAIN h[S].peers
      BY <2>1, <2>2 DEF AddShard, Put
    <2> QED BY <2>3, <2>4
  <1>6. D \in P
    <2> HIDE DEF P
    <2>1. \A S \in SUBSET D : S \in P
      BY <1>1, <1>4, <1>5, IdInduction
    <2> QED BY <2>1
  <1> QED BY <1>2, <1>3, <1>6

\* The owner of a key is a shard of the map; there is one when the end of the key space is covered.
LEMMA GetShardFacts ==
    ASSUME NEW m, MapOK(m), NEW key \in Nat
    PROVE  /\ GetShard(m, key) \in DOMAIN m.peers \cup {NoShard}
           /\ Top \in DOMAIN m.ranges /\ key <= Top => GetShard(m, key) \in DOMAIN m.peers
           /\ DOMAIN m.peers \subseteq Ids /\ NoShard \notin Ids
  <1> DEFINE ends == {k \in DOMAIN m.ranges : k >= key}
  <1>1. ends \in SUBSET Nat
    BY DEF MapOK, RangesOK
  <1>2. GetShard(m, key) = IF ends = {} THEN NoShard ELSE m.ranges[Least(ends)]
    BY DEF GetShard
  <1>3. CASE ends # {}
    <2>1. Least(ends) \in ends
      <3> HIDE DEF ends
      <3> QED BY <1>1, <1>3, LeastOf
    <2>2. m.ranges[Least(ends)] \in DOMAIN m.peers
      BY <2>1 DEF MapOK, RangesOK
    <2> HIDE DEF ends
    <2>3. GetShard(m, key) \in DOMAIN m.peers
      BY <1>2, <1>3, <2>2
    <2> QED BY <2>3, KeysAssumption DEF MapOK, PeersOK, NoShard
  <1>4. CASE ends = {}
    <2>1. ~(Top \in DOMAIN m.ranges /\ key <= Top)
      BY <1>4, KeysAssumption
    <2> HIDE DEF ends
    <2>2. GetShard(m, key) = NoShard
      BY <1>2, <1>4
    <2> QED BY <2>1, <2>2, KeysAssumption DEF MapOK, PeersOK, NoShard
  <1> QED BY <1>3, <1>4

\* The neighbour that a merge names is another shard of the map.
LEMMA NeighborFacts ==
    ASSUME NEW m, MapOK(m), NEW id, NEW victims,
           victims = Neighbors(m, id).prev \o Neighbors(m, id).next, victims # <<>>
    PROVE  Head(victims) \in DOMAIN m.peers /\ Head(victims) # id
  <1> DEFINE end == Least(EndsOf(m, id))
             below == {k \in DOMAIN m.ranges : k < end}
             above == {k \in DOMAIN m.ranges : k > end}
             prev == IF below = {} THEN <<>> ELSE <<m.ranges[Greatest(below)]>>
             next == IF above = {} THEN <<>> ELSE <<m.ranges[Least(above)]>>
  <1>1. EndsOf(m, id) # {}
    <2> SUFFICES ASSUME EndsOf(m, id) = {} PROVE FALSE
      OBVIOUS
    <2>1. Neighbors(m, id).prev = <<>> /\ Neighbors(m, id).next = <<>>
      BY DEF Neighbors
    <2>2. victims = <<>>
      BY <2>1
    <2> QED BY <2>2
  <1>2. PICK k \in DOMAIN m.ranges : EndsOf(m, id) = {k} /\ k \in Nat /\ m.ranges[k] = id
    BY <1>1, OneEnd
  <1>3. end = k
    BY <1>2, LeastOfOne
  <1>4. victims = prev \o next
    BY <1>1 DEF Neighbors
  <1>5. DOMAIN m.ranges \in SUBSET Nat /\ \A j \in DOMAIN m.ranges : m.ranges[j] \in DOMAIN m.peers
    BY DEF MapOK, RangesOK
  <1>6. \A j \in DOMAIN m.ranges : j # k => m.ranges[j] # id
    BY <1>2 DEF EndsOf
  <1> HIDE DEF end
  <1>7. below \in SUBSET Nat /\ above \in SUBSET Nat /\ k \notin below /\ k \notin above
        /\ below \subseteq DOMAIN m.ranges /\ above \subseteq DOMAIN m.ranges /\ IsFiniteSet(below)
    <2>1. below \in SUBSET Nat /\ above \in SUBSET Nat /\ k \notin below /\ k \notin above
          /\ \A j \in below : j <= k
      BY <1>2, <1>3, <1>5
    <2>2. IsFiniteSet(below)
      <3> HIDE DEF below
      <3> QED BY <1>2, <2>1, FS_BoundedSetOfNaturals
    <2> QED BY <2>1, <2>2
  <1> HIDE DEF below, above
  <1>8. CASE below # {}
    <2>1. Greatest(below) \in below
      BY <1>7, <1>8, GreatestOf
    <2>2. m.ranges[Greatest(below)] \in DOMAIN m.peers /\ m.ranges[Greatest(below)] # id
      BY <1>5, <1>6, <1>7, <2>1
    <2> DEFINE v == m.ranges[Greatest(below)]
    <2>3. Head(<<v>> \o <<>>) = v
      OBVIOUS
    <2>4. \A y : Head(<<v>> \o <<y>>) = v
      OBVIOUS
    <2>5. prev = <<v>> /\ (next = <<>> \/ next = <<m.ranges[Least(above)]>>)
      BY <1>8
    <2> HIDE DEF v, prev, next
    <2>6. Head(victims) = v
      BY <1>4, <2>3, <2>4, <2>5
    <2> QED BY <2>2, <2>6 DEF v
  <1>9. CASE below = {}
    <2>1. above # {}
      BY <1>4, <1>9
    <2>2. Least(above) \in above
      BY <1>7, <2>1, LeastOf
    <2>3. m.ranges[Least(above)] \in DOMAIN m.peers /\ m.ranges[Least(above)] # id
      BY <1>5, <1>6, <1>7, <2>2
    <2>4. Head(victims) = m.ranges[Least(above)]
      BY <1>4, <1>9, <2>1
    <2> QED BY <2>3, <2>4
  <1> QED BY <1>8, <1>9

-----------------------------------------------------------------------------
(* The config server's map after registrations in some order.               *)

LEMMA UpTo ==
    ASSUME NEW N \in Nat, NEW P, 0 \in P, \A n \in 1..N : n - 1 \in P => n \in P
    PROVE  \A n \in 0..N : n \in P
  <1> SUFFICES ASSUME NEW z \in 0..N, z \notin P PROVE FALSE
    OBVIOUS
  <1> DEFINE T == {n \in 0..N : n \notin P}
  <1>1. T \in SUBSET Nat /\ T # {}
    OBVIOUS
  <1>2. Least(T) \in T /\ \A j \in T : Least(T) <= j
    <2> HIDE DEF T
    <2> QED BY <1>1, LeastOf
  <1> DEFINE l == Least(T)
  <1>3. l \in 0..N /\ l \notin P /\ \A j \in 0..N : j \notin P => l <= j
    BY <1>2
  <1> HIDE DEF l, T
  <1>4. l # 0
    BY <1>3
  <1>5. l \in 1..N /\ l - 1 \in 0..N /\ ~(l <= l - 1)
    BY <1>3, <1>4
  <1> QED BY <1>3, <1>5

Registers(f, q, N) ==
    f = [n \in 0..N |-> IF n = 0 THEN EmptyMap ELSE AddShard(f[n - 1], q[n], <<q[n]>>)]

LEMMA RegisteredMakes ==
    ASSUME NEW q, Len(q) \in Nat
    PROVE  \E f : Registers(f, q, Len(q)) /\ Registered(q) = f[Len(q)]
  <1> DEFINE N == Len(q)
             P == {n \in 0..N : \E f : Registers(f, q, n)}
  <1>1. 0 \in P
    <2> DEFINE f == [n \in 0..0 |-> EmptyMap]
    <2>1. \A n \in 0..0 : f[n] = IF n = 0 THEN EmptyMap ELSE AddShard(f[n - 1], q[n], <<q[n]>>)
      OBVIOUS
    <2>2. Registers(f, q, 0)
      BY DEF Registers
    <2> QED BY <2>2
  <1>2. ASSUME NEW n \in 1..N, n - 1 \in P PROVE n \in P
    <2>1. PICK f : Registers(f, q, n - 1)
      BY <1>2
    <2> DEFINE h == [i \in 0..n |-> IF i = n THEN AddShard(f[n - 1], q[n], <<q[n]>>) ELSE f[i]]
    <2>2. ASSUME NEW i \in 0..n
          PROVE  h[i] = IF i = 0 THEN EmptyMap ELSE AddShard(h[i - 1], q[i], <<q[i]>>)
      <3>1. CASE i = n
        <4>1. n # 0 /\ n - 1 \in 0..n /\ n - 1 # n
          OBVIOUS
        <4>2. h[n] = AddShard(f[n - 1], q[n], <<q[n]>>) /\ h[n - 1] = f[n - 1]
          BY <4>1
        <4> QED BY <3>1, <4>1, <4>2
      <3>2. CASE i = 0
        <4>1. h[0] = f[0] /\ 0 \in 0..(n - 1)
          BY <3>2
        <4> QED BY <2>1, <3>2, <4>1 DEF Registers
      <3>3. CASE i # n /\ i # 0
        <4>1. i \in 0..(n - 1) /\ i - 1 \in 0..n /\ i - 1 # n
          BY <3>3
        <4>2. h[i] = f[i] /\ h[i - 1] = f[i - 1]
          BY <3>3, <4>1
        <4>3. f[i] = AddShard(f[i - 1], q[i], <<q[i]>>)
          BY <2>1, <3>3, <4>1 DEF Registers
        <4> HIDE DEF h
        <4> QED BY <3>3, <4>2, <4>3
      <3> QED BY <3>1, <3>2, <3>3
    <2>3. h = [i \in 0..n |-> h[i]]
      OBVIOUS
    <2> HIDE DEF h
    <2>4. Registers(h, q, n)
      BY <2>2, <2>3 DEF Registers
    <2> QED BY <2>4
  <1>3. N \in P
    <2> HIDE DEF P
    <2>1. \A n \in 0..N : n \in P
      BY <1>1, <1>2, UpTo
    <2> QED BY <2>1
  <1>4. PICK g : Registers(g, q, N)
    BY <1>3
  <1> DEFINE f == CHOOSE f : Registers(f, q, N)
  <1>5. Registers(f, q, N)
    BY <1>4
  <1>6. Registered(q) = f[N]
    BY DEF Registered, Registers
  <1> HIDE DEF f
  <1> QED BY <1>5, <1>6

LEMMA RegisteredFacts ==
    ASSUME NEW q \in Seq(Addrs), \A i, j \in 1..Len(q) : i # j => q[i] # q[j]
    PROVE  /\ Proper(Registered(q))
           /\ Registered(q).peers = [g \in {q[i] : i \in 1..Len(q)} |-> <<g>>]
  <1> DEFINE N == Len(q)
             At(n) == {q[i] : i \in 1..n}
  <1>1. N \in Nat /\ \A n \in 1..N : q[n] \in Addrs /\ q[n] \in Ids /\ <<q[n]>> \in Seq(Addrs)
    BY AddressesAssumption
  <1>2. PICK f : Registers(f, q, N) /\ Registered(q) = f[N]
    BY <1>1, RegisteredMakes
  <1> DEFINE Good(m, n) == Proper(m) /\ DOMAIN m.peers = At(n) /\ \A x \in At(n) : m.peers[x] = <<x>>
             P == {n \in 0..N : Good(f[n], n)}
  <1>3. 0 \in P
    <2>1. f[0] = EmptyMap /\ At(0) = {} /\ 0 \in 0..N
      BY <1>1, <1>2 DEF Registers
    <2> HIDE DEF At
    <2> QED BY <2>1, EmptyProper
  <1>4. ASSUME NEW n \in 1..N, n - 1 \in P PROVE n \in P
    <2> DEFINE m == f[n - 1]
               g == q[n]
    <2>1. n # 0 /\ n \in 0..N /\ n - 1 \in Nat
      BY <1>1
    <2>2. f[n] = AddShard(m, g, <<g>>)
      BY <1>2, <2>1 DEF Registers
    <2>3. Good(m, n - 1)
      BY <1>4
    <2>4. At(n) = At(n - 1) \cup {g} /\ g \notin At(n - 1)
      <3>1. 1..n = 1..(n - 1) \cup {n} /\ \A i \in 1..(n - 1) : i \in 1..N /\ i # n
        BY <1>1
      <3>2. \A i \in 1..(n - 1) : q[i] # q[n]
        BY <3>1
      <3> QED BY <3>1, <3>2
    <2>5. g \in Ids /\ <<g>> \in Seq(Addrs)
      BY <1>1
    <2> HIDE DEF At, m, g
    <2>6. Proper(f[n]) /\ f[n].peers = Put(m.peers, g, <<g>>)
      <3> DEFINE ps == <<g>>
      <3>1. f[n] = AddShard(m, g, ps) /\ Proper(m) /\ g \notin DOMAIN m.peers /\ g \in Ids /\ ps \in Seq(Addrs)
        BY <2>2, <2>3, <2>4, <2>5
      <3> HIDE DEF ps
      <3>2. Proper(f[n]) /\ f[n].peers = Put(m.peers, g, ps)
        BY <3>1, AddShardProper
      <3> QED BY <3>2 DEF ps
    <2>7. DOMAIN f[n].peers = At(n) /\ \A x \in At(n) : f[n].peers[x] = <<x>>
      BY <2>3, <2>4, <2>6 DEF Put
    <2> QED BY <2>1, <2>6, <2>7
  <1>5. N \in P
    <2> HIDE DEF P
    <2>1. \A n \in 0..N : n \in P
      BY <1>1, <1>3, <1>4, UpTo
    <2> QED BY <1>1, <2>1
  <1>6. Good(Registered(q), N)
    BY <1>2, <1>5
  <1>7. Registered(q).peers = [x \in DOMAIN Registered(q).peers |-> Registered(q).peers[x]]
    BY <1>6 DEF Proper, MapOK, PeersOK
  <1> HIDE DEF At
  <1>8. Registered(q).peers = [g \in At(N) |-> <<g>>]
    BY <1>6, <1>7
  <1> QED BY <1>6, <1>8 DEF At

OwnPeers(S) == [g \in S |-> <<g>>]

LEMMA RegisteredAll ==
    ASSUME NEW q \in SetToSeqs(Addrs)
    PROVE  Proper(Registered(q)) /\ Registered(q).peers = OwnPeers(Addrs)
  <1> DEFINE n == Cardinality(Addrs)
  <1>1. n \in Nat /\ IsFiniteSet(Addrs)
    BY AddressesAssumption, FS_CardinalityType
  <1>2. q \in [1..n -> Addrs] /\ \A i, j \in 1..n : i # j => q[i] # q[j]
    BY DEF SetToSeqs
  <1> HIDE DEF n
  <1>3. q \in Seq(Addrs) /\ Len(q) = n
    BY <1>1, <1>2
  <1>4. IsFiniteSet(1..n) /\ Cardinality(1..n) = n
    <2>1. IsFiniteSet(1..n) /\ Cardinality(1..n) = IF 1 > n THEN 0 ELSE n - 1 + 1
      BY <1>1, FS_Interval
    <2> QED BY <1>1, <2>1
  <1>5. {q[i] : i \in 1..n} = Addrs
    <2>1. q \in Injection(1..n, Addrs)
      BY <1>2 DEF Injection, IsInjective
    <2>2. q \in Surjection(1..n, Addrs)
      BY <1>1, <1>4, <2>1, FS_Injection DEF n
    <2> QED BY <1>2, <2>2 DEF Surjection
  <1> QED BY <1>2, <1>3, <1>5, RegisteredFacts DEF OwnPeers

LEMMA OwnPeersFacts ==
    ASSUME NEW S \in SUBSET Addrs
    PROVE  OwnPeers(S) \in PeerMaps /\ DOMAIN OwnPeers(S) = S
  <1>1. IsFiniteSet(S) /\ S \in SUBSET Ids
    BY AddressesAssumption, FS_Subset
  <1>2. OwnPeers(S) \in [S -> Seq(Addrs)]
    BY DEF OwnPeers
  <1> QED BY <1>1, <1>2 DEF PeerMaps

LEMMA EmptyMadeUp == EmptyMap \in MadeUp /\ EmptyMap = Rebuild(<<>>)
  <1>1. <<>> \in PeerMaps
    <2>1. PeersOK(<<>>)
      BY EmptyDomain DEF PeersOK
    <2>2. IsFiniteSet(DOMAIN <<>>)
      BY EmptyDomain, FS_EmptySet
    <2> QED BY <2>1, <2>2, PeerMapsMeans
  <1>2. PICK f : Makes(f, <<>>) /\ Rebuild(<<>>) = f[DOMAIN <<>>]
    BY EmptyDomain, FS_EmptySet, RebuildMakes
  <1>3. f[{}] = EmptyMap
    BY <1>2 DEF Makes
  <1> QED BY <1>1, <1>2, <1>3, EmptyDomain DEF MadeUp

\* A client that met one registered master holds a made-up map.
LEMMA RegisteredOne ==
    ASSUME NEW g \in Addrs
    PROVE  Registered(<<g>>) \in MadeUp
  <1> DEFINE p == OwnPeers({g})
             q == <<g>>
  <1>1. p \in PeerMaps /\ DOMAIN p = {g} /\ p[g] = <<g>>
    BY OwnPeersFacts DEF OwnPeers
  <1>2. g \in Nat /\ IsFiniteSet({g})
    BY AddressesAssumption, KeysAssumption, FS_Singleton
  <1>3. Len(q) = 1 /\ q[1] = g
    OBVIOUS
  <1>4. PICK f : Registers(f, q, Len(q)) /\ Registered(q) = f[Len(q)]
    <2>1. Len(q) \in Nat
      OBVIOUS
    <2> HIDE DEF q
    <2> QED BY <2>1, RegisteredMakes
  <1> HIDE DEF p, q
  <1>5. Registered(q) = AddShard(EmptyMap, g, <<g>>)
    BY <1>3, <1>4 DEF Registers
  <1>6. PICK h : Makes(h, p) /\ Rebuild(p) = h[DOMAIN p]
    BY <1>1, <1>2, RebuildMakes
  <1>7. Greatest({g}) = g
    BY <1>2, GreatestOf
  <1>8. h[{}] = EmptyMap /\ h[{g}] = AddShard(h[{}], g, <<g>>)
    <2>1. {} \in SUBSET DOMAIN p /\ {g} \in SUBSET DOMAIN p /\ {g} # {} /\ {g} \ {g} = {}
      BY <1>1
    <2> QED BY <1>1, <1>6, <1>7, <2>1 DEF Makes
  <1>9. Registered(q) = Rebuild(p)
    BY <1>1, <1>5, <1>6, <1>8
  <1> QED BY <1>1, <1>9 DEF MadeUp, q

-----------------------------------------------------------------------------
(* The invariant, one part per variable.                                    *)

Answer == [for : {"master", "refresh", "list"}, g : Nat, peers : PeerMaps]

Client == [stage : {"idle", "send", "serve", "refresh", "list"}, op : {"none", "create", "delete", "get", "list"},
           path : Nat, map : MadeUp, base : Seq(Addrs), targets : Seq(Addrs), attempt : 0..MaxRetries,
           hint : Seq(Addrs), refreshes : Nat, todo : SUBSET Ids, got : SUBSET Paths,
           res : {"none", "ok", "exists", "found", "notfound", "listed", "failed"}, lossy : BOOLEAN,
           acked : SUBSET Paths]

ConfigOK == ConfigInv /\ IsFiniteSet(DOMAIN cmap.peers)
MapsOK == map \in [Addrs -> MadeUp]
RegisteredOK == registered \subseteq Addrs
FilesOK == files \in [Addrs -> SUBSET Paths]
LoadOK == load \in [Addrs -> [seen : SUBSET PathPrefixes, hot : SUBSET PathPrefixes]]
TaskOK(t) ==
    /\ t \in Task
    /\ t.kind = "split" => t.key \in Keys
    /\ t.kind = "merge" => t.id # t.g
    /\ t.stage = "propose" => t.kind = "split"
TasksOK == \A t \in tasks : TaskOK(t)
\* The peers of a split that is in the config server's Raft, or may be, were registered when they were chosen.
PeersKnown(t, ms) == t.kind = "split" /\ t.stage \in {"propose", "late"} => t.peers \in Chosen(ms)
PeersChosen == \A t \in tasks : PeersKnown(t, masters)
UsedOK == used \subseteq Ids
AnswersOK == inflight \subseteq Answer
ClientOK(d) ==
    /\ d \in Client
    /\ d.stage \in {"send", "serve"} => d.path \in Paths
    /\ d.stage = "serve" => d.targets # <<>>

StateOK ==
    /\ ConfigOK /\ MapsOK /\ RegisteredOK /\ FilesOK /\ LoadOK
    /\ TasksOK /\ PeersChosen /\ UsedOK /\ AnswersOK /\ ClientOK(c)

ShardInv == StateOK /\ steady \in BOOLEAN

\* A part of the invariant stays true while its variable does not change.
LEMMA Frames ==
    /\ ConfigOK /\ UNCHANGED configVars => ConfigOK'
    /\ MapsOK /\ UNCHANGED map => MapsOK'
    /\ RegisteredOK /\ UNCHANGED registered => RegisteredOK'
    /\ FilesOK /\ UNCHANGED files => FilesOK'
    /\ LoadOK /\ UNCHANGED load => LoadOK'
    /\ TasksOK /\ UNCHANGED tasks => TasksOK'
    /\ PeersChosen /\ UNCHANGED tasks /\ masters \subseteq masters' => PeersChosen'
    /\ PeersChosen /\ UNCHANGED tasks /\ UNCHANGED configVars => PeersChosen'
    /\ UsedOK /\ UNCHANGED used => UsedOK'
    /\ AnswersOK /\ UNCHANGED inflight => AnswersOK'
    /\ ClientOK(c) /\ UNCHANGED c => ClientOK(c)'
  <1>1. ConfigOK /\ UNCHANGED configVars => ConfigOK'
    BY DEF ConfigOK, ConfigInv, configVars
  <1>2. TasksOK /\ UNCHANGED tasks => TasksOK'
    BY DEF TasksOK
  <1>3. ClientOK(c) /\ UNCHANGED c => ClientOK(c)'
    BY DEF ClientOK
  <1>4. PeersChosen /\ UNCHANGED tasks /\ masters \subseteq masters' => PeersChosen'
    BY ChosenGrows DEF PeersChosen, PeersKnown
  <1>5. PeersChosen /\ UNCHANGED tasks /\ UNCHANGED configVars => PeersChosen'
    BY <1>4 DEF configVars
  <1> QED BY <1>1, <1>2, <1>3, <1>4, <1>5 DEF MapsOK, RegisteredOK, FilesOK, LoadOK, UsedOK, AnswersOK

LEMMA MadeUpFacts ==
    ASSUME NEW m \in MadeUp
    PROVE  Proper(m) /\ MapOK(m) /\ m.peers \in PeerMaps /\ m = Rebuild(m.peers)
  <1>1. PICK p \in PeerMaps : m = Rebuild(p)
    BY DEF MadeUp
  <1> QED BY <1>1, RebuildFacts DEF Proper

LEMMA SettledMadeUp == Settled \in MadeUp /\ Settled.peers = OwnPeers(Addrs) /\ DOMAIN Settled.peers = Addrs
  <1>1. OwnPeers(Addrs) \in PeerMaps /\ DOMAIN OwnPeers(Addrs) = Addrs
    BY OwnPeersFacts
  <1>2. Settled = Rebuild(OwnPeers(Addrs))
    BY DEF Settled, OwnPeers
  <1> QED BY <1>1, <1>2, RebuildFacts DEF MadeUp

LEMMA CmapPeers ==
    ASSUME ConfigOK
    PROVE  cmap.peers \in PeerMaps /\ Rebuild(cmap.peers) \in MadeUp
  BY PeerMapsMeans DEF ConfigOK, ConfigInv, MapOK, MadeUp

\* The config server keeps finitely many shards.
LEMMA FinitelyMany ==
    ASSUME NEW m, IsFiniteSet(DOMAIN m.peers), NEW id, NEW ps, NEW key, NEW other
    PROVE  /\ IsFiniteSet(DOMAIN AddShard(m, id, ps).peers)
           /\ IsFiniteSet(DOMAIN RemoveShard(m, id).peers)
           /\ IsFiniteSet(DOMAIN SplitShard(m, key, id, ps).peers)
           /\ IsFiniteSet(DOMAIN MergeShards(m, id, other).peers)
           /\ IsFiniteSet(DOMAIN RebalanceBoundary(m, key, other).peers)
  <1> DEFINE D == DOMAIN m.peers
  <1>1. IsFiniteSet(D \cup {id}) /\ IsFiniteSet(D \ {id})
    BY FS_AddElement, FS_RemoveElement
  <1>2. DOMAIN Put(m.peers, id, ps) = D \cup {id} /\ DOMAIN Without(m.peers, {id}) = D \ {id}
    BY DEF Put, Without
  <1>3. AddShard(m, id, ps).peers = Put(m.peers, id, ps)
    BY DEF AddShard
  <1>4. RemoveShard(m, id) = m \/ RemoveShard(m, id).peers = Without(m.peers, {id})
    BY DEF RemoveShard
  <1>5. SplitShard(m, key, id, ps) = m \/ SplitShard(m, key, id, ps).peers = Put(m.peers, id, ps)
    BY DEF SplitShard
  <1>6. MergeShards(m, id, other) = m \/ MergeShards(m, id, other).peers = Without(m.peers, {id})
    BY DEF MergeShards
  <1>7. RebalanceBoundary(m, key, other).peers = m.peers
    BY DEF RebalanceBoundary
  <1> QED BY <1>1, <1>2, <1>3, <1>4, <1>5, <1>6, <1>7

LEMMA ConfigKept ==
    ASSUME ConfigOK, ConfigNext
    PROVE  ConfigOK'
  <1>1. ConfigInv'
    BY MasterStepInv, OperatorStepInv DEF ConfigOK, ConfigNext
  <1>2. \/ cmap' = cmap
        \/ \E id, ps : cmap' = AddShard(cmap, id, ps)
        \/ \E id : cmap' = RemoveShard(cmap, id)
        \/ \E key, id, ps : cmap' = SplitShard(cmap, key, id, ps)
        \/ \E id, other : cmap' = MergeShards(cmap, id, other)
        \/ \E old, new : cmap' = RebalanceBoundary(cmap, old, new)
    BY DEF ConfigNext, MasterStep, OperatorStep, RegisterMaster, ProposeSplit, ProposeMerge, ProposeAdd,
           ProposeRemove, ProposeRebalance
  <1>3. IsFiniteSet(DOMAIN cmap'.peers)
    BY <1>2, FinitelyMany DEF ConfigOK
  <1> QED BY <1>1, <1>3 DEF ConfigOK

\* The config server forgets no master.
LEMMA MastersGrow == ConfigNext => masters \subseteq masters'
  BY DEF ConfigNext, MasterStep, OperatorStep, RegisterMaster, ProposeSplit, ProposeMerge, ProposeAdd,
         ProposeRemove, ProposeRebalance

-----------------------------------------------------------------------------
(* The steps of masters and of the config server.                           *)

LEMMA FetchOK ==
    ASSUME StateOK, NEW g \in Addrs, Fetch(g)
    PROVE  StateOK'
  <1>1. FetchShardMap("master", g) \in Answer
    BY CmapPeers, AddressesAssumption, KeysAssumption DEF FetchShardMap, Answer, StateOK
  <1>2. AnswersOK'
    BY <1>1 DEF Fetch, AnswersOK, StateOK
  <1> QED BY <1>2, Frames DEF Fetch, StateOK

LEMMA RegisterOK ==
    ASSUME StateOK, NEW g \in Addrs, Register(g)
    PROVE  StateOK' /\ ConfigNext
  <1>1. ConfigNext
    BY AddressesAssumption DEF Register, ConfigNext, MasterStep
  <1>2. ConfigOK'
    BY <1>1, ConfigKept DEF StateOK
  <1>3. RegisteredOK'
    BY DEF Register, RegisteredOK, StateOK
  <1> QED BY <1>1, <1>2, <1>3, MastersGrow, Frames DEF Register, StateOK

LEMMA DecayOK ==
    ASSUME StateOK, NEW g \in Addrs, Decay(g)
    PROVE  StateOK'
  <1>1. LoadOK'
    BY DEF Decay, LoadOK, StateOK
  <1> QED BY <1>1, Frames DEF Decay, StateOK

\* The neighbour of a shard is another shard.
LEMMA DetectMergeOK ==
    ASSUME StateOK, NEW g \in Addrs, DetectMerge(g)
    PROVE  StateOK'
  <1> DEFINE n == Neighbors(map[g], g)
             victims == n.prev \o n.next
             t == [kind |-> "merge", g |-> g, key |-> 0, id |-> Head(victims), stage |-> "config",
                   files |-> {}, peers |-> <<>>]
  <1>1. victims # <<>> /\ tasks' = tasks \cup {t}
    BY DEF DetectMerge
  <1>2. map[g] \in MadeUp
    BY DEF StateOK, MapsOK
  <1>3. Head(victims) \in Ids /\ Head(victims) # g
    <2>1. MapOK(map[g])
      BY <1>2, MadeUpFacts
    <2>2. Head(victims) \in DOMAIN map[g].peers /\ Head(victims) # g
      BY <1>1, <2>1, NeighborFacts
    <2> HIDE DEF victims
    <2> QED BY <2>1, <2>2 DEF MapOK, PeersOK
  <1> HIDE DEF victims
  <1>4. TaskOK(t) /\ PeersKnown(t, masters)
    BY <1>3 DEF TaskOK, PeersKnown, Task
  <1> HIDE DEF t
  <1>5. TasksOK' /\ PeersChosen'
    <2>1. UNCHANGED masters
      BY DEF DetectMerge, configVars
    <2> QED BY <1>1, <1>4, <2>1 DEF TasksOK, PeersChosen, StateOK
  <1> QED BY <1>5, Frames DEF DetectMerge, StateOK

LEMMA DetectSplitOK ==
    ASSUME StateOK, NEW g \in Addrs, NEW p \in PathPrefixes, DetectSplit(g, p)
    PROVE  StateOK' /\ used' # used
  <1>1. PICK n \in Uuids :
           /\ g + n \notin used
           /\ used' = used \cup {g + n}
           /\ tasks' = tasks \cup {[kind |-> "split", g |-> g, key |-> p, id |-> g + n, stage |-> "collect",
                                    files |-> {}, peers |-> <<>>]}
    BY DEF DetectSplit
  <1> DEFINE t == [kind |-> "split", g |-> g, key |-> p, id |-> g + n, stage |-> "collect",
                   files |-> {}, peers |-> <<>>]
  <1>2. g + n \in Ids /\ p \in Keys /\ p \in Nat
    BY AddressesAssumption, PathsAssumption, KeysSubset DEF PathPrefixes
  <1>3. TaskOK(t) /\ PeersKnown(t, masters)
    BY <1>2 DEF TaskOK, PeersKnown, Task
  <1>4. TasksOK' /\ PeersChosen'
    <2> HIDE DEF t
    <2>1. tasks' = tasks \cup {t} /\ UNCHANGED masters
      BY <1>1 DEF t, DetectSplit, configVars
    <2> QED BY <1>3, <2>1 DEF TasksOK, PeersChosen, StateOK
  <1>5. UsedOK' /\ used' # used
    BY <1>1, <1>2 DEF UsedOK, StateOK
  <1>6. FilesOK'
    BY DEF DetectSplit, FilesOK, StateOK
  <1> QED BY <1>4, <1>5, <1>6, Frames DEF DetectSplit, StateOK

LEMMA TurnOK ==
    ASSUME TasksOK, PeersChosen, masters \subseteq masters',
           NEW t, NEW u, TaskOK(u), PeersKnown(u, masters), Turn(t, u)
    PROVE  TasksOK' /\ PeersChosen'
  <1>1. TasksOK'
    BY DEF TasksOK, Turn
  <1>2. \A v \in tasks' : PeersKnown(v, masters)
    BY DEF PeersChosen, Turn
  <1>3. PeersChosen'
    BY <1>2, ChosenGrows DEF PeersChosen, PeersKnown
  <1> QED BY <1>1, <1>3

LEMMA FinishOK ==
    ASSUME TasksOK, PeersChosen, masters \subseteq masters', NEW t, Finish(t)
    PROVE  TasksOK' /\ PeersChosen'
  <1>1. TasksOK'
    BY DEF TasksOK, Finish
  <1>2. PeersChosen'
    BY ChosenGrows DEF PeersChosen, PeersKnown, Finish
  <1> QED BY <1>1, <1>2

\* A command without a caller is the one that the caller had sent.
LEMMA OrphanOK ==
    ASSUME TasksOK, PeersChosen, NEW t \in tasks, NEW u \in Orphan(t)
    PROVE  TaskOK(u) /\ PeersKnown(u, masters)
  <1>1. TaskOK(t) /\ PeersKnown(t, masters)
    BY DEF TasksOK, PeersChosen
  <1>2. u = [t EXCEPT !.stage = "late"]
        /\ (t.stage \in {"late", "propose"} \/ (t.stage = "config" /\ t.kind = "merge"))
    BY DEF Orphan
  <1>3. u \in Task /\ u.stage = "late" /\ u.kind = t.kind /\ u.peers = t.peers /\ u.id = t.id /\ u.g = t.g
        /\ u.key = t.key
    BY <1>1, <1>2 DEF TaskOK, Task
  <1> QED BY <1>1, <1>2, <1>3 DEF TaskOK, PeersKnown

LEMMA CollectOK ==
    ASSUME StateOK, NEW t \in tasks, Collect(t)
    PROVE  StateOK'
  <1>1. TaskOK(t) /\ t.g \in Addrs
    BY DEF StateOK, TasksOK, TaskOK, Task
  <1> DEFINE sp == [t EXCEPT !.stage = "config", !.files = {f \in files[t.g] : PrefixOf[f] = t.key}]
             ps == IF t.g \in DOMAIN map[t.g].peers THEN map[t.g].peers[t.g] ELSE <<>>
             mp == [t EXCEPT !.stage = "push", !.files = files[t.g], !.peers = ps]
  <1>2. files[t.g] \in SUBSET Paths
    BY <1>1 DEF StateOK, FilesOK
  <1>3. ps \in Seq(Addrs)
    <2>1. map[t.g] \in MadeUp
      BY <1>1 DEF StateOK, MapsOK
    <2>2. MapOK(map[t.g])
      BY <2>1, MadeUpFacts
    <2> QED BY <2>2 DEF MapOK, PeersOK
  <1> HIDE DEF ps
  <1>4. TaskOK(sp) /\ PeersKnown(sp, masters)
    BY <1>1, <1>2 DEF TaskOK, PeersKnown, Task
  <1>5. TaskOK(mp) /\ PeersKnown(mp, masters)
    BY <1>1, <1>2, <1>3 DEF TaskOK, PeersKnown, Task
  <1>6. Turn(t, sp) \/ Turn(t, mp)
    BY DEF Collect, ps
  <1>7. TasksOK' /\ PeersChosen'
    <2> HIDE DEF sp, mp
    <2>1. UNCHANGED masters
      BY DEF Collect, configVars
    <2> QED BY <1>4, <1>5, <1>6, <2>1, TurnOK DEF StateOK
  <1> QED BY <1>7, Frames DEF Collect, StateOK

LEMMA AllocatePeersOK ==
    ASSUME StateOK, NEW t \in tasks, AllocatePeers(t)
    PROVE  StateOK'
  <1>1. TaskOK(t) /\ t.kind = "split"
    BY DEF StateOK, TasksOK, AllocatePeers
  <1>2. UNCHANGED masters
    BY DEF AllocatePeers, configVars
  <1>3. CASE Finish(t)
    <2>1. TasksOK' /\ PeersChosen'
      BY <1>2, <1>3, FinishOK DEF StateOK
    <2> QED BY <2>1, Frames DEF AllocatePeers, StateOK
  <1>4. ASSUME NEW ps \in Allocations(masters), Turn(t, [t EXCEPT !.stage = "propose", !.peers = ps])
        PROVE  StateOK'
    <2> DEFINE u == [t EXCEPT !.stage = "propose", !.peers = ps]
    <2>1. ps \in Chosen(masters)
      BY DEF Allocations
    <2>2. ps \in Seq(Addrs)
      BY <2>1, ChosenType DEF StateOK, ConfigOK, ConfigInv
    <2>3. TaskOK(u) /\ PeersKnown(u, masters)
      BY <1>1, <2>1, <2>2 DEF TaskOK, PeersKnown, Task
    <2> HIDE DEF u
    <2>4. Turn(t, u)
      BY <1>4 DEF u
    <2>5. TasksOK' /\ PeersChosen'
      BY <1>2, <2>3, <2>4, TurnOK DEF StateOK
    <2> QED BY <2>5, Frames DEF AllocatePeers, StateOK
  <1> QED BY <1>3, <1>4 DEF AllocatePeers

\* A split that the config server applies names masters that it knows.
LEMMA SplitAllowed ==
    ASSUME StateOK, NEW t \in tasks, t.kind = "split", t.stage \in {"propose", "late"},
           ProposeSplit(t.key, t.id, t.peers)
    PROVE  ConfigNext /\ ConfigOK'
  <1>1. t.key \in Keys /\ t.id \in Ids /\ t.peers \in Chosen(masters)
    BY DEF StateOK, TasksOK, TaskOK, Task, PeersChosen, PeersKnown
  <1>2. ConfigNext
    BY <1>1 DEF ConfigNext, MasterStep
  <1> QED BY <1>2, ConfigKept DEF StateOK

\* A merge that the config server applies is of two shards.
LEMMA MergeAllowed ==
    ASSUME StateOK, NEW t \in tasks, t.kind = "merge", ProposeMerge(t.id, t.g)
    PROVE  ConfigNext /\ ConfigOK'
  <1>1. t.id \in Ids /\ t.g \in Ids /\ t.id # t.g
    BY AddressesAssumption DEF StateOK, TasksOK, TaskOK, Task
  <1>2. ConfigNext
    BY <1>1 DEF ConfigNext, MasterStep
  <1> QED BY <1>2, ConfigKept DEF StateOK

LEMMA NotifySplitOK ==
    ASSUME StateOK, NEW t \in tasks, NotifySplit(t)
    PROVE  StateOK' /\ ConfigNext
  <1>1. TaskOK(t) /\ t.kind = "split" /\ t.stage = "propose"
    BY DEF StateOK, TasksOK, TaskOK, NotifySplit
  <1>2. ConfigNext /\ ConfigOK'
    BY <1>1, SplitAllowed DEF NotifySplit
  <1> DEFINE u == [t EXCEPT !.stage = "push"]
  <1>3. TaskOK(u) /\ PeersKnown(u, masters)
    BY <1>1 DEF TaskOK, PeersKnown, Task
  <1> HIDE DEF u
  <1>4. Turn(t, u)
    BY DEF NotifySplit, u
  <1>5. TasksOK' /\ PeersChosen'
    BY <1>2, <1>3, <1>4, MastersGrow, TurnOK DEF StateOK
  <1> QED BY <1>2, <1>5, Frames DEF NotifySplit, StateOK

LEMMA NotifyMergeOK ==
    ASSUME StateOK, NEW t \in tasks, NotifyMerge(t)
    PROVE  StateOK' /\ ConfigNext
  <1>1. TaskOK(t) /\ t.kind = "merge"
    BY DEF StateOK, TasksOK, NotifyMerge
  <1>2. ConfigNext /\ ConfigOK'
    BY <1>1, MergeAllowed DEF NotifyMerge
  <1> DEFINE u == [t EXCEPT !.stage = "collect"]
  <1>3. TaskOK(u) /\ PeersKnown(u, masters)
    BY <1>1 DEF TaskOK, PeersKnown, Task
  <1> HIDE DEF u
  <1>4. Turn(t, u)
    BY DEF NotifyMerge, u
  <1>5. TasksOK' /\ PeersChosen'
    BY <1>2, <1>3, <1>4, MastersGrow, TurnOK DEF StateOK
  <1> QED BY <1>2, <1>5, Frames DEF NotifyMerge, StateOK

LEMMA NotifyFailsOK ==
    ASSUME StateOK, NEW t \in tasks, NotifyFails(t)
    PROVE  StateOK'
  <1> DEFINE again == [t EXCEPT !.stage = "config", !.peers = <<>>]
  <1>1. TaskOK(again) /\ PeersKnown(again, masters)
    <2>1. TaskOK(t) /\ <<>> \in Seq(Addrs)
      BY DEF StateOK, TasksOK
    <2> QED BY <2>1 DEF TaskOK, PeersKnown, Task
  <1>2. \A u \in tasks' : u \in tasks \/ u \in Orphan(t) \/ u = again
    BY DEF NotifyFails
  <1> HIDE DEF again
  <1>3. \A u \in tasks' : TaskOK(u) /\ PeersKnown(u, masters)
    BY <1>1, <1>2, OrphanOK DEF StateOK, TasksOK, PeersChosen
  <1>4. UNCHANGED masters
    BY DEF NotifyFails, configVars
  <1>5. TasksOK' /\ PeersChosen'
    BY <1>3, <1>4 DEF TasksOK, PeersChosen
  <1> QED BY <1>5, Frames DEF NotifyFails, StateOK

\* A command that outlived its caller is still one that the config server allows.
LEMMA ApplyLateOK ==
    ASSUME StateOK, NEW t \in tasks, ApplyLate(t)
    PROVE  StateOK' /\ ConfigNext
  <1>1. t.kind \in {"split", "merge"} /\ t.stage = "late"
    BY DEF StateOK, TasksOK, TaskOK, Task, ApplyLate
  <1>2. ConfigNext /\ ConfigOK'
    <2>1. CASE t.kind = "split"
      BY <1>1, <2>1, SplitAllowed DEF ApplyLate
    <2>2. CASE t.kind = "merge"
      BY <1>1, <2>2, MergeAllowed DEF ApplyLate
    <2> QED BY <1>1, <2>1, <2>2
  <1>3. TasksOK' /\ PeersChosen'
    BY <1>2, MastersGrow, FinishOK DEF ApplyLate, StateOK
  <1> QED BY <1>2, <1>3, Frames DEF ApplyLate, StateOK

LEMMA PushOK ==
    ASSUME StateOK, NEW t \in tasks, Push(t)
    PROVE  StateOK'
  <1>1. TaskOK(t) /\ t.files \in SUBSET Paths /\ t.peers \in Seq(Addrs)
    BY DEF StateOK, TasksOK, TaskOK, Task
  <1>2. FilesOK'
    <2>1. CASE t.files # {} /\ t.peers # <<>> /\ files' = [files EXCEPT ![Head(t.peers)] = @ \cup t.files]
      BY <1>1, <2>1 DEF FilesOK, StateOK
    <2>2. CASE UNCHANGED files
      BY <2>2, Frames DEF StateOK
    <2> QED BY <2>1, <2>2 DEF Push
  <1>3. TasksOK' /\ PeersChosen'
    <2>1. UNCHANGED masters /\ t.stage = "push"
      BY DEF Push, configVars
    <2>2. CASE Finish(t)
      BY <2>1, <2>2, FinishOK DEF StateOK
    <2>3. CASE t.peers # <<>> /\ Turn(t, [t EXCEPT !.peers = Tail(@)])
      <3>1. Tail(t.peers) \in Seq(Addrs)
        BY <1>1, <2>3
      <3> DEFINE u == [t EXCEPT !.peers = Tail(@)]
      <3>2. TaskOK(u) /\ PeersKnown(u, masters)
        BY <1>1, <2>1, <3>1 DEF TaskOK, PeersKnown, Task
      <3> HIDE DEF u
      <3>3. Turn(t, u)
        BY <2>3 DEF u
      <3> QED BY <2>1, <3>2, <3>3, TurnOK DEF StateOK
    <2> QED BY <2>2, <2>3 DEF Push
  <1> QED BY <1>2, <1>3, Frames DEF Push, StateOK

LEMMA OperatorOK ==
    ASSUME StateOK, Operator
    PROVE  StateOK' /\ ConfigNext
  <1>1. ConfigNext
    BY DEF Operator, ConfigNext
  <1>2. ConfigOK'
    BY <1>1, ConfigKept DEF StateOK
  <1> QED BY <1>1, <1>2, MastersGrow, Frames DEF Operator, StateOK

-----------------------------------------------------------------------------
(* The client's steps.                                                      *)

LEMMA EndedOK ==
    ASSUME ClientOK(c), NEW res \in {"ok", "exists", "found", "notfound", "failed"},
           c.op = "create" /\ res = "ok" => c.path \in Paths
    PROVE  ClientOK(Ended(res))
  <1> DEFINE a == IF c.op = "create" /\ res = "ok" THEN c.acked \cup {c.path} ELSE c.acked
  <1>1. a \in SUBSET Paths
    BY DEF ClientOK, Client
  <1>2. Ended(res) = [c EXCEPT !.stage = "idle", !.res = res, !.base = <<>>, !.targets = <<>>, !.attempt = 0,
                               !.hint = <<>>, !.acked = a]
    BY DEF Ended
  <1> HIDE DEF a
  <1>3. MaxRetries \in Nat
    BY ClientAssumption
  <1>4. <<>> \in Seq(Addrs) /\ 0 \in 0..MaxRetries
    BY <1>3
  <1>5. Ended(res) \in Client /\ Ended(res).stage = "idle"
    BY <1>1, <1>2, <1>4 DEF ClientOK, Client
  <1> QED BY <1>5 DEF ClientOK

LEMMA UnansweredOK ==
    ASSUME ClientOK(c), c.targets # <<>>, c.stage \in {"send", "serve"}
    PROVE  ClientOK(Unanswered)
  <1>1. Tail(c.targets) \in Seq(Addrs)
    BY DEF ClientOK, Client
  <1> DEFINE q == Tail(c.targets)
  <1>2. Unanswered = [c EXCEPT !.stage = "send", !.targets = q, !.lossy = TRUE]
    BY DEF Unanswered
  <1> HIDE DEF q
  <1>3. Unanswered \in Client /\ Unanswered.stage = "send" /\ Unanswered.path = c.path
    BY <1>1, <1>2 DEF ClientOK, Client, q
  <1> QED BY <1>3 DEF ClientOK

LEMMA ClientFetchOK ==
    ASSUME StateOK, ClientFetch
    PROVE  StateOK'
  <1>1. FetchShardMap("refresh", 0) \in Answer
    BY CmapPeers DEF FetchShardMap, Answer, StateOK
  <1>2. AnswersOK'
    BY <1>1 DEF ClientFetch, AnswersOK, StateOK
  <1>3. c.refreshes - 1 \in Nat /\ c' = [c EXCEPT !.refreshes = c.refreshes - 1]
    BY DEF ClientFetch, StateOK, ClientOK, Client
  <1>4. ClientOK(c)'
    BY <1>3 DEF StateOK, ClientOK, Client
  <1> QED BY <1>2, <1>4, Frames DEF ClientFetch, StateOK

LEMMA InstallOK ==
    ASSUME StateOK, NEW r \in inflight, Install(r)
    PROVE  StateOK'
  <1>1. r \in Answer
    BY DEF StateOK, AnswersOK
  <1>2. r.peers \in PeerMaps /\ Rebuild(r.peers) \in MadeUp /\ DOMAIN r.peers \in SUBSET Ids
    BY <1>1, PeerMapsMeans DEF Answer, MadeUp, PeersOK
  <1>3. AnswersOK'
    BY DEF Install, AnswersOK, StateOK
  <1>4. CASE r.for = "master"
    <2>1. MapsOK' /\ ClientOK(c)'
      BY <1>2, <1>4, Frames DEF Install, MapsOK, StateOK
    <2> QED BY <1>3, <2>1, Frames DEF Install, StateOK
  <1>5. CASE r.for # "master"
    <2> DEFINE m == Rebuild(r.peers)
               st == IF r.for = "list" THEN "list" ELSE c.stage
               td == IF r.for = "list" THEN DOMAIN r.peers ELSE c.todo
    <2>1. c' = [c EXCEPT !.map = m, !.stage = st, !.todo = td]
      BY <1>5 DEF Install
    <2>2. m \in MadeUp /\ td \in SUBSET Ids /\ st \in {"idle", "send", "serve", "refresh", "list"}
          /\ (st \in {"send", "serve"} => st = c.stage)
      BY <1>2 DEF StateOK, ClientOK, Client
    <2> HIDE DEF m, st, td
    <2>3. ClientOK(c)'
      BY <2>1, <2>2 DEF StateOK, ClientOK, Client
    <2> QED BY <1>3, <1>5, <2>3, Frames DEF Install, StateOK
  <1> QED BY <1>4, <1>5

LEMMA AnswerLostOK ==
    ASSUME StateOK, NEW r \in inflight, AnswerLost(r)
    PROVE  StateOK'
  <1>1. AnswersOK'
    BY DEF AnswerLost, AnswersOK, StateOK
  <1>2. c.map \in MadeUp
    BY DEF StateOK, ClientOK, Client
  <1>3. DOMAIN c.map.peers \in SUBSET Ids
    BY <1>2, MadeUpFacts DEF MapOK, PeersOK
  <1>4. ClientOK([c EXCEPT !.stage = "list", !.todo = DOMAIN c.map.peers, !.lossy = TRUE])
    BY <1>3 DEF StateOK, ClientOK, Client
  <1>5. ClientOK(c)'
    BY <1>4 DEF AnswerLost, StateOK
  <1> QED BY <1>1, <1>5, Frames DEF AnswerLost, StateOK

\* There is always a master to ask.
LEMMA ResponsibleFacts ==
    ASSUME ClientOK(c), NEW p \in Paths
    PROVE  Responsible(p) \in Seq(Addrs) /\ Responsible(p) # <<>>
  <1> DEFINE s == GetShard(c.map, p)
  <1>1. c.map \in MadeUp /\ p \in Nat
    BY PathsAssumption DEF ClientOK, Client
  <1>2. MapOK(c.map)
    BY <1>1, MadeUpFacts
  <1>3. s \in DOMAIN c.map.peers \cup {NoShard}
    BY <1>1, <1>2, GetShardFacts
  <1>4. Responsible(p) = IF s # NoShard /\ c.map.peers[s] # <<>> THEN c.map.peers[s] ELSE MasterAddrs
    BY DEF Responsible
  <1> HIDE DEF s
  <1>5. s # NoShard => c.map.peers[s] \in Seq(Addrs)
    BY <1>2, <1>3 DEF MapOK, PeersOK
  <1> QED BY <1>4, <1>5, ClientAssumption

LEMMA StartOK ==
    ASSUME StateOK, NEW op \in {"create", "delete", "get"}, NEW p \in Paths, Start(op, p)
    PROVE  StateOK'
  <1> DEFINE rs == Responsible(p)
             ak == IF op = "delete" THEN c.acked \ {p} ELSE c.acked
  <1>1. rs \in Seq(Addrs) /\ p \in Nat /\ 1 \in 0..MaxRetries /\ <<>> \in Seq(Addrs)
    BY ResponsibleFacts, PathsAssumption, ClientAssumption DEF StateOK
  <1>2. ak \in SUBSET Paths
    BY DEF StateOK, ClientOK, Client
  <1>3. c' = [c EXCEPT !.stage = "send", !.op = op, !.path = p, !.base = rs, !.targets = rs,
                       !.attempt = 1, !.hint = <<>>, !.res = "none", !.lossy = FALSE, !.got = {},
                       !.acked = ak]
    BY DEF Start
  <1> HIDE DEF rs, ak
  <1>4. ClientOK(c)'
    BY <1>1, <1>2, <1>3 DEF StateOK, ClientOK, Client
  <1> QED BY <1>4, Frames DEF Start, StateOK

\* A redirect names a peer of a shard that the master knows.
LEMMA CallOK ==
    ASSUME StateOK, Call
    PROVE  StateOK'
  <1> DEFINE g == Head(c.targets)
             owner == GetShard(map[g], c.path)
  <1>1. ClientOK(c) /\ c.stage = "send" /\ c.targets # <<>> /\ c.path \in Paths /\ c.targets \in Seq(Addrs)
    BY DEF Call, StateOK, ClientOK, Client
  <1>2. g \in Addrs /\ c.path \in Nat
    BY <1>1, PathsAssumption
  <1>3. LoadOK'
    <2>1. PrefixOf[c.path] \in PathPrefixes
      BY <1>1 DEF PathPrefixes
    <2>2. load' = [load EXCEPT ![g].seen = @ \cup {PrefixOf[c.path]}]
      BY DEF Call
    <2> HIDE DEF g
    <2> QED BY <1>2, <2>1, <2>2 DEF LoadOK, StateOK
  <1>4. MapOK(map[g])
    <2>1. map[g] \in MadeUp
      BY <1>2 DEF StateOK, MapsOK
    <2> QED BY <2>1, MadeUpFacts
  <1>5. owner \in DOMAIN map[g].peers \cup {NoShard}
    BY <1>2, <1>4, GetShardFacts
  <1>6. ClientOK(c)'
    <2>1. CASE Accepts(g, c.path) /\ Refusal(g) = "none"
      <3>1. c' = [c EXCEPT !.stage = "serve"]
        BY <2>1 DEF Call
      <3> QED BY <1>1, <3>1 DEF ClientOK, Client
    <2>2. CASE Accepts(g, c.path) /\ Refusal(g) # "none"
      <3>1. c' = Ended(Refusal(g)) /\ Refusal(g) \in {"exists", "notfound"}
        BY <2>2 DEF Call, Refusal
      <3>2. ClientOK(Ended(Refusal(g)))
        BY <1>1, <3>1, EndedOK
      <3> QED BY <3>1, <3>2
    <2>3. CASE ~Accepts(g, c.path) /\ map[g].peers[owner] = <<>>
      <3>1. c' = Ended("failed")
        BY <2>3 DEF Call
      <3> QED BY <1>1, <3>1, EndedOK
    <2>4. CASE ~Accepts(g, c.path) /\ map[g].peers[owner] # <<>>
      <3> DEFINE h == <<Head(map[g].peers[owner])>>
      <3>1. c' = [c EXCEPT !.hint = h, !.targets = <<>>, !.refreshes = @ + 1]
        BY <2>4 DEF Call
      <3>2. owner \in DOMAIN map[g].peers
        BY <1>5, <2>4 DEF Accepts
      <3>3. map[g].peers[owner] \in Seq(Addrs)
        BY <1>4, <3>2 DEF MapOK, PeersOK
      <3>4. h \in Seq(Addrs) /\ <<>> \in Seq(Addrs)
        BY <2>4, <3>3
      <3> HIDE DEF h, g, owner
      <3> DEFINE n == c.refreshes + 1
      <3>5. n \in Nat /\ c' = [c EXCEPT !.hint = h, !.targets = <<>>, !.refreshes = n]
        BY <1>1, <3>1 DEF ClientOK, Client
      <3> HIDE DEF n
      <3>6. c' \in Client /\ c'.stage = "send" /\ c'.path = c.path
        BY <1>1, <3>4, <3>5 DEF ClientOK, Client
      <3> QED BY <1>1, <3>6 DEF ClientOK
    <2> QED BY <2>1, <2>2, <2>3, <2>4
  <1> QED BY <1>3, <1>6, Frames DEF Call, StateOK

LEMMA CallFailsOK ==
    ASSUME StateOK, CallFails
    PROVE  StateOK'
  <1>1. ClientOK(c)'
    BY UnansweredOK DEF CallFails, StateOK
  <1> QED BY <1>1, Frames DEF CallFails, StateOK

LEMMA ServeOK ==
    ASSUME StateOK, Serve
    PROVE  StateOK'
  <1> DEFINE g == Head(c.targets)
             res == IF c.op # "get" THEN "ok" ELSE IF c.path \in files[g] THEN "found" ELSE "notfound"
  <1>1. ClientOK(c) /\ c.stage = "serve" /\ c.targets # <<>> /\ c.path \in Paths /\ c.targets \in Seq(Addrs)
    BY DEF Serve, StateOK, ClientOK, Client
  <1>2. g \in Addrs
    BY <1>1
  <1>3. FilesOK'
    <2>1. files' = Applied(g)
      BY DEF Serve
    <2> HIDE DEF g
    <2> QED BY <1>1, <1>2, <2>1 DEF Applied, FilesOK, StateOK
  <1>4. ClientOK(c)'
    <2>1. c' = Ended(res) \/ c' = Unanswered
      BY DEF Serve
    <2>2. res \in {"ok", "found", "notfound"}
      OBVIOUS
    <2> HIDE DEF res
    <2>3. ClientOK(Ended(res)) /\ ClientOK(Unanswered)
      BY <1>1, <2>2, EndedOK, UnansweredOK
    <2> QED BY <2>1, <2>3
  <1> QED BY <1>3, <1>4, Frames DEF Serve, StateOK

LEMMA NextAttemptOK ==
    ASSUME StateOK, NextAttempt
    PROVE  StateOK'
  <1>1. ClientOK(c) /\ c.stage = "send" /\ c.path \in Paths
    BY DEF NextAttempt, StateOK, ClientOK
  <1>2. ClientOK(c)'
    <2>1. CASE c.attempt >= MaxRetries
      <3>1. c' = Ended("failed")
        BY <2>1 DEF NextAttempt
      <3> QED BY <1>1, <3>1, EndedOK
    <2>2. CASE ~(c.attempt >= MaxRetries)
      <3> DEFINE q == c.hint \o c.base
      <3>1. c' = [c EXCEPT !.attempt = @ + 1, !.targets = q, !.hint = <<>>]
        BY <2>2 DEF NextAttempt
      <3>2. q \in Seq(Addrs) /\ <<>> \in Seq(Addrs)
        BY <1>1 DEF ClientOK, Client
      <3>3. c.attempt + 1 \in 0..MaxRetries
        BY <1>1, <2>2, ClientAssumption DEF ClientOK, Client
      <3> HIDE DEF q
      <3> QED BY <1>1, <3>1, <3>2, <3>3 DEF ClientOK, Client
    <2> QED BY <2>1, <2>2
  <1> QED BY <1>2, Frames DEF NextAttempt, StateOK

LEMMA StartListOK ==
    ASSUME StateOK, StartList
    PROVE  StateOK'
  <1>1. FetchShardMap("list", 0) \in Answer
    BY CmapPeers DEF FetchShardMap, Answer, StateOK
  <1>2. AnswersOK'
    BY <1>1 DEF StartList, AnswersOK, StateOK
  <1>3. ClientOK(c)'
    BY DEF StartList, StateOK, ClientOK, Client
  <1> QED BY <1>2, <1>3, Frames DEF StartList, StateOK

LEMMA ListShardOK ==
    ASSUME StateOK, ListShard
    PROVE  StateOK'
  <1> DEFINE ps(s) == IF s \in DOMAIN c.map.peers THEN c.map.peers[s] ELSE <<>>
             more(s) == IF ps(s) = <<>> THEN {} ELSE files[Head(ps(s))]
  <1>1. PICK s \in c.todo :
           \/ c' = [c EXCEPT !.todo = @ \ {s}, !.got = @ \cup more(s)]
           \/ c' = [c EXCEPT !.todo = @ \ {s}, !.stage = "idle", !.res = "failed", !.lossy = TRUE]
    BY DEF ListShard
  <1>2. MapOK(c.map)
    <2>1. c.map \in MadeUp
      BY DEF StateOK, ClientOK, Client
    <2> QED BY <2>1, MadeUpFacts
  <1>3. ps(s) \in Seq(Addrs)
    BY <1>2 DEF MapOK, PeersOK
  <1>4. more(s) \in SUBSET Paths
    <2> HIDE DEF ps
    <2> QED BY <1>3 DEF StateOK, FilesOK
  <1> HIDE DEF more
  <1>5. c \in Client /\ c.stage = "list"
    BY DEF StateOK, ClientOK, ListShard
  <1>6. ClientOK([c EXCEPT !.todo = @ \ {s}, !.got = @ \cup more(s)])
    BY <1>4, <1>5 DEF ClientOK, Client
  <1>7. ClientOK([c EXCEPT !.todo = @ \ {s}, !.stage = "idle", !.res = "failed", !.lossy = TRUE])
    BY <1>5 DEF ClientOK, Client
  <1>8. ClientOK(c)'
    BY <1>1, <1>6, <1>7
  <1> QED BY <1>8, Frames DEF ListShard, StateOK

LEMMA EndListOK ==
    ASSUME StateOK, EndList
    PROVE  StateOK'
  <1> DEFINE gt == IF c.map = EmptyMap THEN files[Head(MasterAddrs)] ELSE c.got
  <1>1. Head(MasterAddrs) \in Addrs
    BY ClientAssumption
  <1>2. gt \in SUBSET Paths
    BY <1>1 DEF StateOK, FilesOK, ClientOK, Client
  <1>3. c' = [c EXCEPT !.stage = "idle", !.res = "listed", !.got = gt]
    BY DEF EndList
  <1> HIDE DEF gt
  <1>4. ClientOK(c)'
    BY <1>2, <1>3 DEF StateOK, ClientOK, Client
  <1> QED BY <1>4, Frames DEF EndList, StateOK

LEMMA RestartOK ==
    ASSUME StateOK, NEW g \in Addrs, Restart(g)
    PROVE  StateOK'
  <1>1. MapsOK'
    BY EmptyMadeUp DEF Restart, MapsOK, StateOK
  <1>2. LoadOK' /\ RegisteredOK'
    BY DEF Restart, LoadOK, RegisteredOK, StateOK
  <1>3. TasksOK' /\ PeersChosen'
    <2>1. UNCHANGED masters
      BY DEF Restart, configVars
    <2>2. \A u \in tasks' : u \in tasks \/ \E t \in tasks : u \in Orphan(t)
      BY DEF Restart
    <2>3. \A u \in tasks' : TaskOK(u) /\ PeersKnown(u, masters)
      BY <2>2, OrphanOK DEF StateOK, TasksOK, PeersChosen
    <2> QED BY <2>1, <2>3 DEF TasksOK, PeersChosen
  <1>4. AnswersOK'
    BY DEF Restart, AnswersOK, StateOK
  <1>5. ClientOK(c)'
    BY UnansweredOK DEF Restart, StateOK, ClientOK
  <1> QED BY <1>1, <1>2, <1>3, <1>4, <1>5, Frames DEF Restart, StateOK

-----------------------------------------------------------------------------
(* Init, and what the invariant means.                                      *)

LEMMA IdleOK ==
    ASSUME NEW m \in MadeUp, NEW a \in SUBSET Paths
    PROVE  ClientOK([Idle EXCEPT !.map = m, !.acked = a])
  <1>1. 0 \in 0..MaxRetries /\ <<>> \in Seq(Addrs)
    BY ClientAssumption
  <1> DEFINE d == [Idle EXCEPT !.map = m, !.acked = a]
  <1>2. d \in Client /\ d.stage = "idle"
    BY <1>1 DEF Idle, Client
  <1> HIDE DEF d
  <1>3. ClientOK(d)
    BY <1>2 DEF ClientOK
  <1> QED BY <1>3 DEF d

LEMMA InitOK == Init => ShardInv
  <1> SUFFICES ASSUME Init PROVE ShardInv
    OBVIOUS
  <1>1. TasksOK /\ PeersChosen /\ UsedOK /\ AnswersOK
    BY DEF Init, TasksOK, PeersChosen, UsedOK, AnswersOK
  <1>2. LoadOK
    BY DEF Init, LoadOK
  <1>3. CASE budget.start = 1
    <2> budget.start # 0
      BY <1>3
    <2>1. /\ ConfigInit /\ map = [g \in Addrs |-> EmptyMap] /\ registered = {} /\ files = [g \in Addrs |-> {}]
          /\ c = Idle /\ steady = FALSE
      BY Zenon DEF Init
    <2>2. ConfigOK
      <3>1. ConfigInv
        BY <2>1, InitInv
      <3>2. DOMAIN cmap.peers = {}
        BY <2>1, EmptyProper DEF ConfigInit
      <3> QED BY <3>1, <3>2, FS_EmptySet DEF ConfigOK
    <2>3. MapsOK /\ RegisteredOK /\ FilesOK /\ steady \in BOOLEAN
      BY <2>1, EmptyMadeUp DEF MapsOK, RegisteredOK, FilesOK
    <2>4. ClientOK(c)
      <3>1. 0 \in 0..MaxRetries /\ <<>> \in Seq(Addrs)
        BY ClientAssumption
      <3>2. Idle \in Client /\ Idle.stage = "idle"
        BY <3>1, EmptyMadeUp DEF Idle, Client
      <3> QED BY <2>1, <3>2 DEF ClientOK
    <2> QED BY <1>1, <1>2, <2>2, <2>3, <2>4 DEF ShardInv, StateOK
  <1>4. CASE budget.start = 0
    <2> budget.start # 1
      BY <1>4
    <2>1. /\ cmap \in IF budget.stale = 1 THEN {Registered(q) : q \in SetToSeqs(Addrs)} ELSE {Settled}
          /\ masters = Addrs
          /\ map = [g \in Addrs |-> Settled] /\ registered = Addrs
          /\ files = [g \in Addrs |-> {p \in Paths : GetShard(Settled, p) = g}]
          /\ \E m \in IF budget.stale = 1 THEN {EmptyMap} \cup {Registered(<<g>>) : g \in Addrs} ELSE {Settled} :
                 c = [Idle EXCEPT !.map = m, !.acked = Paths]
          /\ steady = TRUE
      BY Zenon DEF Init
    <2>2. MapOK(cmap) /\ cmap.peers = OwnPeers(Addrs)
      <3>1. cmap = Settled \/ \E q \in SetToSeqs(Addrs) : cmap = Registered(q)
        BY <2>1, Zenon
      <3> QED BY <3>1, RegisteredAll, SettledMadeUp, MadeUpFacts DEF Proper
    <2>3. ConfigOK
      <3>1. masters = Addrs /\ DOMAIN cmap.peers = Addrs
        BY <2>1, <2>2, OwnPeersFacts, Zenon
      <3> QED BY <2>2, <3>1, AddressesAssumption DEF ConfigOK, ConfigInv
    <2>4. MapsOK /\ RegisteredOK /\ FilesOK /\ steady \in BOOLEAN
      <3>1. map = [g \in Addrs |-> Settled] /\ registered = Addrs /\ steady = TRUE
            /\ files = [g \in Addrs |-> {p \in Paths : GetShard(Settled, p) = g}]
        BY <2>1, Zenon
      <3> QED BY <3>1, SettledMadeUp DEF MapsOK, RegisteredOK, FilesOK
    <2>5. ClientOK(c)
      <3>1. PICK m \in IF budget.stale = 1 THEN {EmptyMap} \cup {Registered(<<g>>) : g \in Addrs} ELSE {Settled} :
                 c = [Idle EXCEPT !.map = m, !.acked = Paths]
        BY <2>1, Zenon
      <3>2. m = Settled \/ m = EmptyMap \/ \E g \in Addrs : m = Registered(<<g>>)
        OBVIOUS
      <3>3. m \in MadeUp
        BY <3>2, SettledMadeUp, EmptyMadeUp, RegisteredOne
      <3>4. ClientOK([Idle EXCEPT !.map = m, !.acked = Paths])
        BY <3>3, IdleOK
      <3> QED BY <3>1, <3>4, Zenon
    <2> QED BY <1>1, <1>2, <2>3, <2>4, <2>5 DEF ShardInv, StateOK
  <1>5. budget.start = 1 \/ budget.start = 0
    BY Zenon DEF Init
  <1> QED BY <1>3, <1>4, <1>5

\* Every step keeps the invariant and changes the config server only as it allows.
LEMMA StepOK ==
    ASSUME StateOK, Step
    PROVE  StateOK' /\ (ConfigNext \/ UNCHANGED configVars)
  <1>1. ASSUME NEW g \in Addrs,
               Fetch(g) \/ Register(g) \/ Decay(g) \/ DetectMerge(g) \/ Restart(g)
                 \/ \E p \in PathPrefixes : DetectSplit(g, p)
        PROVE  StateOK' /\ (ConfigNext \/ UNCHANGED configVars)
    <2>1. StateOK'
      BY <1>1, FetchOK, RegisterOK, DecayOK, DetectMergeOK, RestartOK, DetectSplitOK
    <2>2. ConfigNext \/ UNCHANGED configVars
      BY <1>1, RegisterOK DEF Fetch, Decay, DetectMerge, Restart, DetectSplit
    <2> QED BY <2>1, <2>2
  <1>2. ASSUME NEW r \in inflight, Install(r) \/ AnswerLost(r)
        PROVE  StateOK' /\ UNCHANGED configVars
    <2>1. StateOK'
      BY <1>2, InstallOK, AnswerLostOK
    <2> QED BY <1>2, <2>1 DEF Install, AnswerLost
  <1>3. ASSUME NEW t \in tasks, TaskStep(t) \/ NotifyFails(t) \/ ApplyLate(t)
        PROVE  StateOK' /\ (ConfigNext \/ UNCHANGED configVars)
    <2>1. CASE Collect(t)
      BY <2>1, CollectOK DEF Collect
    <2>2. CASE Push(t)
      BY <2>2, PushOK DEF Push
    <2>3. CASE AllocatePeers(t)
      BY <2>3, AllocatePeersOK DEF AllocatePeers
    <2>4. CASE NotifyFails(t)
      BY <2>4, NotifyFailsOK DEF NotifyFails
    <2> QED BY <1>3, <2>1, <2>2, <2>3, <2>4, NotifySplitOK, NotifyMergeOK, ApplyLateOK DEF TaskStep
  <1>4. ASSUME NEW op \in {"create", "delete", "get"}, NEW p \in Paths, Start(op, p)
        PROVE  StateOK' /\ UNCHANGED configVars
    BY <1>4, StartOK DEF Start
  <1>5. CASE ClientFetch \/ CallFails \/ StartList
    BY <1>5, ClientFetchOK, CallFailsOK, StartListOK DEF ClientFetch, CallFails, StartList
  <1>6. CASE ClientStep
    <2>1. StateOK'
      BY <1>6, CallOK, ServeOK, NextAttemptOK, ListShardOK, EndListOK DEF ClientStep
    <2>2. UNCHANGED configVars
      BY <1>6 DEF ClientStep, Call, Serve, NextAttempt, ListShard, EndList
    <2> QED BY <2>1, <2>2
  <1>7. CASE Operator
    BY <1>7, OperatorOK
  <1> QED BY <1>1, <1>2, <1>3, <1>4, <1>5, <1>6, <1>7 DEF Step

LEMMA NextOK == ShardInv /\ [Next]_vars => ShardInv' /\ [ConfigNext]_configVars
  <1> SUFFICES ASSUME ShardInv, [Next]_vars PROVE ShardInv' /\ [ConfigNext]_configVars
    OBVIOUS
  <1>1. CASE Next
    <2>1. StateOK' /\ (ConfigNext \/ UNCHANGED configVars)
      BY <1>1, StepOK DEF Next, ShardInv
    <2>2. steady' \in BOOLEAN
      BY <1>1 DEF Next, Remember, ShardInv
    <2> QED BY <2>1, <2>2 DEF ShardInv
  <1>2. CASE UNCHANGED vars
    <2>1. UNCHANGED <<configVars, map, registered, files, load, tasks, used, inflight, c, steady>>
      BY <1>2 DEF vars
    <2>2. StateOK'
      BY <2>1, Frames DEF ShardInv, StateOK
    <2> QED BY <2>1, <2>2 DEF ShardInv
  <1> QED BY <1>1, <1>2

(* The typed invariant: every map that a master or the client holds is one  *)
(* that Rebuild makes of some answer of the config server, whatever calls   *)
(* were lost, repeated or late (run_shard_map_refresh, execute_rpc).        *)
THEOREM ShardInvariant == Spec => []ShardInv
  <1>1. ShardInv /\ [Next]_vars => ShardInv'
    BY NextOK
  <1> QED BY <1>1, InitOK, PTL DEF Spec

LEMMA ShardTypes == ShardInv => TypeOK
  <1> SUFFICES ASSUME ShardInv PROVE TypeOK
    OBVIOUS
  <1>1. ConfigTypeOK
    BY InvMeans DEF ShardInv, StateOK, ConfigOK
  <1>2. ASSUME NEW g \in Addrs PROVE DOMAIN map[g].peers \subseteq Ids
    <2>1. map[g] \in MadeUp
      BY DEF ShardInv, StateOK, MapsOK
    <2> QED BY <2>1, MadeUpFacts DEF MapOK, PeersOK
  <1>3. ASSUME NEW r \in inflight PROVE r.for \in {"master", "refresh", "list"} /\ DOMAIN r.peers \subseteq Ids
    <2>1. r \in Answer
      BY DEF ShardInv, StateOK, AnswersOK
    <2> QED BY <2>1, PeerMapsMeans DEF Answer, PeersOK
  <1>4. tasks \subseteq Task
    BY DEF ShardInv, StateOK, TasksOK, TaskOK
  <1>5. /\ c.stage \in {"idle", "send", "serve", "refresh", "list"}
        /\ c.acked \subseteq Paths /\ c.attempt \in 0..MaxRetries /\ c.targets \in Seq(Addrs)
    BY DEF ShardInv, StateOK, ClientOK, Client
  <1> QED BY <1>1, <1>2, <1>3, <1>4, <1>5
          DEF TypeOK, ShardInv, StateOK, RegisteredOK, FilesOK, LoadOK, UsedOK

(* The masters, the client and the config server keep their types           *)
(* (ShardMap, ThroughputMonitor, Client).                                   *)
THEOREM TypeCorrect == Spec => []TypeOK
  BY ShardInvariant, ShardTypes, PTL

(* However late a command is applied, also after its caller has given up,   *)
(* asked again or restarted, a split names one to three distinct masters    *)
(* that the config server knows and a merge names two shards: peers chosen  *)
(* before the Raft round stay registered, and a master never takes itself   *)
(* for its neighbour (split_shard, run_split_detector).                     *)
THEOREM ConfigServerImplemented == Spec => ImplementsConfigServer
  <1>1. ShardInv /\ [Next]_vars => [ConfigNext]_configVars
    BY NextOK
  <1> QED BY <1>1, ShardInvariant, PTL DEF Spec, ImplementsConfigServer

(* The ranges of the config server belong to known shards, one each, with   *)
(* masters that split and merge at the same time (split_shard,              *)
(* merge_shards).                                                           *)
THEOREM RangesOwnedByAll == Spec => []RangesBelongToShards
  <1>1. ShardInv => RangesBelongToShards
    BY InvMeans DEF ShardInv, StateOK, ConfigOK
  <1> QED BY <1>1, ShardInvariant, PTL

(* No master's request uncovers the end of the key space, whatever stale    *)
(* map its neighbour came from (merge_shard).                               *)
THEOREM KeySpaceKeptByAll == Spec => WholeKeySpaceKept
  <1>1. ShardInv /\ [Next]_vars => [MasterStep /\ WholeKeySpace(cmap) => WholeKeySpace(cmap')]_configVars
    BY MasterStepInv DEF ShardInv, StateOK, ConfigOK
  <1> QED BY <1>1, ShardInvariant, PTL DEF Spec, WholeKeySpaceKept

LEMMA RoutesAgree == ShardInv => SameShardsSameRoute
  <1> SUFFICES ASSUME ShardInv PROVE SameShardsSameRoute
    OBVIOUS
  <1> DEFINE maps == {map[g] : g \in Addrs} \cup {c.map}
  <1>1. \A x \in maps : x \in MadeUp
    BY DEF ShardInv, StateOK, MapsOK, ClientOK, Client
  <1> HIDE DEF maps
  <1>2. ASSUME NEW x \in maps, NEW y \in maps, DOMAIN x.peers = DOMAIN y.peers PROVE x.ranges = y.ranges
    <2>1. x.peers \in PeerMaps /\ x = Rebuild(x.peers) /\ y.peers \in PeerMaps /\ y = Rebuild(y.peers)
      BY <1>1, MadeUpFacts
    <2>2. Rebuild(x.peers).ranges = Rebuild(y.peers).ranges
      BY <1>2, <2>1, SameRanges
    <2> QED BY <2>1, <2>2
  <1> QED BY <1>2 DEF SameShardsSameRoute, maps

(* Masters and the client route alike once they know the same shards,       *)
(* however they came to know them (run_shard_map_refresh,                   *)
(* Client::refresh_shard_map).                                              *)
THEOREM SameRoutes == Spec => []SameShardsSameRoute
  BY ShardInvariant, RoutesAgree, PTL

-----------------------------------------------------------------------------
(* While no shard map changes: every master holds the settled map, so its   *)
(* files are the ones that map gives it, and a redirect leads to the owner. *)

Owner(p) == GetShard(Settled, p)

MapsSettled == cmap.peers = OwnPeers(Addrs) /\ \A g \in Addrs : EndsOf(cmap, g) # {} /\ map[g] = Settled
OnlyMerges == \A t \in tasks : t.kind = "merge" /\ t.stage \in {"config", "late"} /\ t.id \in Addrs
AnswersSettled ==
    \A r \in inflight : r.peers = OwnPeers(Addrs) /\ (r.for = "list" => r.g = 0 /\ c.stage = "refresh")
OwnFiles == \A g \in Addrs : \A p \in files[g] : Owner(p) = g
AckedHeld == \A p \in c.acked : p \in files[Owner(p)]

Serving(d) == d.stage = "serve" => Head(d.targets) = Owner(d.path)
Deleting(d) == d.stage \in {"send", "serve"} /\ d.op = "delete" => d.path \notin d.acked
Answered(d) == d.stage = "idle" /\ d.op = "get" /\ d.path \in d.acked => d.res # "notfound"
Listing(d) ==
    d.stage = "list" /\ ~d.lossy => d.map = Settled /\ \A p \in d.acked : Owner(p) \in d.todo \/ p \in d.got
Listed(d) == d.stage = "idle" /\ d.op = "list" /\ d.res = "listed" /\ ~d.lossy => d.acked \subseteq d.got
Failing(d) == MaxRetries > 1 /\ d.res = "failed" => d.lossy
(* Without lost calls the second attempt begins at the owner. *)
Trying(d) ==
    MaxRetries > 1 /\ d.stage = "send" /\ ~d.lossy =>
        \/ d.attempt = 1 /\ (d.targets # <<>> \/ d.hint = <<Owner(d.path)>>)
        \/ d.attempt = 2 /\ d.targets # <<>> /\ Head(d.targets) = Owner(d.path)
ClientSteady(d) ==
    Serving(d) /\ Deleting(d) /\ Answered(d) /\ Listing(d) /\ Listed(d) /\ Failing(d) /\ Trying(d)

SteadyState ==
    MapsSettled /\ registered = Addrs /\ OnlyMerges /\ AnswersSettled /\ OwnFiles /\ AckedHeld /\ ClientSteady(c)

SteadyInv == steady => SteadyState

LEMMA OwnerFacts ==
    ASSUME NEW p \in Paths
    PROVE  Owner(p) \in Addrs /\ Owner(p) # NoShard /\ Settled.peers[Owner(p)] = <<Owner(p)>>
  <1>1. Proper(Settled) /\ MapOK(Settled) /\ DOMAIN Settled.peers = Addrs /\ Settled.peers = OwnPeers(Addrs)
    BY SettledMadeUp, MadeUpFacts
  <1>2. Top \in DOMAIN Settled.ranges
    <2>1. PICK g \in Addrs : TRUE
      BY AddressesAssumption
    <2> QED BY <1>1, <2>1 DEF Proper
  <1>3. p \in Nat /\ p <= Top
    BY PathsAssumption
  <1>4. Owner(p) \in Addrs /\ Owner(p) # NoShard
    BY <1>1, <1>2, <1>3, GetShardFacts DEF Owner
  <1> QED BY <1>1, <1>4 DEF OwnPeers

LEMMA SettledNotEmpty == Settled # EmptyMap
  BY SettledMadeUp, EmptyProper, AddressesAssumption

\* A merge of two shards with ranges changes the config server's map.
LEMMA MergeChanges ==
    ASSUME ConfigOK, NEW v \in Addrs, NEW g \in Addrs, cmap.peers = OwnPeers(Addrs), EndsOf(cmap, v) # {}
    PROVE  MergeShards(cmap, v, g) # cmap
  <1>1. DOMAIN cmap.peers = Addrs
    BY OwnPeersFacts
  <1>2. MergeShards(cmap, v, g).peers = Without(cmap.peers, {v})
    BY <1>1 DEF MergeShards
  <1>3. v \notin DOMAIN Without(cmap.peers, {v})
    BY DEF Without
  <1> QED BY <1>1, <1>2, <1>3

LEMMA SteadyInit ==
    ASSUME Init
    PROVE  SteadyInv
  <1>1. CASE budget.start = 1
    <2> budget.start # 0
      BY <1>1
    <2>1. steady = FALSE
      BY Zenon DEF Init
    <2> QED BY <2>1 DEF SteadyInv
  <1>2. CASE budget.start = 0
    <2> budget.start # 1
      BY <1>2
    <2>1. /\ cmap \in IF budget.stale = 1 THEN {Registered(q) : q \in SetToSeqs(Addrs)} ELSE {Settled}
          /\ map = [g \in Addrs |-> Settled] /\ registered = Addrs
          /\ files = [g \in Addrs |-> {p \in Paths : GetShard(Settled, p) = g}]
          /\ tasks = {} /\ inflight = {}
          /\ \E m \in IF budget.stale = 1 THEN {EmptyMap} \cup {Registered(<<g>>) : g \in Addrs} ELSE {Settled} :
                 c = [Idle EXCEPT !.map = m, !.acked = Paths]
      BY Zenon DEF Init
    <2>2. Proper(cmap) /\ cmap.peers = OwnPeers(Addrs)
      <3>1. cmap = Settled \/ \E q \in SetToSeqs(Addrs) : cmap = Registered(q)
        BY <2>1, Zenon
      <3> QED BY <3>1, RegisteredAll, SettledMadeUp, MadeUpFacts
    <2>3. map = [g \in Addrs |-> Settled] /\ registered = Addrs /\ tasks = {} /\ inflight = {}
          /\ files = [g \in Addrs |-> {p \in Paths : Owner(p) = g}]
      BY <2>1, Zenon DEF Owner
    <2>4. MapsSettled
      <3>1. \A g \in Addrs : EndsOf(cmap, g) # {}
        BY <2>2, OwnPeersFacts DEF Proper, EndsOf
      <3> QED BY <2>2, <2>3, <3>1 DEF MapsSettled
    <2>5. OnlyMerges /\ AnswersSettled
      BY <2>3 DEF OnlyMerges, AnswersSettled
    <2>6. PICK m : c = [Idle EXCEPT !.map = m, !.acked = Paths]
      BY <2>1, Zenon
    <2>7. c.stage = "idle" /\ c.op = "none" /\ c.res = "none" /\ c.acked = Paths
      BY <2>6 DEF Idle
    <2>8. ClientSteady(c)
      BY <2>7 DEF ClientSteady, Serving, Deleting, Answered, Listing, Listed, Failing, Trying
    <2>9. OwnFiles /\ AckedHeld
      BY <2>3, <2>7, OwnerFacts DEF OwnFiles, AckedHeld
    <2> QED BY <2>3, <2>4, <2>5, <2>8, <2>9 DEF SteadyInv, SteadyState
  <1>3. budget.start = 1 \/ budget.start = 0
    BY Zenon DEF Init
  <1> QED BY <1>1, <1>2, <1>3

(* A step that is steady before and after. *)
SteadyStep == StateOK /\ SteadyState /\ Step /\ UNCHANGED <<cmap, map, used>>

\* The parts that follow when the variables they are about do not change.
LEMMA SteadyFrames ==
    ASSUME SteadyState, UNCHANGED <<cmap, map>>
    PROVE  /\ MapsSettled'
           /\ UNCHANGED tasks => OnlyMerges'
           /\ UNCHANGED <<inflight, c>> => AnswersSettled'
           /\ UNCHANGED inflight /\ c.stage # "refresh" => AnswersSettled'
           /\ UNCHANGED files => OwnFiles'
           /\ UNCHANGED files /\ c'.acked \subseteq c.acked => AckedHeld'
           /\ UNCHANGED c => ClientSteady(c')
  <1>1. MapsSettled'
    BY DEF SteadyState, MapsSettled
  <1>2. UNCHANGED tasks => OnlyMerges'
    BY DEF SteadyState, OnlyMerges
  <1>3. /\ UNCHANGED <<inflight, c>> => AnswersSettled'
        /\ UNCHANGED inflight /\ c.stage # "refresh" => AnswersSettled'
    BY DEF SteadyState, AnswersSettled
  <1>4. UNCHANGED files => OwnFiles'
    BY DEF SteadyState, OwnFiles
  <1>5. UNCHANGED files /\ c'.acked \subseteq c.acked => AckedHeld'
    BY DEF SteadyState, AckedHeld
  <1>6. UNCHANGED c => ClientSteady(c')
    BY DEF SteadyState
  <1> QED BY <1>1, <1>2, <1>3, <1>4, <1>5, <1>6

LEMMA MastersSteady ==
    ASSUME SteadyStep, NEW g \in Addrs,
           Fetch(g) \/ Register(g) \/ Decay(g) \/ DetectMerge(g) \/ Restart(g)
             \/ \E p \in PathPrefixes : DetectSplit(g, p)
    PROVE  SteadyState'
  <1> USE DEF SteadyStep
  <1>1. CASE Fetch(g)
    <2>1. AnswersSettled'
      <3>1. cmap.peers = OwnPeers(Addrs)
        BY DEF SteadyState, MapsSettled
      <3>2. FetchShardMap("master", g).peers = OwnPeers(Addrs) /\ FetchShardMap("master", g).for = "master"
        BY <3>1 DEF FetchShardMap
      <3>3. \A r \in inflight' : r \in inflight \/ r = FetchShardMap("master", g)
        BY <1>1 DEF Fetch
      <3>4. c' = c
        BY <1>1 DEF Fetch
      <3> QED BY <3>2, <3>3, <3>4 DEF SteadyState, AnswersSettled
    <2> QED BY <1>1, <2>1, SteadyFrames DEF Fetch, SteadyState
  <1>2. CASE Register(g)
    BY <1>2 DEF Register, SteadyState
  <1>3. CASE Decay(g)
    BY <1>3, SteadyFrames DEF Decay, SteadyState
  <1>4. CASE DetectMerge(g)
    <2> DEFINE n == Neighbors(map[g], g)
               victims == n.prev \o n.next
    <2>1. victims # <<>>
          /\ tasks' = tasks \cup {[kind |-> "merge", g |-> g, key |-> 0, id |-> Head(victims), stage |-> "config",
                                   files |-> {}, peers |-> <<>>]}
      BY <1>4 DEF DetectMerge
    <2>2. MapOK(map[g]) /\ DOMAIN map[g].peers = Addrs
      BY SettledMadeUp, MadeUpFacts DEF SteadyState, MapsSettled
    <2>3. Head(victims) \in Addrs
      BY <2>1, <2>2, NeighborFacts
    <2> HIDE DEF victims
    <2>4. OnlyMerges'
      BY <2>1, <2>3 DEF OnlyMerges, SteadyState
    <2> QED BY <1>4, <2>4, SteadyFrames DEF DetectMerge, SteadyState
  <1>5. CASE Restart(g)
    <2>1. map'[g] = EmptyMap
      BY <1>5 DEF Restart, StateOK, MapsOK
    <2> QED BY <2>1, SettledNotEmpty DEF SteadyState, MapsSettled
  <1>6. CASE \E p \in PathPrefixes : DetectSplit(g, p)
    BY <1>6, DetectSplitOK
  <1> QED BY <1>1, <1>2, <1>3, <1>4, <1>5, <1>6

\* A merge that the config server applies ends the steady time.
LEMMA TasksSteady ==
    ASSUME SteadyStep, NEW t \in tasks, TaskStep(t) \/ NotifyFails(t) \/ ApplyLate(t)
    PROVE  SteadyState'
  <1> USE DEF SteadyStep
  <1>1. t.kind = "merge" /\ t.stage \in {"config", "late"} /\ t.id \in Addrs
    BY DEF SteadyState, OnlyMerges
  <1>2. TaskOK(t) /\ t.g \in Addrs
    BY DEF StateOK, TasksOK, TaskOK, Task
  <1>3. CASE Collect(t) \/ Push(t) \/ AllocatePeers(t) \/ NotifySplit(t)
    BY <1>1, <1>3 DEF Collect, Push, AllocatePeers, NotifySplit
  <1>4. CASE NotifyMerge(t) \/ ApplyLate(t)
    <2>1. cmap' = MergeShards(cmap, t.id, t.g)
      BY <1>1, <1>4 DEF NotifyMerge, ApplyLate, ProposeMerge
    <2>2. cmap' # cmap
      BY <1>1, <1>2, <2>1, MergeChanges DEF StateOK, SteadyState, MapsSettled
    <2> QED BY <2>2
  <1>5. CASE NotifyFails(t)
    <2> DEFINE late == [t EXCEPT !.stage = "late"]
               again == [t EXCEPT !.stage = "config", !.peers = <<>>]
    <2>1. /\ late.kind = "merge" /\ late.stage = "late" /\ late.id \in Addrs
          /\ again.kind = "merge" /\ again.stage = "config" /\ again.id \in Addrs
      BY <1>1, <1>2 DEF TaskOK, Task
    <2>2. \A u \in tasks' : u \in tasks \/ u = late \/ u = again
      BY <1>5 DEF NotifyFails, Orphan
    <2> HIDE DEF late, again
    <2>3. OnlyMerges'
      BY <2>1, <2>2 DEF SteadyState, OnlyMerges
    <2> QED BY <1>5, <2>3, SteadyFrames DEF NotifyFails, SteadyState
  <1> QED BY <1>3, <1>4, <1>5 DEF TaskStep

LEMMA AnswersSteady ==
    ASSUME SteadyStep, NEW r \in inflight, Install(r) \/ AnswerLost(r)
    PROVE  SteadyState'
  <1> USE DEF SteadyStep
  <1>1. c \in Client /\ ClientSteady(c) /\ r \in Answer /\ inflight \subseteq Answer
    BY DEF StateOK, ClientOK, AnswersOK, SteadyState
  <1>2. r.peers = OwnPeers(Addrs) /\ (r.for = "list" => r.g = 0 /\ c.stage = "refresh")
    BY DEF SteadyState, AnswersSettled
  <1>3. Rebuild(r.peers) = Settled /\ DOMAIN r.peers = Addrs
    BY <1>2, OwnPeersFacts DEF Settled, OwnPeers
  <1>4. inflight' = inflight \ {r}
    BY DEF Install, AnswerLost
  <1>5. r.for = "list" => \A x \in inflight' : x.for # "list"
    <2> SUFFICES ASSUME r.for = "list", NEW x \in inflight', x.for = "list" PROVE FALSE
      OBVIOUS
    <2>1. x \in Answer /\ x.peers = r.peers /\ x.g = r.g /\ x # r
      BY <1>1, <1>2, <1>4 DEF SteadyState, AnswersSettled
    <2> QED BY <1>1, <2>1 DEF Answer
  <1>6. AnswersSettled' /\ ClientSteady(c') /\ c'.acked = c.acked
    <2>1. CASE UNCHANGED c
      BY <1>1, <1>4, <2>1 DEF SteadyState, AnswersSettled
    <2>2. CASE c' = [c EXCEPT !.map = Settled] /\ r.for # "list"
      <3>1. c'.map = Settled /\ c'.stage = c.stage /\ c'.op = c.op /\ c'.path = c.path /\ c'.acked = c.acked
            /\ c'.targets = c.targets /\ c'.attempt = c.attempt /\ c'.hint = c.hint /\ c'.res = c.res
            /\ c'.todo = c.todo /\ c'.got = c.got /\ c'.lossy = c.lossy
        BY <1>1, <2>2 DEF Client
      <3>2. AnswersSettled'
        BY <1>4, <3>1 DEF SteadyState, AnswersSettled
      <3>3. ClientSteady(c')
        BY <1>1, <3>1 DEF ClientSteady, Serving, Deleting, Answered, Listing, Listed, Failing, Trying
      <3> QED BY <3>1, <3>2, <3>3
    <2>3. CASE c' = [c EXCEPT !.map = Settled, !.stage = "list", !.todo = Addrs] /\ r.for = "list"
      <3>1. c'.map = Settled /\ c'.stage = "list" /\ c'.acked = c.acked /\ c'.res = c.res /\ c'.todo = Addrs
            /\ c'.lossy = c.lossy
        BY <1>1, <2>3 DEF Client
      <3>2. AnswersSettled'
        BY <1>4, <1>5, <2>3 DEF SteadyState, AnswersSettled
      <3>3. \A p \in c.acked : Owner(p) \in Addrs
        BY <1>1, OwnerFacts DEF Client
      <3>4. ClientSteady(c')
        BY <1>1, <3>1, <3>3 DEF ClientSteady, Serving, Deleting, Answered, Listing, Listed, Failing, Trying
      <3> QED BY <3>1, <3>2, <3>4
    <2>4. CASE c' = [c EXCEPT !.stage = "list", !.todo = DOMAIN c.map.peers, !.lossy = TRUE] /\ r.for = "list"
      <3>1. c'.stage = "list" /\ c'.acked = c.acked /\ c'.lossy = TRUE
        BY <1>1, <2>4 DEF Client
      <3>2. AnswersSettled'
        BY <1>4, <1>5, <2>4 DEF SteadyState, AnswersSettled
      <3>3. ClientSteady(c')
        BY <3>1 DEF ClientSteady, Serving, Deleting, Answered, Listing, Listed, Failing, Trying
      <3> QED BY <3>1, <3>2, <3>3
    <2>5. CASE Install(r)
      <3>1. CASE r.for = "master"
        BY <2>1, <2>5, <3>1 DEF Install
      <3>2. CASE r.for = "list"
        BY <1>3, <2>3, <2>5, <3>2 DEF Install
      <3>3. CASE r.for \notin {"master", "list"}
        <4>1. c' = [c EXCEPT !.map = Settled, !.stage = c.stage, !.todo = c.todo]
          BY <1>3, <2>5, <3>3 DEF Install
        <4>2. c' = [c EXCEPT !.map = Settled]
          BY <1>1, <4>1 DEF Client
        <4> QED BY <2>2, <3>3, <4>2
      <3> QED BY <3>1, <3>2, <3>3
    <2>6. CASE AnswerLost(r)
      BY <2>1, <2>4, <2>6 DEF AnswerLost
    <2> QED BY <2>5, <2>6
  <1>7. UNCHANGED <<registered, files, tasks>>
    BY DEF Install, AnswerLost
  <1> QED BY <1>6, <1>7, SteadyFrames DEF SteadyState

\* What the end of a request and a lost answer leave of the client.
LEMMA EndedFields ==
    ASSUME c \in Client, NEW res
    PROVE  /\ Ended(res).stage = "idle" /\ Ended(res).op = c.op /\ Ended(res).path = c.path /\ Ended(res).res = res
           /\ Ended(res).lossy = c.lossy /\ Ended(res).got = c.got
           /\ Ended(res).acked = IF c.op = "create" /\ res = "ok" THEN c.acked \cup {c.path} ELSE c.acked
  <1> DEFINE a == IF c.op = "create" /\ res = "ok" THEN c.acked \cup {c.path} ELSE c.acked
  <1>1. Ended(res) = [c EXCEPT !.stage = "idle", !.res = res, !.base = <<>>, !.targets = <<>>, !.attempt = 0,
                               !.hint = <<>>, !.acked = a]
    BY DEF Ended
  <1> HIDE DEF a
  <1>2. /\ Ended(res).stage = "idle" /\ Ended(res).op = c.op /\ Ended(res).path = c.path /\ Ended(res).res = res
        /\ Ended(res).lossy = c.lossy /\ Ended(res).got = c.got /\ Ended(res).acked = a
    BY <1>1 DEF Client
  <1> QED BY <1>2 DEF a

LEMMA UnansweredSteady ==
    ASSUME c \in Client, ClientSteady(c), c.stage \in {"send", "serve"}
    PROVE  ClientSteady(Unanswered) /\ Unanswered.acked = c.acked /\ Unanswered.path = c.path
  <1> DEFINE d == Unanswered
  <1>1. d.stage = "send" /\ d.op = c.op /\ d.path = c.path /\ d.acked = c.acked /\ d.lossy = TRUE
    BY DEF Unanswered, Client
  <1> HIDE DEF d
  <1>2. ClientSteady(d)
    BY <1>1 DEF ClientSteady, Serving, Deleting, Answered, Listing, Listed, Failing, Trying
  <1> QED BY <1>1, <1>2 DEF d

LEMMA StartSteady ==
    ASSUME SteadyStep, NEW op \in {"create", "delete", "get"}, NEW p \in Paths, Start(op, p)
    PROVE  SteadyState'
  <1> USE DEF SteadyStep
  <1> DEFINE rs == Responsible(p)
             ak == IF op = "delete" THEN c.acked \ {p} ELSE c.acked
  <1>1. c \in Client /\ rs # <<>> /\ c.stage = "idle"
    BY ResponsibleFacts DEF StateOK, ClientOK, Start
  <1>2. c' = [c EXCEPT !.stage = "send", !.op = op, !.path = p, !.base = rs, !.targets = rs,
                       !.attempt = 1, !.hint = <<>>, !.res = "none", !.lossy = FALSE, !.got = {},
                       !.acked = ak]
    BY DEF Start
  <1> HIDE DEF rs, ak
  <1>3. c'.stage = "send" /\ c'.op = op /\ c'.path = p /\ c'.targets = rs /\ c'.attempt = 1 /\ c'.res = "none"
        /\ c'.acked = ak
    BY <1>1, <1>2 DEF Client
  <1>4. ak \subseteq c.acked /\ (op = "delete" => p \notin ak)
    BY DEF ak
  <1>5. ClientSteady(c')
    BY <1>1, <1>3, <1>4 DEF ClientSteady, Serving, Deleting, Answered, Listing, Listed, Failing, Trying
  <1>6. UNCHANGED <<registered, files, tasks, inflight>>
    BY DEF Start
  <1>7. c'.acked \subseteq c.acked /\ c.stage # "refresh"
    BY <1>1, <1>3, <1>4
  <1> QED BY <1>5, <1>6, <1>7, SteadyFrames DEF SteadyState

LEMMA FetchesSteady ==
    ASSUME SteadyStep, ClientFetch \/ CallFails \/ StartList
    PROVE  SteadyState'
  <1> USE DEF SteadyStep
  <1>1. c \in Client /\ ClientSteady(c) /\ cmap.peers = OwnPeers(Addrs)
    BY DEF StateOK, ClientOK, SteadyState, MapsSettled
  <1>2. UNCHANGED <<registered, files, tasks>>
    BY DEF ClientFetch, CallFails, StartList
  <1>3. CASE ClientFetch
    <2> DEFINE n == c.refreshes - 1
    <2>1. c' = [c EXCEPT !.refreshes = n] /\ inflight' = inflight \cup {FetchShardMap("refresh", 0)}
      BY <1>3 DEF ClientFetch
    <2> HIDE DEF n
    <2>2. c'.map = c.map /\ c'.stage = c.stage /\ c'.op = c.op /\ c'.path = c.path /\ c'.acked = c.acked
          /\ c'.targets = c.targets /\ c'.attempt = c.attempt /\ c'.hint = c.hint /\ c'.res = c.res
          /\ c'.todo = c.todo /\ c'.got = c.got /\ c'.lossy = c.lossy
      BY <1>1, <2>1 DEF Client
    <2>3. AnswersSettled'
      BY <1>1, <2>1, <2>2 DEF SteadyState, AnswersSettled, FetchShardMap
    <2>4. ClientSteady(c')
      BY <1>1, <2>2 DEF ClientSteady, Serving, Deleting, Answered, Listing, Listed, Failing, Trying
    <2> QED BY <1>2, <2>2, <2>3, <2>4, SteadyFrames DEF SteadyState
  <1>4. CASE CallFails
    <2>1. c' = Unanswered /\ c.stage = "send" /\ UNCHANGED inflight
      BY <1>4 DEF CallFails
    <2>2. ClientSteady(c') /\ c'.acked = c.acked
      BY <1>1, <2>1, UnansweredSteady
    <2> QED BY <1>2, <2>1, <2>2, SteadyFrames DEF SteadyState
  <1>5. CASE StartList
    <2>1. c' = [c EXCEPT !.stage = "refresh", !.op = "list", !.res = "none", !.lossy = FALSE, !.got = {}]
          /\ inflight' = inflight \cup {FetchShardMap("list", 0)} /\ c.stage = "idle"
      BY <1>5 DEF StartList
    <2>2. c'.stage = "refresh" /\ c'.res = "none" /\ c'.acked = c.acked
      BY <1>1, <2>1 DEF Client
    <2>3. AnswersSettled'
      BY <1>1, <2>1, <2>2 DEF SteadyState, AnswersSettled, FetchShardMap
    <2>4. ClientSteady(c')
      BY <2>2 DEF ClientSteady, Serving, Deleting, Answered, Listing, Listed, Failing, Trying
    <2> QED BY <1>2, <2>2, <2>3, <2>4, SteadyFrames DEF SteadyState
  <1> QED BY <1>3, <1>4, <1>5

\* A master that holds the settled map redirects to the owner; the owner serves.
LEMMA CallSteady ==
    ASSUME SteadyStep, Call
    PROVE  SteadyState'
  <1> USE DEF SteadyStep
  <1> DEFINE g == Head(c.targets)
             o == Owner(c.path)
  <1>1. c \in Client /\ ClientSteady(c) /\ c.stage = "send" /\ c.targets # <<>> /\ c.path \in Paths
    BY DEF Call, StateOK, ClientOK, SteadyState
  <1>2. g \in Addrs
    BY <1>1 DEF Client
  <1>3. map[g] = Settled
    BY <1>2 DEF SteadyState, MapsSettled
  <1>4. GetShard(map[g], c.path) = o /\ o \in Addrs /\ map[g].peers[o] = <<o>> /\ (Accepts(g, c.path) <=> g = o)
    BY <1>1, <1>3, OwnerFacts DEF Accepts, Owner
  <1>5. UNCHANGED <<registered, files, tasks, inflight>>
    BY DEF Call
  <1>6. ClientSteady(c') /\ c'.acked = c.acked
    <2>1. CASE Accepts(g, c.path) /\ Refusal(g) = "none"
      <3>1. c' = [c EXCEPT !.stage = "serve"]
        BY <2>1 DEF Call
      <3>2. c'.stage = "serve" /\ c'.targets = c.targets /\ c'.path = c.path /\ c'.acked = c.acked /\ c'.op = c.op
            /\ c'.res = c.res /\ c'.lossy = c.lossy
        BY <1>1, <3>1 DEF Client
      <3>3. Head(c'.targets) = Owner(c'.path)
        BY <1>4, <2>1, <3>2
      <3> HIDE DEF g, o
      <3>4. ClientSteady(c')
        BY <1>1, <3>2, <3>3 DEF ClientSteady, Serving, Deleting, Answered, Listing, Listed, Failing, Trying
      <3> QED BY <3>2, <3>4
    <2>2. CASE Accepts(g, c.path) /\ Refusal(g) # "none"
      <3> DEFINE res == Refusal(g)
      <3>1. c' = Ended(res) /\ res \in {"exists", "notfound"} /\ (res = "notfound" => c.op = "delete")
        <4>1. c' = Ended(res)
          BY <2>2 DEF Call
        <4> HIDE DEF g
        <4>2. res \in {"exists", "notfound"} /\ (res = "notfound" => c.op = "delete")
          BY <2>2 DEF Refusal
        <4> QED BY <4>1, <4>2
      <3> HIDE DEF res
      <3>2. c'.stage = "idle" /\ c'.op = c.op /\ c'.path = c.path /\ c'.res = res /\ c'.acked = c.acked
        BY <1>1, <3>1, EndedFields
      <3>3. ClientSteady(c')
        BY <3>1, <3>2 DEF ClientSteady, Serving, Deleting, Answered, Listing, Listed, Failing, Trying
      <3> QED BY <3>2, <3>3
    <2>3. CASE ~Accepts(g, c.path)
      <3> DEFINE h == <<Head(map[g].peers[o])>>
                 n == c.refreshes + 1
      <3>1. c' = [c EXCEPT !.hint = h, !.targets = <<>>, !.refreshes = n]
        <4>1. map[g].peers[GetShard(map[g], c.path)] # <<>>
          BY <1>4
        <4> QED BY <1>4, <2>3, <4>1 DEF Call
      <3>2. h = <<o>>
        BY <1>4
      <3> HIDE DEF h, n
      <3>3. c'.stage = "send" /\ c'.targets = <<>> /\ c'.path = c.path /\ c'.acked = c.acked /\ c'.op = c.op
            /\ c'.res = c.res /\ c'.lossy = c.lossy /\ c'.attempt = c.attempt /\ c'.hint = h
        BY <1>1, <3>1 DEF Client
      <3>4. MaxRetries > 1 /\ ~c.lossy => c.attempt = 1
        BY <1>1, <1>4, <2>3 DEF ClientSteady, Trying
      <3>5. c'.hint = <<Owner(c'.path)>>
        BY <3>2, <3>3
      <3> HIDE DEF g, o
      <3>6. ClientSteady(c')
        BY <1>1, <3>3, <3>4, <3>5 DEF ClientSteady, Serving, Deleting, Answered, Listing, Listed, Failing, Trying
      <3> QED BY <3>3, <3>6
    <2> QED BY <2>1, <2>2, <2>3
  <1>7. c.stage # "refresh"
    BY <1>1
  <1> QED BY <1>5, <1>6, <1>7, SteadyFrames DEF SteadyState

\* The master that serves a request owns the path, so the file is in no other namespace.
LEMMA ServeSteady ==
    ASSUME SteadyStep, Serve
    PROVE  SteadyState'
  <1> USE DEF SteadyStep
  <1> DEFINE g == Head(c.targets)
             res == IF c.op # "get" THEN "ok" ELSE IF c.path \in files[g] THEN "found" ELSE "notfound"
  <1>1. c \in Client /\ ClientSteady(c) /\ c.stage = "serve" /\ c.path \in Paths
    BY DEF Serve, StateOK, ClientOK, SteadyState
  <1>2. g = Owner(c.path) /\ g \in Addrs
    BY <1>1, OwnerFacts DEF ClientSteady, Serving
  <1>3. files' = Applied(g) /\ (c' = Ended(res) \/ c' = Unanswered)
    BY DEF Serve
  <1>4. files \in [Addrs -> SUBSET Paths]
    BY DEF StateOK, FilesOK
  <1> HIDE DEF g
  <1>5. /\ c.op = "create" => files' = [files EXCEPT ![g] = @ \cup {c.path}]
        /\ c.op = "delete" => files' = [files EXCEPT ![g] = @ \ {c.path}]
        /\ c.op \notin {"create", "delete"} => files' = files
    BY <1>3 DEF Applied
  <1>6. OwnFiles'
    BY <1>1, <1>2, <1>4, <1>5 DEF OwnFiles, SteadyState
  <1>7. c.op = "delete" => c.path \notin c.acked
    BY <1>1 DEF ClientSteady, Deleting
  <1>8. \A p \in c.acked : p \in files'[Owner(p)]
    <2>1. \A p \in c.acked : p \in files[Owner(p)] /\ Owner(p) \in Addrs
      BY <1>1, OwnerFacts DEF AckedHeld, SteadyState, Client
    <2> QED BY <1>2, <1>4, <1>5, <1>7, <2>1
  <1>9. c.op = "create" => c.path \in files'[Owner(c.path)]
    BY <1>2, <1>4, <1>5
  <1>10. CASE c' = Ended(res)
    <2>1. c'.stage = "idle" /\ c'.op = c.op /\ c'.path = c.path /\ c'.res = res
          /\ c'.acked = IF c.op = "create" /\ res = "ok" THEN c.acked \cup {c.path} ELSE c.acked
      <3> HIDE DEF res
      <3> QED BY <1>1, <1>10, EndedFields
    <2>2. AckedHeld'
      <3> HIDE DEF res
      <3>1. \A p \in c'.acked : p \in c.acked \/ (p = c.path /\ c.op = "create")
        BY <2>1
      <3> QED BY <1>8, <1>9, <3>1 DEF AckedHeld
    <2>3. res \in {"ok", "found", "notfound"} /\ (c.op = "get" /\ res = "notfound" => c.path \notin c.acked)
      BY <1>2 DEF SteadyState, AckedHeld
    <2> HIDE DEF res
    <2>4. ClientSteady(c')
      BY <2>1, <2>3 DEF ClientSteady, Serving, Deleting, Answered, Listing, Listed, Failing, Trying
    <2>5. UNCHANGED <<registered, tasks, inflight>> /\ c.stage # "refresh"
      BY <1>1 DEF Serve
    <2> QED BY <1>6, <2>2, <2>4, <2>5, SteadyFrames DEF SteadyState
  <1>11. CASE c' = Unanswered
    <2>1. ClientSteady(c') /\ c'.acked = c.acked
      BY <1>1, <1>11, UnansweredSteady
    <2>2. AckedHeld'
      BY <1>8, <2>1 DEF AckedHeld
    <2>3. UNCHANGED <<registered, tasks, inflight>> /\ c.stage # "refresh"
      BY <1>1 DEF Serve
    <2> QED BY <1>6, <2>1, <2>2, <2>3, SteadyFrames DEF SteadyState
  <1> QED BY <1>3, <1>10, <1>11

LEMMA NextAttemptSteady ==
    ASSUME SteadyStep, NextAttempt
    PROVE  SteadyState'
  <1> USE DEF SteadyStep
  <1>1. c \in Client /\ ClientSteady(c) /\ c.stage = "send" /\ c.targets = <<>> /\ MaxRetries \in Nat
    BY ClientAssumption DEF NextAttempt, StateOK, ClientOK, SteadyState
  <1>2. UNCHANGED <<registered, files, tasks, inflight>>
    BY DEF NextAttempt
  <1>3. ClientSteady(c') /\ c'.acked = c.acked
    <2>1. CASE c.attempt >= MaxRetries
      <3>1. c' = Ended("failed")
        BY <2>1 DEF NextAttempt
      <3>2. c'.stage = "idle" /\ c'.res = "failed" /\ c'.lossy = c.lossy /\ c'.acked = c.acked
        BY <1>1, <3>1, EndedFields
      <3>3. MaxRetries > 1 => c.lossy
        BY <1>1, <2>1 DEF ClientSteady, Trying
      <3>4. ClientSteady(c')
        BY <3>2, <3>3 DEF ClientSteady, Serving, Deleting, Answered, Listing, Listed, Failing, Trying
      <3> QED BY <3>2, <3>4
    <2>2. CASE ~(c.attempt >= MaxRetries)
      <3> DEFINE q == c.hint \o c.base
                 n == c.attempt + 1
      <3>1. c' = [c EXCEPT !.attempt = n, !.targets = q, !.hint = <<>>]
        BY <2>2 DEF NextAttempt
      <3>2. MaxRetries > 1 /\ ~c.lossy => n = 2 /\ c.hint = <<Owner(c.path)>>
        BY <1>1 DEF ClientSteady, Trying
      <3>3. c.hint = <<Owner(c.path)>> => q # <<>> /\ Head(q) = Owner(c.path)
        <4> DEFINE o == Owner(c.path)
        <4>1. \A s \in Seq(Addrs) : Head(<<o>> \o s) = o /\ <<o>> \o s # <<>>
          <5> HIDE DEF o
          <5> QED OBVIOUS
        <4>2. c.base \in Seq(Addrs)
          BY <1>1 DEF Client
        <4> HIDE DEF o
        <4> QED BY <4>1, <4>2 DEF o
      <3> HIDE DEF q, n
      <3>4. c'.stage = "send" /\ c'.targets = q /\ c'.path = c.path /\ c'.acked = c.acked /\ c'.op = c.op
            /\ c'.res = c.res /\ c'.lossy = c.lossy /\ c'.attempt = n
        BY <1>1, <3>1 DEF Client
      <3>5. ClientSteady(c')
        BY <1>1, <3>2, <3>3, <3>4 DEF ClientSteady, Serving, Deleting, Answered, Listing, Listed, Failing, Trying
      <3> QED BY <3>4, <3>5
    <2> QED BY <2>1, <2>2
  <1>4. c.stage # "refresh"
    BY <1>1
  <1> QED BY <1>2, <1>3, <1>4, SteadyFrames DEF SteadyState

\* A listing adds the files of every owner.
LEMMA ListSteady ==
    ASSUME SteadyStep, ListShard \/ EndList
    PROVE  SteadyState'
  <1> USE DEF SteadyStep
  <1>1. c \in Client /\ ClientSteady(c) /\ c.stage = "list"
    BY DEF ListShard, EndList, StateOK, ClientOK, SteadyState
  <1>2. UNCHANGED <<registered, files, tasks, inflight>>
    BY DEF ListShard, EndList
  <1>3. CASE ListShard
    <2> DEFINE ps(s) == IF s \in DOMAIN c.map.peers THEN c.map.peers[s] ELSE <<>>
               more(s) == IF ps(s) = <<>> THEN {} ELSE files[Head(ps(s))]
    <2>1. PICK s \in c.todo :
             \/ c' = [c EXCEPT !.todo = @ \ {s}, !.got = @ \cup more(s)]
             \/ c' = [c EXCEPT !.todo = @ \ {s}, !.stage = "idle", !.res = "failed", !.lossy = TRUE]
      BY <1>3 DEF ListShard
    <2>2. c.map = Settled => \A p \in c.acked : Owner(p) = s => p \in more(s)
      <3> SUFFICES ASSUME c.map = Settled, NEW p \in c.acked, Owner(p) = s PROVE p \in more(s)
        OBVIOUS
      <3>1. s \in Addrs /\ p \in files[s]
        BY <1>1, OwnerFacts DEF Client, SteadyState, AckedHeld
      <3>2. ps(s) = <<s>>
        BY <3>1, SettledMadeUp DEF OwnPeers
      <3>3. Head(<<s>>) = s /\ <<s>> # <<>>
        OBVIOUS
      <3>4. more(s) = files[s]
        <4> HIDE DEF ps
        <4> QED BY <3>2, <3>3
      <3> QED BY <3>1, <3>4
    <2> HIDE DEF more
    <2>3. CASE c' = [c EXCEPT !.todo = @ \ {s}, !.got = @ \cup more(s)]
      <3>1. c'.stage = "list" /\ c'.map = c.map /\ c'.acked = c.acked /\ c'.todo = c.todo \ {s}
            /\ c'.got = c.got \cup more(s) /\ c'.res = c.res /\ c'.lossy = c.lossy
        BY <1>1, <2>3 DEF Client
      <3>2. Listing(c')
        BY <1>1, <2>2, <3>1 DEF ClientSteady, Listing
      <3>3. ClientSteady(c')
        BY <1>1, <3>1, <3>2 DEF ClientSteady, Serving, Deleting, Answered, Listed, Failing, Trying
      <3> QED BY <1>1, <1>2, <3>1, <3>3, SteadyFrames DEF SteadyState
    <2>4. CASE c' = [c EXCEPT !.todo = @ \ {s}, !.stage = "idle", !.res = "failed", !.lossy = TRUE]
      <3>1. c'.stage = "idle" /\ c'.acked = c.acked /\ c'.res = "failed" /\ c'.lossy = TRUE
        BY <1>1, <2>4 DEF Client
      <3>2. ClientSteady(c')
        BY <3>1 DEF ClientSteady, Serving, Deleting, Answered, Listing, Listed, Failing, Trying
      <3> QED BY <1>1, <1>2, <3>1, <3>2, SteadyFrames DEF SteadyState
    <2> QED BY <2>1, <2>3, <2>4
  <1>4. CASE EndList
    <2> DEFINE gt == IF c.map = EmptyMap THEN files[Head(MasterAddrs)] ELSE c.got
    <2>1. c' = [c EXCEPT !.stage = "idle", !.res = "listed", !.got = gt] /\ c.todo = {}
      BY <1>4 DEF EndList
    <2>2. c.map = Settled => gt = c.got
      BY SettledNotEmpty
    <2> HIDE DEF gt
    <2>3. c'.stage = "idle" /\ c'.res = "listed" /\ c'.got = gt /\ c'.acked = c.acked /\ c'.lossy = c.lossy
      BY <1>1, <2>1 DEF Client
    <2>4. ~c.lossy => c.acked \subseteq gt
      BY <1>1, <2>1, <2>2 DEF ClientSteady, Listing
    <2>5. ClientSteady(c')
      BY <2>3, <2>4 DEF ClientSteady, Serving, Deleting, Answered, Listing, Listed, Failing, Trying
    <2> QED BY <1>1, <1>2, <2>3, <2>5, SteadyFrames DEF SteadyState
  <1> QED BY <1>3, <1>4

LEMMA SteadyKept == ShardInv /\ SteadyInv /\ [Next]_vars => SteadyInv'
  <1> SUFFICES ASSUME ShardInv, SteadyInv, [Next]_vars, steady' PROVE SteadyState'
    BY DEF SteadyInv
  <1>1. CASE Next
    <2>1. steady /\ UNCHANGED <<cmap, map, used>> /\ Step
      BY <1>1 DEF Next, Remember, ShardInv
    <2>2. SteadyStep
      BY <2>1 DEF SteadyStep, ShardInv, SteadyInv
    <2>3. CASE Operator
      BY <2>1, <2>3, SteadyFrames DEF SteadyInv, Operator, SteadyState
    <2>4. CASE ClientStep
      BY <2>2, <2>4, CallSteady, ServeSteady, NextAttemptSteady, ListSteady DEF ClientStep
    <2>5. ASSUME NEW g \in Addrs,
                 Fetch(g) \/ Register(g) \/ Decay(g) \/ DetectMerge(g) \/ Restart(g)
                   \/ \E p \in PathPrefixes : DetectSplit(g, p)
          PROVE  SteadyState'
      BY <2>2, <2>5, MastersSteady
    <2> QED BY <2>1, <2>2, <2>3, <2>4, <2>5, AnswersSteady, TasksSteady, StartSteady, FetchesSteady DEF Step
  <1>2. CASE UNCHANGED vars
    <2>1. UNCHANGED <<cmap, map, registered, files, tasks, inflight, c, steady>>
      BY <1>2 DEF vars, configVars
    <2> QED BY <2>1, SteadyFrames DEF SteadyInv, SteadyState
  <1> QED BY <1>1, <1>2

(* While no shard map changes, every master holds exactly the settled map,  *)
(* only merges that have not been applied are under way, every file is at   *)
(* its owner, and a request that is served is served by the owner           *)
(* (check_shard_ownership, execute_rpc_internal).                           *)
THEOREM SteadyInvariant == Spec => [](ShardInv /\ SteadyInv)
  <1>1. Init => ShardInv /\ SteadyInv
    BY InitOK, SteadyInit
  <1>2. (ShardInv /\ SteadyInv) /\ [Next]_vars => (ShardInv /\ SteadyInv)'
    BY NextOK, SteadyKept
  <1> QED BY <1>1, <1>2, PTL DEF Spec

LEMMA OneHolderHolds == SteadyInv => OneHolder
  BY DEF SteadyInv, SteadyState, OwnFiles, OneHolder

(* No path is in two namespaces while the shard maps stay as they are,      *)
(* although requests are repeated at other masters (create_file).           *)
THEOREM OneHolderOnly == Spec => []OneHolder
  BY SteadyInvariant, OneHolderHolds, PTL

LEMMA RequestsSteady ==
    ASSUME MaxRetries > 1
    PROVE  SteadyInv => SteadyRequests
  BY DEF SteadyInv, SteadyState, ClientSteady, Answered, Listed, Failing, SteadyRequests

(* A client with any map, stale or empty, that may try twice finds every    *)
(* file it was told is created and lists them all; it fails only when calls *)
(* are lost (execute_rpc_internal; MAX_RETRIES is five).                    *)
THEOREM SteadyRequestsAnswered == MaxRetries > 1 => (Spec => []SteadyRequests)
  <1> SUFFICES ASSUME MaxRetries > 1 PROVE Spec => []SteadyRequests
    OBVIOUS
  <1>1. SteadyInv => SteadyRequests
    BY RequestsSteady
  <1> QED BY <1>1, SteadyInvariant, PTL
=============================================================================

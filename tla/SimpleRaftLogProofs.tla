------------------------- MODULE SimpleRaftLogProofs -------------------------
(***************************************************************************)
(* Proofs about the logs of SimpleRaft, for every number of servers and     *)
(* every bound, as long as no log has been compacted and no crash cuts the  *)
(* deletion of a conflict short: two logs that agree on the term of an      *)
(* entry agree up to it, and a restart finds the log the node worked with.  *)
(*                                                                         *)
(* The argument needs what the state does not keep: H[t], the log of the    *)
(* leader of term t as long as it ever was.  Every log is Rooted in H: up   *)
(* to any of its entries, of term t say, it is the log of the leader of t.  *)
(* A step leaves the logs alone (LogKept), makes the log of a leader grow   *)
(* (Grows), or merges a request into the log of a follower (Merges).        *)
(***************************************************************************)
EXTENDS SimpleRaftProofs

\* The proviso of the theorems: no node has compacted its log or installed a
\* snapshot, and no crash cuts delete_log_entries_from short.
NothingCompacted ==
    last_included_index = [i \in Server |-> 0] /\ "truncate" \notin CrashWindows

\* What follows from it, with the types of logs and of what the nodes exchange.
PlainInv ==
    /\ log \in [Server -> Seq(Entry)]
    /\ db_log = log
    /\ last_included_term = [i \in Server |-> 0]
    /\ snapshot_data = [i \in Server |-> <<>>]
    /\ snap_requests = {} /\ snap_replies = {}
    /\ commit_index \in [Server -> Nat] /\ last_applied = commit_index
    /\ next_index \in [Server -> [Server -> Nat \ {0}]]
    /\ match_index \in [Server -> [Server -> Nat]]
    /\ vote_requests \subseteq VoteRequest /\ vote_replies \subseteq VoteReply
    /\ append_requests \subseteq AppendRequest /\ append_replies \subseteq AppendReply

\* No request or vote is of a term its candidate has not reached.
NoVoteAhead ==
    /\ \A m \in vote_requests : m.term <= current_term[m.candidate_id]
    /\ \A r \in vote_replies : r.vote_granted => r.term <= current_term[r.dest]

-----------------------------------------------------------------------------
(* What a step may do to the logs.                                         *)

\* Request m carries log L of server i from some index on, and its commit index.
Carries(m, i, L) ==
    /\ m.term = current_term[i]
    /\ m.prev_log_index <= Len(L)
    /\ m.prev_log_index > 0 => m.prev_log_term = L[m.prev_log_index].term
    /\ m.entries = SubSeq(L, m.prev_log_index + 1, Len(L))
    /\ m.leader_commit = commit_index[i]

\* No log changes and nobody becomes leader.
LogKept ==
    /\ log' = log /\ elected' = elected
    /\ \A i \in Server : role'[i] = Leader => role[i] = Leader /\ current_term'[i] = current_term[i]
    /\ \A i \in Server : role'[i] = Candidate =>
         (role[i] = Candidate /\ current_term'[i] = current_term[i]) \/ current_term'[i] > current_term[i]
    /\ \A m \in append_requests' : m \in append_requests \/
         \E i \in Server : role[i] = Leader /\ Carries(m, i, log[i])

\* A vote of v that candidate x has counted or may still count.
Counted(v, x) ==
    \/ v \in voters[x]
    \/ \E m \in vote_replies : /\ m.vote_granted /\ m.peer_id = v
                               /\ m.dest = x /\ m.term = current_term[x]

\* Server i is the leader of its term, or becomes it by the votes it counted.
Leads(i) ==
    \/ role[i] = Leader /\ UNCHANGED <<current_term, elected>>
    \/ /\ \/ role[i] = Candidate /\ current_term' = current_term
          \/ role[i] # Leader /\ current_term' = [current_term EXCEPT ![i] = @ + 1]
       /\ elected' = elected \cup {[term |-> current_term'[i], leader |-> i, voters |-> voters'[i]]}
       /\ \A v \in voters'[i] : v = i \/
            (role[i] = Candidate /\ current_term' = current_term /\ Counted(v, i))

\* The log of leader i grows by es, of its term.
Grows(i, es) ==
    /\ es # <<>>
    /\ \A k \in 1 .. Len(es) : es[k].term = current_term'[i]
    /\ log' = [log EXCEPT ![i] = @ \o es]
    /\ role' = [role EXCEPT ![i] = Leader]
    /\ Leads(i)
    /\ \A m \in append_requests' : m \in append_requests \/ (role[i] = Leader /\ Carries(m, i, log'[i]))

\* A follower merges request m into its log.
Merges(m) ==
    /\ m.term >= current_term[m.dest] /\ Matches(m.dest, m)
    /\ log' = [log EXCEPT ![m.dest] = MergedLog(m.dest, m)]
    /\ role' = [role EXCEPT ![m.dest] = Follower]
    /\ current_term' = [current_term EXCEPT ![m.dest] = m.term]
    /\ elected' = elected
    /\ append_requests' \subseteq append_requests

LogStep ==
    \/ LogKept
    \/ \E i \in Server, es \in Seq(Entry) : Grows(i, es)
    \/ \E m \in append_requests : Merges(m)

\* A request for votes tells what its candidate's log ends with, and a vote granted
\* is of the term of a request.
LastTermOf(L) == IF L = <<>> THEN 0 ELSE L[Len(L)].term

VoteMsgsTrue ==
    /\ \A m \in vote_requests' : m \in vote_requests \/
         LET x == m.candidate_id
         IN  /\ m.term = current_term'[x] /\ m.last_log_index = Len(log'[x])
             /\ m.last_log_term = LastTermOf(log'[x])
    /\ \A r \in vote_replies' : r.vote_granted => r \in vote_replies \/
         \E m \in vote_requests : m.candidate_id = r.dest /\ m.term = r.term

\* A vote that counts was counted before, is the candidate's own, or is granted now
\* to a log that is at least as up to date.
GrantedNow(v, x, m) ==
    /\ role[x] = Candidate /\ current_term'[x] = current_term[x]
    /\ m.candidate_id = x /\ m.dest = v /\ m.term = current_term[x]
    /\ \/ m.last_log_term > LastTermOf(log[v])
       \/ m.last_log_term = LastTermOf(log[v]) /\ m.last_log_index >= Len(log[v])

CountsTrue ==
    \A x, v \in Server : (role'[x] = Candidate /\ Counted(v, x)') =>
      \/ role[x] = Candidate /\ current_term'[x] = current_term[x] /\ Counted(v, x)
      \/ v = x
      \/ LogKept /\ \E m \in vote_requests : GrantedNow(v, x, m)

\* A success is reported for what was merged.
AcksTrue ==
    \A r \in append_replies' : r.success => r \in append_replies \/
      \E m \in append_requests : /\ Merges(m) /\ r.peer_id = m.dest /\ r.term = m.term
                                 /\ r.match_index = MatchReported(m)

\* What leader i knows of peer j it knew before, or starts with, or learns from a reply.
Reported(i, j, r) ==
    /\ r.success /\ r.term = current_term[i] /\ r.peer_id = j
    /\ match_index'[i][j] = r.match_index /\ next_index'[i][j] = r.match_index + 1

PeersTrue ==
    \A i, j \in Server : role'[i] = Leader =>
      \/ /\ role[i] = Leader /\ match_index'[i][j] = match_index[i][j]
         /\ next_index'[i][j] <= next_index[i][j]
      \/ match_index'[i][j] = 0 /\ next_index'[i][j] = Len(log'[i]) + 1
      \/ LogKept /\ role[i] = Leader /\ \E r \in append_replies : Reported(i, j, r)

PlainStep == LogStep /\ VoteMsgsTrue /\ CountsTrue /\ AcksTrue /\ PeersTrue

-----------------------------------------------------------------------------
(* Operators on logs.                                                      *)

LEMMA SaveIsAppend ==
    ASSUME NEW L \in Seq(Entry), NEW es \in Seq(Entry)
    PROVE  SaveEntries(L, Len(L) + 1, es) = L \o es
  <1> DEFINE n == Len(L) + Len(es)
             D == [k \in 1 .. n |-> IF k \in (Len(L) + 1) .. n THEN es[k - Len(L)] ELSE L[k]]
  <1>1. Len(L) \in Nat /\ DOMAIN L = 1 .. Len(L) /\ Len(es) \in Nat /\ n \in Nat
    BY LenProperties
  <1>2. /\ (Len(L) + 1) .. (Len(L) + 1 + Len(es) - 1) = (Len(L) + 1) .. n
        /\ (1 .. Len(L)) \cup ((Len(L) + 1) .. n) = 1 .. n
    BY <1>1
  <1>3. \A k \in (Len(L) + 1) .. n : k - (Len(L) + 1) + 1 = k - Len(L)
    BY <1>1
  <1>4. SaveEntries(L, Len(L) + 1, es) = D
    BY <1>1, <1>2, <1>3 DEF SaveEntries
  <1>5. /\ L \o es \in Seq(Entry) /\ Len(L \o es) = n
        /\ \A k \in 1 .. n : (L \o es)[k] = IF k <= Len(L) THEN L[k] ELSE es[k - Len(L)]
    BY ConcatProperties
  <1>6. L \o es = [k \in 1 .. n |-> (L \o es)[k]]
    BY <1>5, SeqAsFunction
  <1>7. \A k \in 1 .. n : D[k] = (L \o es)[k]
    BY <1>1, <1>5
  <1>8. D = [k \in 1 .. n |-> (L \o es)[k]]
    BY <1>7
  <1> QED BY <1>4, <1>6, <1>8

\* What load_state finds in a database without gaps.
LEMMA LoadIsLog ==
    ASSUME NEW L \in Seq(Entry)
    PROVE  LoadedLog(L, 0) = L
  <1> DEFINE Fits(k) == (0 + 1) .. (0 + k) \subseteq DOMAIN L /\ 0 + k + 1 \notin DOMAIN L
             n == CHOOSE k \in 0 .. Cardinality(DOMAIN L) : Fits(k)
  <1>1. Len(L) \in Nat
    OBVIOUS
  <1>2. DOMAIN L = 1 .. Len(L)
    BY LenProperties
  <1>3. Cardinality(DOMAIN L) = Len(L)
    <2>1. ASSUME NEW m \in Nat PROVE Cardinality(1 .. m) = m
      <3>1. Cardinality(1 .. m) = IF 1 > m THEN 0 ELSE m - 1 + 1
        BY FS_Interval
      <3> QED BY <3>1
    <2>2. Cardinality(1 .. Len(L)) = Len(L)
      BY <1>1, <2>1
    <2> QED BY <1>2, <2>2
  <1>4. n = Len(L)
    <2>1. Len(L) \in 0 .. Len(L) /\ Fits(Len(L))
      BY <1>1
    <2>2. ASSUME NEW k \in 0 .. Len(L), Fits(k) PROVE k = Len(L)
      <3>1. k = Len(L) \/ 0 + k + 1 \in 1 .. Len(L)
        BY <1>1
      <3> QED BY <1>2, <2>2, <3>1, Zenon
    <2> HIDE DEF Fits
    <2>3. n \in 0 .. Len(L) /\ Fits(n)
      BY <1>3, <2>1, Zenon
    <2> HIDE DEF n
    <2> QED BY <2>2, <2>3
  <1>5. LoadedLog(L, 0) = [k \in 1 .. n |-> L[0 + k]]
    BY DEF LoadedLog
  <1> HIDE DEF n
  <1>6. \A k \in 1 .. Len(L) : 0 + k = k
    BY <1>1
  <1> QED BY <1>4, <1>5, <1>6, SeqAsFunction

\* What survives of log[i]: everything, or what comes before the first entry whose
\* term is not the one sent.
LEMMA KeptProperties ==
    ASSUME NEW i \in Server, NEW m \in AppendRequest, log \in [Server -> Seq(Entry)],
           last_included_index[i] = 0, m.prev_log_index <= Len(log[i])
    PROVE  LET p == m.prev_log_index
               K == Kept(i, m)
           IN  /\ K \in p .. Len(log[i])
               /\ \A j \in 1 .. Len(m.entries) : p + j <= K => log[i][p + j].term = m.entries[j].term
               /\ K < Len(log[i]) => /\ K - p + 1 \in 1 .. Len(m.entries)
                                     /\ log[i][K + 1].term # m.entries[K - p + 1].term
  <1> DEFINE p == m.prev_log_index
             L == log[i]
             es == m.entries
             from == p - last_included_index[i]
             bad == {k \in 1 .. Len(es) : /\ from + k <= Len(L)
                                          /\ L[from + k].term # es[k].term}
             least == CHOOSE k \in bad : \A j \in bad : k <= j
  <1>1. p \in Nat /\ L \in Seq(Entry) /\ es \in Seq(Entry) /\ p <= Len(L)
    BY DEF AppendRequest
  <1>2. Len(L) \in Nat /\ Len(es) \in Nat /\ from = p
    BY <1>1
  <1>3. Kept(i, m) = IF bad = {} THEN Len(L) ELSE from + least - 1
    BY DEF Kept
  <1>4. bad \in SUBSET Nat
    BY <1>2
  <1> HIDE DEF from
  <1>5. CASE bad = {}
    <2>1. Kept(i, m) = Len(L)
      BY <1>3, <1>5
    <2>2. \A j \in 1 .. Len(es) : p + j <= Len(L) => L[p + j].term = es[j].term
      BY <1>2, <1>5
    <2> QED BY <1>1, <1>2, <2>1, <2>2
  <1>6. CASE bad # {}
    <2>1. least \in bad /\ \A j \in bad : least <= j
      <3> HIDE DEF bad
      <3>1. \E k \in bad : \A j \in bad : k <= j
        BY <1>4, <1>6, LeastNatural
      <3> QED BY <3>1
    <2> HIDE DEF least
    <2>2. /\ least \in 1 .. Len(es) /\ p + least <= Len(L)
          /\ L[p + least].term # es[least].term
      BY <1>2, <2>1
    <2>3. ASSUME NEW j \in 1 .. Len(es), p + j <= p + least - 1
          PROVE  L[p + j].term = es[j].term
      <3>1. j < least /\ p + j <= Len(L)
        BY <1>1, <1>2, <2>2, <2>3
      <3>2. j \notin bad
        BY <1>2, <2>1, <2>2, <3>1
      <3> QED BY <1>2, <3>1, <3>2
    <2>4. Kept(i, m) = p + least - 1
      BY <1>2, <1>3, <1>6
    <2>5. /\ p + least - 1 \in p .. Len(L)
          /\ (p + least - 1) - p + 1 = least /\ (p + least - 1) + 1 = p + least
      BY <1>1, <1>2, <2>2
    <2> HIDE DEF bad
    <2> QED BY <2>2, <2>3, <2>4, <2>5
  <1> QED BY <1>5, <1>6

\* The merged log: what is kept, then what was sent.  The database ends up with it.
LEMMA MergedProperties ==
    ASSUME NEW i \in Server, NEW m \in AppendRequest, log \in [Server -> Seq(Entry)],
           last_included_index[i] = 0, m.prev_log_index <= Len(log[i]), db_log[i] = log[i]
    PROVE  LET p == m.prev_log_index
               n == m.prev_log_index + Len(m.entries)
               K == Kept(i, m)
               M == MergedLog(i, m)
           IN  /\ M \in Seq(Entry)
               /\ Len(M) = IF n > K THEN n ELSE K
               /\ \A k \in 1 .. K : M[k] = log[i][k]
               /\ \A k \in (K + 1) .. n : M[k] = m.entries[k - p]
               /\ MergedDb(i, m) = M
  <1> DEFINE p == m.prev_log_index
             L == log[i]
             es == m.entries
             n == p + Len(es)
             K == Kept(i, m)
             head == SubSeq(L, 1, K)
             new == SubSeq(es, K - p + 1, Len(es))
             M == head \o new
  <1>1. p \in Nat /\ L \in Seq(Entry) /\ es \in Seq(Entry) /\ p <= Len(L)
    BY DEF AppendRequest
  <1>2. /\ K \in p .. Len(L)
        /\ K < Len(L) => K - p + 1 \in 1 .. Len(es)
    BY KeptProperties
  <1>3. /\ Len(L) \in Nat /\ Len(es) \in Nat /\ K \in Nat /\ K - p + 1 \in Nat \ {0}
        /\ n \in Nat
    BY <1>1, <1>2
  <1>4. NewEntries(i, m) = new /\ MergedLog(i, m) = M
    <2>1. p - last_included_index[i] = p
      BY <1>1
    <2> QED BY <2>1 DEF NewEntries, MergedLog
  <1> HIDE DEF K
  <1>5. head \in Seq(Entry) /\ Len(head) = K /\ \A k \in 1 .. K : head[k] = L[k]
    <2>1. \A k \in 1 .. K : L[k] \in Entry
      BY <1>1, <1>2, <1>3, ElementOfSeq
    <2> HIDE DEF L
    <2> QED BY <1>3, <2>1, SubSeqProperties
  <1>6. /\ new \in Seq(Entry)
        /\ Len(new) = IF n > K THEN n - K ELSE 0
        /\ \A k \in 1 .. (n - K) : new[k] = es[K - p + k]
    <2>1. \A k \in (K - p + 1) .. Len(es) : es[k] \in Entry
      BY <1>1, <1>3, ElementOfSeq
    <2> HIDE DEF es
    <2>2. /\ new \in Seq(Entry)
          /\ Len(new) = IF K - p + 1 <= Len(es) THEN Len(es) - (K - p + 1) + 1 ELSE 0
          /\ \A k \in 1 .. Len(es) - (K - p + 1) + 1 : new[k] = es[(K - p + 1) + k - 1]
      BY <1>3, <2>1, SubSeqProperties
    <2> HIDE DEF new, p, K
    <2>3. /\ Len(es) - (K - p + 1) + 1 = n - K /\ (K - p + 1 <= Len(es) <=> n > K)
          /\ n > K => Len(es) - (K - p + 1) + 1 = n - K
      BY <1>1, <1>3
    <2>4. \A k \in 1 .. (n - K) : (K - p + 1) + k - 1 = K - p + k
      BY <1>1, <1>3
    <2> HIDE DEF n
    <2> QED BY <2>2, <2>3, <2>4
  <1>7. /\ M \in Seq(Entry) /\ Len(M) = K + Len(new)
        /\ \A k \in 1 .. K + Len(new) : M[k] = IF k <= K THEN head[k] ELSE new[k - K]
    <2> HIDE DEF head, new
    <2>0. head \in Seq(Entry) /\ new \in Seq(Entry)
      BY <1>5, <1>6
    <2>1. /\ M \in Seq(Entry) /\ Len(M) = Len(head) + Len(new)
          /\ \A k \in 1 .. Len(head) + Len(new) :
               M[k] = IF k <= Len(head) THEN head[k] ELSE new[k - Len(head)]
      BY <2>0, ConcatProperties
    <2> QED BY <1>5, <2>1
  <1>8. MergedDb(i, m) = M
    <2>1. DeleteKeys(db_log[i], ConflictKeys(i, m)) = head
      <3>1. DOMAIN L = 1 .. Len(L)
        BY <1>1, LenProperties
      <3>2. (1 .. Len(L)) \ ConflictKeys(i, m) = 1 .. K
        <4>1. CASE K = Len(L)
          BY <1>3, <4>1 DEF ConflictKeys, K
        <4>2. CASE K < Len(L)
          <5>1. ConflictKeys(i, m) = RunFrom(L, 0 + K + 1)
            BY <4>2 DEF ConflictKeys, K
          <5>2. \A j \in 1 .. Len(L) : j \in RunFrom(L, 0 + K + 1) <=> K + 1 <= j
            BY <1>3, <3>1 DEF RunFrom
          <5> QED BY <1>3, <4>2, <5>1, <5>2
        <4> QED BY <1>2, <1>3, <4>1, <4>2
      <3>3. DeleteKeys(L, ConflictKeys(i, m)) = [k \in 1 .. K |-> L[k]]
        BY <3>1, <3>2 DEF DeleteKeys
      <3>4. head = [k \in 1 .. K |-> head[k]]
        <4> HIDE DEF head
        <4> QED BY <1>5, SeqAsFunction
      <3>5. [k \in 1 .. K |-> head[k]] = [k \in 1 .. K |-> L[k]]
        <4> HIDE DEF head
        <4> QED BY <1>5
      <3> QED BY <3>3, <3>4, <3>5
    <2>2. 0 + K + 1 = Len(head) + 1
      <3> HIDE DEF head
      <3> QED BY <1>3, <1>5
    <2>3. MergedDb(i, m) = SaveEntries(head, Len(head) + 1, new)
      BY <1>4, <2>1, <2>2 DEF MergedDb, K
    <2>4. SaveEntries(head, Len(head) + 1, new) = head \o new
      <3> HIDE DEF head, new
      <3> QED BY <1>5, <1>6, SaveIsAppend
    <2> QED BY <2>3, <2>4
  <1> HIDE DEF M, head, new, p, n, L, es
  <1>9. Len(M) = IF n > K THEN n ELSE K
    BY <1>3, <1>6, <1>7
  <1>10. \A k \in 1 .. K : M[k] = L[k]
    BY <1>3, <1>5, <1>6, <1>7
  <1>11. \A k \in (K + 1) .. n : M[k] = es[k - p]
    <2> SUFFICES ASSUME NEW k \in (K + 1) .. n PROVE M[k] = es[k - p]
      OBVIOUS
    <2>1. k - K \in 1 .. (n - K) /\ K - p + (k - K) = k - p /\ ~(k <= K) /\ k \in 1 .. K + Len(new)
      BY <1>1, <1>3, <1>6
    <2>2. M[k] = new[k - K]
      BY <1>7, <2>1
    <2>3. new[k - K] = es[K - p + (k - K)]
      BY <1>6, <2>1
    <2> QED BY <2>1, <2>2, <2>3
  <1> QED BY <1>4, <1>7, <1>8, <1>9, <1>10, <1>11 DEF K, L, es, n, p

-----------------------------------------------------------------------------
(* One lemma per kind of step: it keeps PlainInv and it is a PlainStep.     *)

LEMMA PlainFacts ==
    ASSUME PlainInv, NothingCompacted, NEW i \in Server
    PROVE  /\ last_included_index[i] = 0 /\ last_included_term[i] = 0
           /\ log[i] \in Seq(Entry) /\ Len(log[i]) \in Nat /\ db_log[i] = log[i]
           /\ LastIndex(i) = Len(log[i])
           /\ \A k \in 1 .. Len(log[i]) : TermAt(i, k) = log[i][k].term /\ log[i][k].term \in Nat
           /\ TermAt(i, 0) = 0
           /\ LastTerm(i) = LastTermOf(log[i]) /\ LastTermOf(log[i]) \in Nat
  <1>1. /\ last_included_index[i] = 0 /\ last_included_term[i] = 0
        /\ log[i] \in Seq(Entry) /\ Len(log[i]) \in Nat /\ db_log[i] = log[i]
    BY DEF PlainInv, NothingCompacted
  <1>2. LastIndex(i) = Len(log[i])
    BY <1>1 DEF LastIndex
  <1>3. \A k \in 1 .. Len(log[i]) : TermAt(i, k) = log[i][k].term /\ log[i][k].term \in Nat
    <2> SUFFICES ASSUME NEW k \in 1 .. Len(log[i])
                 PROVE  TermAt(i, k) = log[i][k].term /\ log[i][k].term \in Nat
      OBVIOUS
    <2>1. log[i][k] \in Entry
      BY <1>1, ElementOfSeq
    <2>2. k # 0 /\ k - 0 = k
      BY <1>1
    <2> QED BY <1>1, <2>1, <2>2 DEF TermAt, Entry
  <1>4. TermAt(i, 0) = 0
    BY <1>1 DEF TermAt
  <1>5. LastTerm(i) = LastTermOf(log[i]) /\ LastTermOf(log[i]) \in Nat
    <2>1. CASE log[i] = <<>>
      <3>1. Len(log[i]) = 0
        BY <2>1, EmptySeq
      <3>2. LastTerm(i) = 0
        BY <1>2, <1>4, <3>1 DEF LastTerm
      <3> QED BY <2>1, <3>2 DEF LastTermOf
    <2>2. CASE log[i] # <<>>
      <3>1. Len(log[i]) \in 1 .. Len(log[i])
        BY <1>1, <2>2, EmptySeq
      <3>2. LastTerm(i) = TermAt(i, Len(log[i]))
        BY <1>2 DEF LastTerm
      <3>3. LastTermOf(log[i]) = log[i][Len(log[i])].term
        BY <2>2 DEF LastTermOf
      <3> QED BY <1>3, <3>1, <3>2, <3>3
    <2> QED BY <2>1, <2>2
  <1> QED BY <1>1, <1>2, <1>3, <1>4, <1>5

\* A tick compacts nothing.
LEMMA NoCompaction ==
    ASSUME NothingCompacted, NothingCompacted', NEW i \in Server, NEW L, NEW D,
           NEW a \in Nat, NEW state, Compact(i, L, D, a, state)
    PROVE  /\ log' = [log EXCEPT ![i] = L] /\ db_log' = [db_log EXCEPT ![i] = D]
           /\ UNCHANGED <<last_included_term, snapshot_data>>
  <1>1. ~NeedsSnapshot(i, L, a)
    <2> SUFFICES ASSUME NeedsSnapshot(i, L, a) PROVE FALSE
      OBVIOUS
    <2>1. last_included_index' = [last_included_index EXCEPT ![i] = a]
      BY DEF Compact
    <2>2. a > 0
      BY DEF NeedsSnapshot, NothingCompacted
    <2>3. last_included_index'[i] = a
      BY <2>1 DEF NothingCompacted
    <2>4. last_included_index'[i] = 0
      BY DEF NothingCompacted
    <2> QED BY <2>2, <2>3, <2>4
  <1> QED BY <1>1 DEF Compact

LEMMA SameLog ==
    ASSUME PlainInv, NEW i \in Server
    PROVE  [log EXCEPT ![i] = log[i]] = log
  BY DEF PlainInv

LEMMA KeptStep ==
    ASSUME ElectionTypeOK,
           UNCHANGED <<log, elected>>,
           \A x \in Server : role'[x] = Candidate =>
             role[x] = Candidate /\ current_term'[x] = current_term[x] /\ voters'[x] = voters[x],
           \A x \in Server : role'[x] = Leader => role[x] = Leader /\ current_term'[x] = current_term[x],
           vote_requests' \subseteq vote_requests, vote_replies' \subseteq vote_replies,
           \A m \in append_requests' : m \in append_requests \/
             \E i \in Server : role[i] = Leader /\ Carries(m, i, log[i])
    PROVE  LogKept /\ VoteMsgsTrue /\ CountsTrue
  <1>1. LogKept
    BY DEF LogKept
  <1>2. CountsTrue
    BY DEF CountsTrue, Counted
  <1> QED BY <1>1, <1>2 DEF VoteMsgsTrue

\* What send_heartbeats of a leader with log L adds to the network.
LEMMA HeartbeatsCarry ==
    ASSUME ElectionTypeOK, PlainInv, NothingCompacted, NEW i \in Server, NEW L \in Seq(Entry),
           SendHeartbeats(i, L, commit_index[i])
    PROVE  /\ snap_requests' = {} /\ snap_replies' = {}
           /\ UNCHANGED <<match_index, append_replies>>
           /\ append_requests' \subseteq AppendRequest
           /\ \A m \in append_requests' : m \in append_requests \/ Carries(m, i, L)
           /\ next_index' \in [Server -> [Server -> Nat \ {0}]]
           /\ \A x, y \in Server : next_index'[x][y] <= next_index[x][y]
  <1> DEFINE last == last_included_index[i] + Len(L)
             behind == {j \in Peers(i) : next_index[i][j] <= last_included_index[i]}
             beyond == {j \in Peers(i) : next_index[i][j] > last + 1}
  <1>1. /\ last_included_index[i] = 0 /\ last_included_term[i] = 0 /\ Len(L) \in Nat
        /\ last = Len(L)
        /\ \A x, y \in Server : next_index[x][y] \in Nat /\ next_index[x][y] # 0
    BY DEF PlainInv, NothingCompacted
  <1>2. behind = {}
    BY <1>1 DEF Peers
  <1>3. /\ UNCHANGED <<match_index, snap_replies, append_replies>>
        /\ snap_requests' = snap_requests \cup {SnapshotArgs(i, j) : j \in behind}
        /\ append_requests' = append_requests \cup
             {AppendArgs(i, j, L, commit_index[i]) : j \in Peers(i) \ (behind \cup beyond)}
        /\ next_index' = [next_index EXCEPT ![i] =
             [j \in Server |-> IF j \in beyond THEN last + 1 ELSE @[j]]]
    BY DEF SendHeartbeats
  <1>4. snap_requests' = {} /\ snap_replies' = {}
    BY <1>2, <1>3 DEF PlainInv
  <1>5. ASSUME NEW j \in Peers(i) \ beyond
        PROVE  /\ AppendArgs(i, j, L, commit_index[i]) \in AppendRequest
               /\ Carries(AppendArgs(i, j, L, commit_index[i]), i, L)
    <2> DEFINE m == AppendArgs(i, j, L, commit_index[i])
               prev == next_index[i][j] - 1
    <2>1. j \in Server /\ prev \in Nat /\ prev <= Len(L) /\ prev - 0 = prev
      BY <1>1 DEF Peers
    <2>2. prev > 0 => L[prev] \in Entry
      BY <1>1, <2>1, ElementOfSeq
    <2>3. SubSeq(L, prev + 1, Len(L)) \in Seq(Entry)
      <3>1. \A k \in prev + 1 .. Len(L) : L[k] \in Entry
        BY <1>1, <2>1, ElementOfSeq
      <3> QED BY <1>1, <2>1, <3>1, SubSeqProperties
    <2>4. /\ m.term = current_term[i] /\ m.leader_id = i /\ m.prev_log_index = prev /\ m.dest = j
          /\ m.leader_commit = commit_index[i]
          /\ m = [term |-> m.term, leader_id |-> m.leader_id, prev_log_index |-> m.prev_log_index,
                  prev_log_term |-> m.prev_log_term, entries |-> m.entries,
                  leader_commit |-> m.leader_commit, dest |-> m.dest]
      BY DEF AppendArgs
    <2>5. m.entries = SubSeq(L, prev + 1, Len(L))
      BY <1>1, <2>1 DEF AppendArgs
    <2>6. m.prev_log_term = IF prev = 0 THEN 0 ELSE L[prev].term
      BY <1>1, <2>1 DEF AppendArgs
    <2>7. m.prev_log_term \in Nat
      <3>1. \A e \in Entry : e.term \in Nat
        BY DEF Entry
      <3> HIDE DEF m, prev
      <3> QED BY <2>1, <2>2, <2>6, <3>1
    <2>8. commit_index[i] \in Nat /\ current_term[i] \in Nat
      BY DEF PlainInv, ElectionTypeOK
    <2> HIDE DEF m
    <2>9. m \in AppendRequest
      BY <2>1, <2>3, <2>4, <2>5, <2>7, <2>8 DEF AppendRequest
    <2>10. Carries(m, i, L)
      BY <2>1, <2>4, <2>5, <2>6 DEF Carries
    <2> QED BY <2>9, <2>10 DEF m
  <1>6. /\ next_index' \in [Server -> [Server -> Nat \ {0}]]
        /\ \A x, y \in Server : next_index'[x][y] <= next_index[x][y]
    <2>1. /\ \A x \in Server : x # i => next_index'[x] = next_index[x]
          /\ next_index'[i] = [j \in Server |-> IF j \in beyond THEN last + 1 ELSE next_index[i][j]]
          /\ next_index' = [x \in Server |-> next_index'[x]]
      BY <1>3 DEF PlainInv
    <2>2. last + 1 \in Nat \ {0} /\ \A j \in beyond : last + 1 <= next_index[i][j]
      BY <1>1 DEF Peers
    <2> HIDE DEF last, beyond
    <2>3. \A x, y \in Server : next_index'[x][y] \in Nat \ {0} /\ next_index'[x][y] <= next_index[x][y]
      BY <1>1, <2>1, <2>2
    <2>4. \A x \in Server : next_index'[x] = [y \in Server |-> next_index'[x][y]]
      BY <2>1 DEF PlainInv
    <2> QED BY <2>1, <2>3, <2>4
  <1> HIDE DEF beyond, behind
  <1>7. append_requests' \subseteq AppendRequest
    BY <1>2, <1>3, <1>5 DEF PlainInv
  <1>8. \A m \in append_requests' : m \in append_requests \/ Carries(m, i, L)
    BY <1>2, <1>3, <1>5
  <1> QED BY <1>3, <1>4, <1>6, <1>7, <1>8

\* Ticks and reads that append nothing.
LEMMA TickStep ==
    ASSUME ElectionTypeOK, PlainInv, NothingCompacted, NothingCompacted', NEW i \in Server,
           QuietTick(i) \/ LeaderTick(i) \/ GetReadIndex(i)
    PROVE  PlainInv' /\ PlainStep
  <1>1. UNCHANGED <<current_term, role, voters, elected, vote_requests, vote_replies, commit_index,
                    last_applied>>
    BY DEF QuietTick, LeaderTick, GetReadIndex, ServeReads, termVars, voteMsgs, ghostVars, applyVars
  <1>2. UNCHANGED <<log, db_log, last_included_term, snapshot_data>>
    <2>1. CASE QuietTick(i) \/ LeaderTick(i)
      <3>1. Compact(i, log[i], db_log[i], last_applied[i], app_state[i])
        BY <2>1 DEF QuietTick, LeaderTick
      <3>2. last_applied[i] \in Nat
        BY DEF PlainInv
      <3>3. /\ log' = [log EXCEPT ![i] = log[i]] /\ db_log' = [db_log EXCEPT ![i] = db_log[i]]
            /\ UNCHANGED <<last_included_term, snapshot_data>>
        BY <3>1, <3>2, NoCompaction
      <3> QED BY <3>3 DEF PlainInv
    <2>2. CASE GetReadIndex(i)
      BY <2>2 DEF GetReadIndex, diskVars
    <2> QED BY <2>1, <2>2
  <1>3. \/ QuietTick(i) /\ UNCHANGED <<append_requests, append_replies, snap_requests, snap_replies,
                                         next_index, match_index>>
        \/ role[i] = Leader /\ SendHeartbeats(i, log[i], commit_index[i])
    BY DEF QuietTick, LeaderTick, GetReadIndex, appendMsgs, snapMsgs, leaderVars
  <1>4. /\ snap_requests' = {} /\ snap_replies' = {}
        /\ UNCHANGED <<match_index, append_replies>>
        /\ append_requests' \subseteq AppendRequest
        /\ \A m \in append_requests' : m \in append_requests \/
             (role[i] = Leader /\ Carries(m, i, log[i]))
        /\ next_index' \in [Server -> [Server -> Nat \ {0}]]
        /\ \A x, y \in Server : next_index'[x][y] <= next_index[x][y]
    <2>1. CASE QuietTick(i) /\ UNCHANGED <<append_requests, append_replies, snap_requests,
                                          snap_replies, next_index, match_index>>
      BY <2>1 DEF PlainInv
    <2>2. CASE role[i] = Leader /\ SendHeartbeats(i, log[i], commit_index[i])
      <3>1. log[i] \in Seq(Entry)
        BY DEF PlainInv
      <3> QED BY <2>2, <3>1, HeartbeatsCarry
    <2> QED BY <1>3, <2>1, <2>2
  <1>5. PlainInv'
    BY <1>1, <1>2, <1>4 DEF PlainInv
  <1>6. LogKept /\ VoteMsgsTrue /\ CountsTrue
    BY <1>1, <1>2, <1>4, KeptStep
  <1>7. AcksTrue /\ PeersTrue
    BY <1>1, <1>4 DEF AcksTrue, PeersTrue
  <1> QED BY <1>5, <1>6, <1>7 DEF PlainStep, LogStep

LEMMA TimeoutStep ==
    ASSUME ElectionTypeOK, PlainInv, NothingCompacted, NothingCompacted', NEW i \in Server,
           NoVoteAhead, ElectionTimeout(i)
    PROVE  PlainInv' /\ PlainStep
  <1> DEFINE req(j) == [term |-> current_term[i] + 1, candidate_id |-> i,
                        last_log_index |-> LastIndex(i), last_log_term |-> LastTerm(i), dest |-> j]
  <1>1. /\ current_term' = [current_term EXCEPT ![i] = @ + 1]
        /\ role' = [role EXCEPT ![i] = Candidate]
        /\ voters' = [voters EXCEPT ![i] = {i}]
        /\ vote_requests' = vote_requests \cup {req(j) : j \in Peers(i)}
        /\ UNCHANGED <<elected, vote_replies, append_requests, append_replies, snap_requests,
                       snap_replies, next_index, match_index, commit_index, last_applied>>
    BY DEF ElectionTimeout, appendMsgs, snapMsgs, ghostVars, leaderVars, applyVars
  <1>2. UNCHANGED <<log, db_log, last_included_term, snapshot_data>>
    <2>1. Compact(i, log[i], db_log[i], last_applied[i], app_state[i]) /\ last_applied[i] \in Nat
      BY DEF ElectionTimeout, PlainInv
    <2>2. /\ log' = [log EXCEPT ![i] = log[i]] /\ db_log' = [db_log EXCEPT ![i] = db_log[i]]
          /\ UNCHANGED <<last_included_term, snapshot_data>>
      BY <2>1, NoCompaction
    <2> QED BY <2>2 DEF PlainInv
  <1>3. LastIndex(i) = Len(log[i]) /\ LastTerm(i) = LastTermOf(log[i])
        /\ LastIndex(i) \in Nat /\ LastTerm(i) \in Nat
    BY PlainFacts
  <1>4. current_term[i] + 1 \in Nat /\ current_term'[i] = current_term[i] + 1
        /\ current_term'[i] > current_term[i]
    BY <1>1 DEF ElectionTypeOK
  <1>5. vote_requests' \subseteq VoteRequest
    BY <1>1, <1>3, <1>4 DEF PlainInv, VoteRequest, Peers
  <1>6. PlainInv'
    BY <1>1, <1>2, <1>5 DEF PlainInv
  <1>7. VoteMsgsTrue
    <2>1. \A j \in Peers(i) : req(j).candidate_id = i /\ req(j).term = current_term'[i]
            /\ req(j).last_log_index = Len(log'[i]) /\ req(j).last_log_term = LastTermOf(log'[i])
      BY <1>2, <1>3, <1>4
    <2> HIDE DEF req
    <2> QED BY <1>1, <2>1 DEF VoteMsgsTrue
  <1>8. \A x \in Server : x # i =>
          role'[x] = role[x] /\ current_term'[x] = current_term[x] /\ voters'[x] = voters[x]
    BY <1>1 DEF ElectionTypeOK
  <1>9. role'[i] = Candidate /\ voters'[i] = {i}
    BY <1>1 DEF ElectionTypeOK
  <1>10. LogKept
    BY <1>1, <1>2, <1>4, <1>8, <1>9 DEF LogKept, Leader, Candidate
  <1>11. CountsTrue
    <2> SUFFICES ASSUME NEW x \in Server, NEW v \in Server, role'[x] = Candidate, Counted(v, x)',
                        v # x
                 PROVE  role[x] = Candidate /\ current_term'[x] = current_term[x] /\ Counted(v, x)
      BY DEF CountsTrue
    <2>1. CASE x # i
      BY <1>1, <1>8, <2>1 DEF Counted
    <2>2. CASE x = i
      <3>1. PICK m \in vote_replies : /\ m.vote_granted /\ m.peer_id = v /\ m.dest = i
                                      /\ m.term = current_term'[i]
        BY <1>1, <1>9, <2>2 DEF Counted
      <3>2. m.term <= current_term[i]
        BY <3>1 DEF NoVoteAhead
      <3> QED BY <1>4, <3>1, <3>2 DEF ElectionTypeOK
    <2> QED BY <2>1, <2>2
  <1>12. AcksTrue
    BY <1>1 DEF AcksTrue
  <1>13. PeersTrue
    <2>1. \A x, y \in Server : next_index[x][y] <= next_index[x][y]
      BY DEF PlainInv
    <2> QED BY <1>1, <1>8, <1>9, <2>1 DEF PeersTrue, Leader, Candidate
  <1> QED BY <1>6, <1>7, <1>10, <1>11, <1>12, <1>13 DEF PlainStep, LogStep

\* save_log_entries_batch leaves in the database what the log gains.
LEMMA GrowthSaved ==
    ASSUME PlainInv, NothingCompacted, NEW i \in Server, NEW es \in Seq(Entry),
           log' = [log EXCEPT ![i] = @ \o es],
           db_log' = [db_log EXCEPT ![i] = SaveEntries(db_log[i], LastIndex(i) + 1, es)]
    PROVE  /\ db_log' = log' /\ log' \in [Server -> Seq(Entry)]
           /\ log'[i] = log[i] \o es /\ Len(log'[i]) = Len(log[i]) + Len(es)
  <1>1. SaveEntries(db_log[i], LastIndex(i) + 1, es) = log[i] \o es
    BY PlainFacts, SaveIsAppend
  <1>2. log[i] \o es \in Seq(Entry) /\ Len(log[i] \o es) = Len(log[i]) + Len(es)
    BY PlainFacts, ConcatProperties
  <1>3. log'[i] = log[i] \o es
    BY DEF PlainInv
  <1> QED BY <1>1, <1>2, <1>3 DEF PlainInv

\* The state of a new leader: it grows its log by the NoOp of its term.
LEMMA NewLeaderStep ==
    ASSUME ElectionTypeOK, PlainInv, NothingCompacted, NEW i \in Server, NEW t \in Nat,
           BecomeLeader(i, t), log' = [log EXCEPT ![i] = LogWithNoOp(i, t)],
           db_log' = [db_log EXCEPT ![i] =
             SaveEntries(db_log[i], LastIndex(i) + 1, <<[term |-> t, command |-> NoOp]>>)],
           t = current_term'[i], UNCHANGED <<append_requests, append_replies>>,
           \/ role[i] = Candidate /\ current_term' = current_term
           \/ role[i] # Leader /\ current_term' = [current_term EXCEPT ![i] = @ + 1],
           \A v \in voters'[i] : v = i \/
             (role[i] = Candidate /\ current_term' = current_term /\ Counted(v, i))
    PROVE  /\ db_log' = log' /\ log' \in [Server -> Seq(Entry)]
           /\ next_index' \in [Server -> [Server -> Nat \ {0}]]
           /\ match_index' \in [Server -> [Server -> Nat]]
           /\ LogStep /\ AcksTrue /\ PeersTrue
  <1> DEFINE e == [term |-> t, command |-> NoOp]
  <1>1. e \in Entry /\ e.term = t
    BY DEF Entry
  <1> HIDE DEF e
  <1>2. <<e>> \in Seq(Entry) /\ <<e>> # <<>> /\ Len(<<e>>) = 1 /\ <<e>>[1] = e
    BY <1>1
  <1>3. LogWithNoOp(i, t) = log[i] \o <<e>>
    BY <1>1, PlainFacts, AppendIsConcat DEF LogWithNoOp, e
  <1>4. log' = [log EXCEPT ![i] = @ \o <<e>>]
    BY <1>3
  <1>5. /\ db_log' = log' /\ log' \in [Server -> Seq(Entry)]
        /\ Len(log'[i]) = Len(log[i]) + 1
    BY <1>2, <1>4, GrowthSaved DEF e
  <1>6. /\ role' = [role EXCEPT ![i] = Leader]
        /\ elected' = elected \cup {[term |-> t, leader |-> i, voters |-> voters'[i]]}
        /\ next_index' = [next_index EXCEPT ![i] = [j \in Server |-> LastIndex(i) + 2]]
        /\ match_index' = [match_index EXCEPT ![i] = [j \in Server |-> last_included_index[i]]]
    BY DEF BecomeLeader
  <1>7. /\ LastIndex(i) + 2 = Len(log'[i]) + 1 /\ LastIndex(i) + 2 \in Nat \ {0}
        /\ last_included_index[i] = 0
    BY <1>5, PlainFacts
  <1>8. /\ next_index' \in [Server -> [Server -> Nat \ {0}]]
        /\ match_index' \in [Server -> [Server -> Nat]]
    BY <1>6, <1>7 DEF PlainInv
  <1>9. Leads(i)
    BY <1>6 DEF Leads
  <1>10. Grows(i, <<e>>)
    <2>1. \A k \in 1 .. Len(<<e>>) : <<e>>[k].term = current_term'[i]
      BY <1>1, <1>2
    <2>2. \A m \in append_requests' : m \in append_requests
      OBVIOUS
    <2> QED BY <1>2, <1>4, <1>6, <1>9, <2>1, <2>2 DEF Grows
  <1>11. PeersTrue
    <2> SUFFICES ASSUME NEW x \in Server, NEW j \in Server, role'[x] = Leader
                 PROVE  \/ /\ role[x] = Leader /\ match_index'[x][j] = match_index[x][j]
                           /\ next_index'[x][j] <= next_index[x][j]
                        \/ match_index'[x][j] = 0 /\ next_index'[x][j] = Len(log'[x]) + 1
      BY DEF PeersTrue
    <2>1. CASE x = i
      BY <1>6, <1>7, <2>1 DEF PlainInv
    <2>2. CASE x # i
      <3>1. role[x] = Leader /\ match_index'[x] = match_index[x] /\ next_index'[x] = next_index[x]
        BY <1>6, <2>2 DEF PlainInv, ElectionTypeOK
      <3>2. next_index[x][j] \in Nat
        BY DEF PlainInv
      <3> QED BY <3>1, <3>2
    <2> QED BY <2>1, <2>2
  <1>12. AcksTrue
    BY DEF AcksTrue
  <1> QED BY <1>2, <1>5, <1>8, <1>10, <1>11, <1>12 DEF LogStep

LEMMA SoleStep ==
    ASSUME ElectionTypeOK, PlainInv, NothingCompacted, NothingCompacted', NEW i \in Server,
           SoleMemberElection(i)
    PROVE  PlainInv' /\ PlainStep
  <1> DEFINE t == current_term[i] + 1
             L == LogWithNoOp(i, t)
             e == [term |-> t, command |-> NoOp]
  <1>1. /\ current_term' = [current_term EXCEPT ![i] = t]
        /\ role[i] \in {Follower, Candidate}
        /\ voters' = [voters EXCEPT ![i] = {i}]
        /\ Peers(i) = {}
        /\ BecomeLeader(i, t)
        /\ ApplyLogs(i, L, SoleCommit(i))
        /\ UNCHANGED <<vote_requests, vote_replies, append_requests, append_replies, snap_requests,
                       snap_replies>>
    BY DEF SoleMemberElection, voteMsgs, appendMsgs, snapMsgs
  <1>2. t \in Nat /\ t = current_term'[i] /\ voters'[i] = {i} /\ role[i] # Leader
    BY <1>1 DEF ElectionTypeOK, Follower, Candidate, Leader
  <1>3. SoleCommit(i) \in Nat
    BY PlainFacts DEF SoleCommit
  <1>4. L[Len(L)] = e
    <2>1. L = Append(log[i], e) /\ log[i] \in Seq(Entry)
      BY PlainFacts DEF LogWithNoOp
    <2>2. e \in Entry
      BY <1>2 DEF Entry
    <2> HIDE DEF e, L
    <2> QED BY <2>1, <2>2, AppendProperties
  <1>5. /\ log' = [log EXCEPT ![i] = L]
        /\ db_log' = [db_log EXCEPT ![i] = SaveEntries(db_log[i], LastIndex(i) + 1, <<e>>)]
        /\ UNCHANGED <<last_included_term, snapshot_data>>
    <2> DEFINE D == SaveEntries(db_log[i], LastIndex(i) + 1, <<L[Len(L)]>>)
    <2>1. Compact(i, L, D, SoleCommit(i), app_state'[i])
      BY DEF SoleMemberElection
    <2> HIDE DEF L, e, D
    <2>2. /\ log' = [log EXCEPT ![i] = L] /\ db_log' = [db_log EXCEPT ![i] = D]
          /\ UNCHANGED <<last_included_term, snapshot_data>>
      BY <1>3, <2>1, NoCompaction
    <2> QED BY <1>4, <2>2 DEF D
  <1>6. /\ commit_index' \in [Server -> Nat] /\ last_applied' = commit_index'
    BY <1>1, <1>3 DEF ApplyLogs, PlainInv
  <1>7. current_term' = [current_term EXCEPT ![i] = @ + 1]
    BY <1>1
  <1>8. /\ db_log' = log' /\ log' \in [Server -> Seq(Entry)]
        /\ next_index' \in [Server -> [Server -> Nat \ {0}]]
        /\ match_index' \in [Server -> [Server -> Nat]]
        /\ LogStep /\ AcksTrue /\ PeersTrue
    <2>1. \A v \in voters'[i] : v = i
      BY <1>2
    <2> HIDE DEF t
    <2> QED BY <1>1, <1>2, <1>5, <1>7, <2>1, NewLeaderStep
  <1>9. PlainInv'
    BY <1>1, <1>5, <1>6, <1>8 DEF PlainInv
  <1>10. VoteMsgsTrue
    BY <1>1 DEF VoteMsgsTrue
  <1>11. CountsTrue
    <2>1. Server = {i}
      BY <1>1 DEF Peers
    <2> QED BY <2>1 DEF CountsTrue
  <1> QED BY <1>8, <1>9, <1>10, <1>11 DEF PlainStep

LEMMA BatchFacts ==
    ASSUME NEW t \in Nat, NEW b \in Batches
    PROVE  LET es == [k \in 1 .. Len(b) |-> [term |-> t, command |-> b[k]]]
           IN  /\ Len(b) \in Nat \ {0} /\ es \in Seq(Entry) /\ es # <<>> /\ Len(es) = Len(b)
               /\ \A k \in 1 .. Len(b) : es[k].term = t /\ es[k].command = b[k] /\ b[k] \in Command
  <1>1. PICK n \in 1 .. MaxBatch : b \in [1 .. n -> Command \ issued]
    BY DEF Batches
  <1>2. n \in Nat \ {0}
    BY <1>1, BoundAssumption
  <1>3. Len(b) = n
    BY <1>1, <1>2, FunctionIsSeq
  <1> DEFINE es == [k \in 1 .. Len(b) |-> [term |-> t, command |-> b[k]]]
  <1>4. es \in [1 .. n -> Entry]
    BY <1>1, <1>3 DEF Entry
  <1>5. \A k \in 1 .. Len(b) : es[k].term = t /\ es[k].command = b[k] /\ b[k] \in Command
    BY <1>1, <1>3
  <1> HIDE DEF es
  <1>6. es \in Seq(Entry) /\ Len(es) = n
    BY <1>2, <1>4, FunctionIsSeq
  <1>7. es # <<>>
    BY <1>2, <1>6, EmptySeq
  <1> QED BY <1>2, <1>3, <1>5, <1>6, <1>7 DEF es

LEMMA ClientStep ==
    ASSUME ElectionTypeOK, PlainInv, NothingCompacted, NothingCompacted', NEW i \in Server,
           NEW b \in Batches, ClientRequest(i, b)
    PROVE  PlainInv' /\ PlainStep
  <1> DEFINE es == [k \in 1 .. Len(b) |-> [term |-> current_term[i], command |-> b[k]]]
             last == LastIndex(i) + Len(b)
  <1>1. /\ Len(b) \in Nat \ {0} /\ es \in Seq(Entry) /\ es # <<>> /\ Len(es) = Len(b)
        /\ \A k \in 1 .. Len(b) : es[k].term = current_term[i]
    BY BatchFacts DEF ElectionTypeOK
  <1>2. /\ role[i] = Leader
        /\ log' = [log EXCEPT ![i] = log[i] \o es]
        /\ db_log' = [db_log EXCEPT ![i] = SaveEntries(db_log[i], LastIndex(i) + 1, es)]
        /\ UNCHANGED <<current_term, role, last_included_term, snapshot_data, voters, elected,
                       vote_requests, vote_replies>>
    BY DEF ClientRequest, termVars, voteMsgs
  <1>3. \/ ApplyLogs(i, log[i] \o es, last) /\ UNCHANGED <<appendMsgs, snapMsgs, leaderVars>>
        \/ SendHeartbeats(i, log[i] \o es, commit_index[i]) /\ UNCHANGED applyVars
    BY DEF ClientRequest
  <1> HIDE DEF es
  <1>4. /\ db_log' = log' /\ log' \in [Server -> Seq(Entry)]
        /\ log'[i] = log[i] \o es /\ Len(log'[i]) = Len(log[i]) + Len(es)
    BY <1>1, <1>2, GrowthSaved
  <1>5. last \in Nat
    BY <1>1, PlainFacts
  <1>6. /\ snap_requests' = {} /\ snap_replies' = {}
        /\ UNCHANGED <<match_index, append_replies>>
        /\ append_requests' \subseteq AppendRequest
        /\ \A m \in append_requests' : m \in append_requests \/ Carries(m, i, log'[i])
        /\ next_index' \in [Server -> [Server -> Nat \ {0}]]
        /\ \A x, y \in Server : next_index'[x][y] <= next_index[x][y]
        /\ commit_index' \in [Server -> Nat] /\ last_applied' = commit_index'
    <2>1. CASE ApplyLogs(i, log[i] \o es, last) /\ UNCHANGED <<appendMsgs, snapMsgs, leaderVars>>
      <3>1. /\ UNCHANGED <<append_requests, append_replies, snap_requests, snap_replies, next_index,
                           match_index>>
            /\ commit_index' = [commit_index EXCEPT ![i] = last]
            /\ last_applied' = [last_applied EXCEPT ![i] = last]
        BY <2>1 DEF ApplyLogs, appendMsgs, snapMsgs, leaderVars
      <3> HIDE DEF last
      <3> QED BY <1>5, <3>1 DEF PlainInv
    <2>2. CASE SendHeartbeats(i, log[i] \o es, commit_index[i]) /\ UNCHANGED applyVars
      <3>1. log'[i] \in Seq(Entry)
        BY <1>4
      <3>2. SendHeartbeats(i, log'[i], commit_index[i])
        BY <1>4, <2>2
      <3>3. commit_index' \in [Server -> Nat] /\ last_applied' = commit_index'
        BY <2>2 DEF applyVars, PlainInv
      <3> QED BY <3>1, <3>2, <3>3, HeartbeatsCarry
    <2> QED BY <1>3, <2>1, <2>2
  <1>7. PlainInv'
    BY <1>2, <1>4, <1>6 DEF PlainInv
  <1>8. Grows(i, es)
    <2>1. role' = [role EXCEPT ![i] = Leader]
      BY <1>2 DEF ElectionTypeOK
    <2>2. Leads(i)
      BY <1>2 DEF Leads
    <2> QED BY <1>1, <1>2, <1>6, <2>1, <2>2 DEF Grows
  <1>9. VoteMsgsTrue /\ AcksTrue /\ PeersTrue
    BY <1>2, <1>6 DEF VoteMsgsTrue, AcksTrue, PeersTrue
  <1>10. CountsTrue
    BY <1>2 DEF CountsTrue, Counted
  <1> QED BY <1>1, <1>7, <1>8, <1>9, <1>10 DEF PlainStep, LogStep

LEMMA GrantStep ==
    ASSUME ElectionTypeOK, PlainInv, NothingCompacted, NEW m \in vote_requests, NEW lost \in BOOLEAN,
           HandleRequestVote(m, lost)
    PROVE  PlainInv' /\ PlainStep
  <1> DEFINE i == m.dest
             grants == GrantsVote(i, m)
             r == [term |-> current_term'[i], vote_granted |-> grants, peer_id |-> i,
                   dest |-> m.candidate_id]
  <1>1. i \in Server /\ m.term \in Nat /\ m.candidate_id \in Server /\ m \in VoteRequest
    BY DEF ElectionTypeOK, PlainInv
  <1>2. /\ current_term' = [current_term EXCEPT ![i] = IF m.term > @ THEN m.term ELSE @]
        /\ role' = [role EXCEPT ![i] = IF m.term > current_term[i] THEN Follower ELSE @]
        /\ UNCHANGED <<voters, elected, append_requests, append_replies, snap_requests,
                       snap_replies, next_index, match_index, commit_index, last_applied, log,
                       db_log, last_included_term, snapshot_data>>
    BY <1>1 DEF HandleRequestVote, StepDown, ElectionTypeOK, ghostVars, appendMsgs, snapMsgs,
                diskVars, applyVars, leaderVars
  <1>3. vote_requests' \subseteq vote_requests /\ vote_replies' \subseteq vote_replies \cup {r}
    BY DEF HandleRequestVote, Consume, Answer
  <1>4. grants \in BOOLEAN /\ current_term'[i] \in Nat /\ (grants => current_term'[i] = m.term)
    BY <1>1, <1>2 DEF GrantsVote, ElectionTypeOK
  <1>5. r \in VoteReply /\ r.vote_granted = grants /\ r.peer_id = i /\ r.dest = m.candidate_id
        /\ r.term = current_term'[i]
    BY <1>1, <1>4 DEF VoteReply
  <1>6. grants => \/ m.last_log_term > LastTermOf(log[i])
                  \/ m.last_log_term = LastTermOf(log[i]) /\ m.last_log_index >= Len(log[i])
    <2>1. LastIndex(i) = Len(log[i]) /\ LastTerm(i) = LastTermOf(log[i])
      BY <1>1, PlainFacts
    <2> QED BY <2>1 DEF GrantsVote, UpToDate
  <1> HIDE DEF r, grants
  <1>7. PlainInv'
    BY <1>2, <1>3, <1>5 DEF PlainInv
  <1>8. LogKept
    BY <1>1, <1>2 DEF LogKept, ElectionTypeOK, Follower, Candidate, Leader
  <1>9. VoteMsgsTrue
    BY <1>3, <1>4, <1>5 DEF VoteMsgsTrue
  <1>10. CountsTrue
    <2> SUFFICES ASSUME NEW x \in Server, NEW v \in Server, role'[x] = Candidate, Counted(v, x)',
                        ~(role[x] = Candidate /\ current_term'[x] = current_term[x] /\ Counted(v, x))
                 PROVE  GrantedNow(v, x, m)
      BY <1>8 DEF CountsTrue
    <2>1. role[x] = Candidate /\ current_term'[x] = current_term[x]
      BY <1>1, <1>2 DEF ElectionTypeOK, Follower, Candidate
    <2>2. r \in vote_replies' /\ grants /\ v = i /\ x = m.candidate_id /\ r.term = current_term'[x]
      BY <1>2, <1>3, <1>5, <2>1 DEF Counted
    <2> QED BY <1>4, <1>5, <1>6, <2>1, <2>2 DEF GrantedNow
  <1>11. AcksTrue
    BY <1>2 DEF AcksTrue
  <1>12. PeersTrue
    <2>1. \A x, y \in Server : next_index[x][y] <= next_index[x][y]
      BY DEF PlainInv
    <2> QED BY <1>2, <1>8, <2>1 DEF PeersTrue, LogKept
  <1> QED BY <1>7, <1>8, <1>9, <1>10, <1>11, <1>12 DEF PlainStep, LogStep

\* A server that steps down, or does nothing, on a reply.
LEMMA SteppedDown ==
    ASSUME ElectionTypeOK, PlainInv, NEW i \in Server,
           \/ \E t \in Nat : StepDownOnReply(i, t)
           \/ UNCHANGED <<termVars, diskVars, role, log, applyVars, voters, leaderVars,
                          clientVars, ghostVars, counterVars>>,
           vote_requests' \subseteq vote_requests, vote_replies' \subseteq vote_replies,
           append_requests' \subseteq append_requests, append_replies' \subseteq append_replies,
           snap_requests' = {}, snap_replies' = {}
    PROVE  PlainInv' /\ PlainStep
  <1>1. /\ UNCHANGED <<log, db_log, last_included_term, snapshot_data, commit_index, last_applied,
                       next_index, match_index, voters, elected>>
        /\ \/ role' = [role EXCEPT ![i] = Follower]
              /\ \A x \in Server : x # i => current_term'[x] = current_term[x]
           \/ UNCHANGED <<role, current_term>>
    BY DEF StepDownOnReply, StepDown, termVars, diskVars, applyVars, leaderVars, ghostVars,
           ElectionTypeOK
  <1>2. \A x \in Server : role'[x] # Follower =>
          role'[x] = role[x] /\ current_term'[x] = current_term[x]
    BY <1>1 DEF ElectionTypeOK
  <1>3. LogKept /\ VoteMsgsTrue /\ CountsTrue
    <2>1. \A x \in Server : role'[x] = Candidate => role[x] = Candidate /\
            current_term'[x] = current_term[x] /\ voters'[x] = voters[x]
      BY <1>1, <1>2 DEF Candidate, Follower
    <2>2. \A x \in Server : role'[x] = Leader =>
            role[x] = Leader /\ current_term'[x] = current_term[x]
      BY <1>2 DEF Leader, Follower
    <2> QED BY <1>1, <2>1, <2>2, KeptStep
  <1>4. PeersTrue
    <2>1. \A x, y \in Server : next_index[x][y] <= next_index[x][y]
      BY DEF PlainInv
    <2> QED BY <1>1, <1>3, <2>1 DEF PeersTrue, LogKept
  <1>5. AcksTrue
    BY DEF AcksTrue
  <1>6. PlainInv'
    BY <1>1 DEF PlainInv
  <1> QED BY <1>3, <1>4, <1>5, <1>6 DEF PlainStep, LogStep

LEMMA VoteReplyStep ==
    ASSUME ElectionTypeOK, PlainInv, NothingCompacted, NEW m \in vote_replies,
           HandleRequestVoteResponse(m)
    PROVE  PlainInv' /\ PlainStep
  <1> DEFINE i == m.dest
             all == voters[i] \cup {m.peer_id}
             counts == role[i] = Candidate /\ m.term = current_term[i] /\ m.vote_granted
  <1>1. i \in Server /\ m.term \in Nat /\ m.peer_id \in Server /\ current_term[i] \in Nat
    BY DEF ElectionTypeOK
  <1>2. /\ vote_replies' = vote_replies \ {m} /\ snap_requests' = {} /\ snap_replies' = {}
        /\ UNCHANGED <<vote_requests, append_requests, append_replies>>
    BY DEF HandleRequestVoteResponse, appendMsgs, snapMsgs, PlainInv
  <1>3. CASE counts
    <2>1. /\ UNCHANGED <<current_term, last_included_term, snapshot_data, commit_index, last_applied>>
          /\ voters' = [voters EXCEPT ![i] = all]
      BY <1>1, <1>3 DEF HandleRequestVoteResponse, termVars, applyVars
    <2>2. \A v \in all : Counted(v, i)
      BY <1>3 DEF Counted
    <2>3. VoteMsgsTrue
      BY <1>2 DEF VoteMsgsTrue
    <2>4. ASSUME NEW x \in Server, NEW v \in Server, Counted(v, x)'
          PROVE  Counted(v, x)
      <3>1. x # i => voters'[x] = voters[x]
        BY <1>1, <2>1 DEF ElectionTypeOK
      <3>2. voters'[i] = all
        BY <1>1, <2>1 DEF ElectionTypeOK
      <3>3. CASE v \in voters'[x]
        BY <2>2, <3>1, <3>2, <3>3 DEF Counted
      <3>4. CASE v \notin voters'[x]
        BY <1>2, <2>1, <2>4, <3>4 DEF Counted
      <3> QED BY <3>3, <3>4
    <2>5. CASE HasMajority(all)
      <3>1. /\ BecomeLeader(i, current_term[i])
            /\ log' = [log EXCEPT ![i] = LogWithNoOp(i, current_term[i])]
            /\ db_log' = [db_log EXCEPT ![i] = SaveEntries(db_log[i], LastIndex(i) + 1,
                             <<[term |-> current_term[i], command |-> NoOp]>>)]
        BY <1>3, <2>5 DEF HandleRequestVoteResponse
      <3>2. \A v \in voters'[i] : Counted(v, i)
        BY <1>1, <2>1, <2>2 DEF ElectionTypeOK
      <3>3. /\ db_log' = log' /\ log' \in [Server -> Seq(Entry)]
            /\ next_index' \in [Server -> [Server -> Nat \ {0}]]
            /\ match_index' \in [Server -> [Server -> Nat]]
            /\ LogStep /\ AcksTrue /\ PeersTrue
        BY <1>1, <1>2, <1>3, <2>1, <3>1, <3>2, NewLeaderStep
      <3>4. role' = [role EXCEPT ![i] = Leader]
        BY <3>1 DEF BecomeLeader
      <3>5. CountsTrue
        <4>1. \A x \in Server : role'[x] = Candidate => role[x] = Candidate
          BY <1>1, <3>4 DEF ElectionTypeOK, Leader, Candidate
        <4> QED BY <2>1, <2>4, <4>1 DEF CountsTrue
      <3>6. PlainInv'
        BY <1>2, <2>1, <3>3 DEF PlainInv
      <3> QED BY <2>3, <3>3, <3>5, <3>6 DEF PlainStep
    <2>6. CASE ~HasMajority(all)
      <3>1. UNCHANGED <<role, elected, next_index, match_index, log, db_log>>
        BY <1>3, <2>6 DEF HandleRequestVoteResponse, leaderVars
      <3>2. LogKept
        BY <1>2, <2>1, <3>1 DEF LogKept
      <3>3. CountsTrue
        BY <2>1, <2>4, <3>1 DEF CountsTrue
      <3>4. PeersTrue
        <4>1. \A x, y \in Server : next_index[x][y] <= next_index[x][y]
          BY DEF PlainInv
        <4> QED BY <3>1, <4>1 DEF PeersTrue
      <3>5. AcksTrue
        BY <1>2 DEF AcksTrue
      <3>6. PlainInv'
        BY <1>2, <2>1, <3>1 DEF PlainInv
      <3> QED BY <2>3, <3>2, <3>3, <3>4, <3>5, <3>6 DEF PlainStep, LogStep
    <2> QED BY <2>5, <2>6
  <1>4. CASE ~counts
    <2>1. \/ StepDownOnReply(i, m.term)
          \/ UNCHANGED <<termVars, diskVars, role, log, applyVars, voters, leaderVars,
                         clientVars, ghostVars, counterVars>>
      BY <1>4 DEF HandleRequestVoteResponse
    <2> QED BY <1>1, <1>2, <2>1, SteppedDown
  <1> QED BY <1>3, <1>4

LEMMA AppendStep ==
    ASSUME ElectionTypeOK, PlainInv, NothingCompacted, NEW m \in append_requests, NEW lost \in BOOLEAN,
           HandleAppendEntries(m, lost)
    PROVE  PlainInv' /\ PlainStep
  <1> DEFINE i == m.dest
             success == m.term >= current_term[i] /\ Matches(i, m)
             M == MergedLog(i, m)
             c == FollowerCommit(i, m)
             r == [term |-> current_term'[i], success |-> success,
                   match_index |-> IF success THEN MatchReported(m) ELSE 0,
                   peer_id |-> i, dest |-> m.leader_id]
  <1>1. /\ i \in Server /\ m.term \in Nat /\ m.leader_id \in Server /\ m \in AppendRequest
        /\ current_term[i] \in Nat /\ m.leader_commit \in Nat /\ MatchReported(m) \in Nat
    <2>1. m \in AppendRequest /\ m.entries \in Seq(Entry) /\ m.prev_log_index \in Nat
      BY DEF PlainInv, AppendRequest
    <2>2. Len(m.entries) \in Nat
      BY <2>1
    <2> QED BY <2>1, <2>2 DEF ElectionTypeOK, AppendRequest, MatchReported
  <1>2. /\ UNCHANGED <<last_included_term, snapshot_data, voters, elected, vote_requests,
                       vote_replies, snap_requests, snap_replies, next_index, match_index>>
        /\ append_requests' \subseteq append_requests
        /\ append_replies' \subseteq append_replies \cup {r}
    BY DEF HandleAppendEntries, ghostVars, voteMsgs, snapMsgs, leaderVars, Consume, Answer
  <1>3. IF m.term >= current_term[i]
        THEN /\ role' = [role EXCEPT ![i] = Follower]
             /\ current_term' = [current_term EXCEPT ![i] = m.term]
        ELSE UNCHANGED <<role, current_term>>
    BY <1>1 DEF HandleAppendEntries, StepDown, termVars, ElectionTypeOK
  <1>4. IF success THEN /\ log' = [log EXCEPT ![i] = M]
                        /\ db_log' = [db_log EXCEPT ![i] = MergedDb(i, m)]
                   ELSE UNCHANGED <<log, db_log>>
    BY DEF HandleAppendEntries
  <1>5. \/ commit_index' = [commit_index EXCEPT ![i] = c] /\ last_applied' = [last_applied EXCEPT ![i] = c]
           /\ success
        \/ UNCHANGED <<commit_index, last_applied>>
    BY DEF HandleAppendEntries, ApplyLogs, applyVars
  <1>6. success => M \in Seq(Entry) /\ MergedDb(i, m) = M
    <2>1. success => m.prev_log_index <= Len(log[i])
      BY <1>1, PlainFacts DEF Matches
    <2> QED BY <1>1, <2>1, PlainFacts, MergedProperties DEF PlainInv
  <1>7. success => c \in Nat
    BY <1>1, <1>6, PlainFacts DEF FollowerCommit
  <1>8. r \in AppendReply /\ r.peer_id = i /\ r.term = current_term'[i] /\ r.success = success
        /\ (success => r.match_index = MatchReported(m))
    <2>1. current_term'[i] \in Nat
      BY <1>1, <1>3 DEF ElectionTypeOK
    <2>2. success \in BOOLEAN
      BY DEF Matches
    <2> HIDE DEF success
    <2> QED BY <1>1, <2>1, <2>2 DEF AppendReply
  <1> HIDE DEF r, c
  <1>9. PlainInv'
    <2>1. /\ db_log' = log' /\ log' \in [Server -> Seq(Entry)]
      BY <1>4, <1>6 DEF PlainInv
    <2>2. commit_index' \in [Server -> Nat] /\ last_applied' = commit_index'
      BY <1>5, <1>7 DEF PlainInv
    <2> QED BY <1>2, <1>8, <2>1, <2>2 DEF PlainInv
  <1>10. CASE success
    <2>1. Merges(m)
      BY <1>2, <1>3, <1>4, <1>10 DEF Merges
    <2>2. AcksTrue
      BY <1>1, <1>2, <1>3, <1>8, <1>10, <2>1 DEF AcksTrue, ElectionTypeOK
    <2>3. VoteMsgsTrue
      BY <1>2 DEF VoteMsgsTrue
    <2>4. \A x \in Server : role'[x] # Follower =>
            role'[x] = role[x] /\ current_term'[x] = current_term[x]
      BY <1>1, <1>3 DEF ElectionTypeOK
    <2>5. CountsTrue
      BY <1>2, <2>4 DEF CountsTrue, Counted, Follower, Candidate
    <2>6. PeersTrue
      <3>1. \A x, y \in Server : next_index[x][y] <= next_index[x][y]
        BY DEF PlainInv
      <3> QED BY <1>2, <2>4, <3>1 DEF PeersTrue, Leader, Follower
    <2> QED BY <1>9, <2>1, <2>2, <2>3, <2>5, <2>6 DEF PlainStep, LogStep
  <1>11. CASE ~success
    <2>1. \A x \in Server : role'[x] # Follower =>
            role'[x] = role[x] /\ current_term'[x] = current_term[x]
      BY <1>1, <1>3 DEF ElectionTypeOK
    <2>2. LogKept /\ VoteMsgsTrue /\ CountsTrue
      <3>1. \A x \in Server : role'[x] = Candidate => role[x] = Candidate /\
              current_term'[x] = current_term[x] /\ voters'[x] = voters[x]
        BY <1>2, <2>1 DEF Candidate, Follower
      <3>2. \A x \in Server : role'[x] = Leader =>
              role[x] = Leader /\ current_term'[x] = current_term[x]
        BY <2>1 DEF Leader, Follower
      <3> QED BY <1>2, <1>4, <1>11, <3>1, <3>2, KeptStep
    <2>3. AcksTrue
      BY <1>2, <1>8, <1>11 DEF AcksTrue
    <2>4. PeersTrue
      <3>1. \A x, y \in Server : next_index[x][y] <= next_index[x][y]
        BY DEF PlainInv
      <3> QED BY <1>2, <2>2, <3>1 DEF PeersTrue, LogKept
    <2> QED BY <1>9, <2>2, <2>3, <2>4 DEF PlainStep, LogStep
  <1> QED BY <1>10, <1>11

\* The index a leader's commit index moves to.
LEMMA AgreedFacts ==
    ASSUME NEW i \in Server, NEW mi \in [Server -> Nat], LastIndex(i) \in Nat,
           NEW k \in AgreedIndices(i, mi)
    PROVE  /\ k \in Nat
           /\ \E Q \in SUBSET Server : HasMajority(Q) /\ \A p \in Q :
                k <= IF p = i THEN LastIndex(i) ELSE mi[p]
  <1> DEFINE has == MatchOf(i, mi)
  <1>1. \A p \in Server : has[p] = (IF p = i THEN LastIndex(i) ELSE mi[p]) /\ has[p] \in Nat
    BY DEF MatchOf
  <1>2. PICK s \in Server : HasMajority({p \in Server : has[p] >= has[s]}) /\ k = has[s]
    BY DEF AgreedIndices
  <1> DEFINE Q == {p \in Server : has[p] >= has[s]}
  <1>3. Q \in SUBSET Server /\ HasMajority(Q) /\ \A p \in Q : k <= has[p]
    BY <1>1, <1>2
  <1> HIDE DEF Q, has
  <1>4. \A p \in Q : k <= IF p = i THEN LastIndex(i) ELSE mi[p]
    BY <1>1, <1>3
  <1> QED BY <1>1, <1>2, <1>3, <1>4

LEMMA PairUpdated ==
    ASSUME NEW S, NEW f \in [Server -> [Server -> S]], NEW i \in Server, NEW p \in Server, NEW v \in S,
           NEW g, g = [f EXCEPT ![i][p] = v]
    PROVE  /\ g \in [Server -> [Server -> S]]
           /\ \A x, y \in Server : g[x][y] = IF x = i /\ y = p THEN v ELSE f[x][y]
  OBVIOUS

LEMMA AppendReplyStep ==
    ASSUME ElectionTypeOK, PlainInv, NothingCompacted, NEW m \in append_replies,
           HandleAppendEntriesResponse(m)
    PROVE  PlainInv' /\ PlainStep
  <1> DEFINE i == m.dest
             p == m.peer_id
             mine == role[i] = Leader /\ m.term = current_term[i]
  <1>1. /\ i \in Server /\ p \in Server /\ m.term \in Nat /\ m.match_index \in Nat
        /\ m.success \in BOOLEAN
    BY DEF PlainInv, AppendReply
  <1>2. /\ append_replies' \subseteq append_replies /\ snap_requests' = {} /\ snap_replies' = {}
        /\ UNCHANGED <<vote_requests, vote_replies, append_requests>>
    BY DEF HandleAppendEntriesResponse, voteMsgs, snapMsgs, PlainInv
  <1>3. CASE mine
    <2>1. UNCHANGED <<current_term, log, db_log, last_included_term, snapshot_data, role, voters,
                      elected>>
      BY <1>3 DEF HandleAppendEntriesResponse, termVars, diskVars
    <2>2. /\ IF m.success
             THEN /\ next_index' = [next_index EXCEPT ![i][p] = m.match_index + 1]
                  /\ match_index' = [match_index EXCEPT ![i][p] = m.match_index]
             ELSE /\ next_index' = [next_index EXCEPT ![i][p] = BackOff(i, next_index[i][p])]
                  /\ UNCHANGED match_index
          /\ AdvanceCommit(i, match_index'[i])
      BY <1>3 DEF HandleAppendEntriesResponse
    <2>3. BackOff(i, next_index[i][p]) \in Nat \ {0} /\ BackOff(i, next_index[i][p]) <= next_index[i][p]
      <3>1. last_included_index[i] = 0 /\ next_index[i][p] \in Nat \ {0}
        BY <1>1, PlainFacts DEF PlainInv
      <3> QED BY <3>1 DEF BackOff
    <2>4. /\ next_index' \in [Server -> [Server -> Nat \ {0}]]
          /\ match_index' \in [Server -> [Server -> Nat]]
          /\ \A x, y \in Server : ~(x = i /\ y = p) =>
               match_index'[x][y] = match_index[x][y] /\ next_index'[x][y] = next_index[x][y]
      <3>1. /\ next_index \in [Server -> [Server -> Nat \ {0}]]
            /\ match_index \in [Server -> [Server -> Nat]]
        BY DEF PlainInv
      <3>2. m.match_index + 1 \in Nat \ {0}
        BY <1>1
      <3> HIDE DEF i, p
      <3>3. CASE m.success
        <4>1. /\ next_index' = [next_index EXCEPT ![i][p] = m.match_index + 1]
              /\ match_index' = [match_index EXCEPT ![i][p] = m.match_index]
          BY <2>2, <3>3
        <4>2. /\ next_index' \in [Server -> [Server -> Nat \ {0}]]
              /\ \A x, y \in Server : next_index'[x][y] =
                   IF x = i /\ y = p THEN m.match_index + 1 ELSE next_index[x][y]
          BY <1>1, <3>1, <3>2, <4>1, PairUpdated
        <4>3. /\ match_index' \in [Server -> [Server -> Nat]]
              /\ \A x, y \in Server : match_index'[x][y] =
                   IF x = i /\ y = p THEN m.match_index ELSE match_index[x][y]
          BY <1>1, <3>1, <4>1, PairUpdated
        <4> QED BY <4>2, <4>3
      <3>4. CASE ~m.success
        <4> DEFINE n == BackOff(i, next_index[i][p])
        <4>1. next_index' = [next_index EXCEPT ![i][p] = n] /\ match_index' = match_index
          BY <2>2, <3>4
        <4>2. n \in Nat \ {0}
          BY <2>3
        <4> HIDE DEF n
        <4>3. /\ next_index' \in [Server -> [Server -> Nat \ {0}]]
              /\ \A x, y \in Server : next_index'[x][y] = IF x = i /\ y = p THEN n ELSE next_index[x][y]
          BY <1>1, <3>1, <4>1, <4>2, PairUpdated
        <4> QED BY <3>1, <4>1, <4>3
      <3> QED BY <3>3, <3>4
    <2>5. LogKept /\ VoteMsgsTrue /\ CountsTrue
      BY <1>2, <2>1, KeptStep
    <2>6. PeersTrue
      <3> SUFFICES ASSUME NEW x \in Server, NEW y \in Server, role[x] = Leader
                   PROVE  \/ /\ match_index'[x][y] = match_index[x][y]
                             /\ next_index'[x][y] <= next_index[x][y]
                          \/ Reported(x, y, m) /\ m.success
        BY <2>1, <2>5 DEF PeersTrue
      <3>1. next_index[x][y] <= next_index[x][y]
        BY DEF PlainInv
      <3>2. CASE x = i /\ y = p
        <4>1. CASE m.success
          BY <1>1, <1>3, <2>2, <3>2, <4>1 DEF PlainInv, Reported
        <4>2. CASE ~m.success
          BY <1>1, <2>2, <2>3, <3>2, <4>2 DEF PlainInv
        <4> QED BY <4>1, <4>2
      <3>3. CASE ~(x = i /\ y = p)
        <4>1. match_index'[x][y] = match_index[x][y] /\ next_index'[x][y] = next_index[x][y]
          BY <2>4, <3>3
        <4> QED BY <3>1, <4>1
      <3> QED BY <3>2, <3>3
    <2>7. AcksTrue
      BY <1>2 DEF AcksTrue
    <2>8. commit_index' \in [Server -> Nat] /\ last_applied' = commit_index'
      <3> DEFINE new == {k \in AgreedIndices(i, match_index'[i]) : Committable(i, match_index'[i], k)}
                 c == CHOOSE k \in new : TRUE
      <3>1. CASE new = {}
        <4>1. UNCHANGED applyVars
          BY <2>2, <3>1 DEF AdvanceCommit
        <4> QED BY <4>1 DEF applyVars, PlainInv
      <3>2. CASE new # {}
        <4>1. c \in new
          <5> HIDE DEF new
          <5> QED BY <3>2
        <4>2. ApplyLogs(i, log[i], c)
          BY <2>2, <3>2 DEF AdvanceCommit
        <4>3. c \in Nat
          <5>1. match_index'[i] \in [Server -> Nat] /\ LastIndex(i) \in Nat
            BY <1>1, <2>4, PlainFacts
          <5>2. c \in AgreedIndices(i, match_index'[i])
            BY <4>1
          <5> HIDE DEF c
          <5> QED BY <1>1, <5>1, <5>2, AgreedFacts
        <4>4. commit_index' = [commit_index EXCEPT ![i] = c] /\ last_applied' = [last_applied EXCEPT ![i] = c]
          BY <4>2 DEF ApplyLogs
        <4> HIDE DEF c
        <4> QED BY <4>3, <4>4 DEF PlainInv
      <3> QED BY <3>1, <3>2
    <2>9. PlainInv'
      BY <1>2, <2>1, <2>4, <2>8 DEF PlainInv
    <2> QED BY <2>5, <2>6, <2>7, <2>9 DEF PlainStep, LogStep
  <1>4. CASE ~mine
    <2>1. \/ StepDownOnReply(i, m.term)
          \/ UNCHANGED <<termVars, diskVars, role, log, applyVars, voters, leaderVars,
                         clientVars, ghostVars, counterVars>>
      BY <1>4 DEF HandleAppendEntriesResponse
    <2> QED BY <1>1, <1>2, <2>1, SteppedDown
  <1> QED BY <1>3, <1>4

LEMMA LossStep ==
    ASSUME ElectionTypeOK, PlainInv, LoseExchange
    PROVE  PlainInv' /\ PlainStep
  <1>1. UNCHANGED <<termVars, diskVars, role, log, applyVars, voters, leaderVars, clientVars,
                    ghostVars, counterVars>>
    BY DEF LoseExchange
  <1>2. /\ vote_requests' \subseteq vote_requests /\ vote_replies' \subseteq vote_replies
        /\ append_requests' \subseteq append_requests /\ append_replies' \subseteq append_replies
        /\ snap_requests' \subseteq snap_requests /\ snap_replies' \subseteq snap_replies
    BY DEF LoseExchange, voteMsgs, appendMsgs, snapMsgs
  <1>3. snap_requests' = {} /\ snap_replies' = {}
    BY <1>2 DEF PlainInv
  <1>4. PICK i \in Server : TRUE
    BY ServerAssumption
  <1> QED BY <1>1, <1>2, <1>3, <1>4, SteppedDown

\* A restart finds its log in the database.
LEMMA PlainReboot ==
    ASSUME ElectionTypeOK, PlainInv, NothingCompacted, NEW i \in Server, NEW t \in Nat, NEW v,
           Reboot(i, t, v, db_log[i], last_included_index[i], last_included_term[i],
                  snapshot_data[i])
    PROVE  PlainInv' /\ PlainStep
  <1>1. /\ last_included_index[i] = 0 /\ last_included_term[i] = 0 /\ snapshot_data[i] = <<>>
        /\ db_log[i] = log[i] /\ LoadedLog(db_log[i], last_included_index[i]) = log[i]
        /\ Len(log[i]) \in Nat
    BY PlainFacts, LoadIsLog DEF PlainInv
  <1>2. /\ current_term' = [current_term EXCEPT ![i] = t]
        /\ db_log' = [db_log EXCEPT ![i] = db_log[i]]
        /\ last_included_term' = [last_included_term EXCEPT ![i] = last_included_term[i]]
        /\ snapshot_data' = [snapshot_data EXCEPT ![i] = snapshot_data[i]]
        /\ role' = [role EXCEPT ![i] = Follower]
        /\ log' = [log EXCEPT ![i] = LoadedLog(db_log[i], last_included_index[i])]
        /\ commit_index' = [commit_index EXCEPT ![i] = last_included_index[i]]
        /\ last_applied' = [last_applied EXCEPT ![i] = last_included_index[i]]
        /\ voters' = [voters EXCEPT ![i] = {}]
        /\ next_index' = [next_index EXCEPT ![i] = [j \in Server |->
             last_included_index[i] + Len(LoadedLog(db_log[i], last_included_index[i])) + 1]]
        /\ match_index' = [match_index EXCEPT ![i] = [j \in Server |-> last_included_index[i]]]
        /\ UNCHANGED <<vote_requests, append_requests, snap_requests, elected>>
        /\ vote_replies' \subseteq vote_replies
        /\ append_replies' \subseteq append_replies
        /\ snap_replies' \subseteq snap_replies
    BY DEF Reboot, ghostVars
  <1>3. UNCHANGED <<log, db_log, last_included_term, snapshot_data>>
    BY <1>1, <1>2 DEF PlainInv
  <1>4. /\ commit_index' \in [Server -> Nat] /\ last_applied' = commit_index'
        /\ match_index' \in [Server -> [Server -> Nat]]
    BY <1>1, <1>2 DEF PlainInv
  <1>5. next_index' \in [Server -> [Server -> Nat \ {0}]]
    <2>1. 0 + Len(log[i]) + 1 \in Nat \ {0}
      BY <1>1
    <2> QED BY <1>1, <1>2, <2>1 DEF PlainInv
  <1>6. snap_requests' = {} /\ snap_replies' = {}
    BY <1>2 DEF PlainInv
  <1>7. PlainInv'
    BY <1>2, <1>3, <1>4, <1>5, <1>6 DEF PlainInv
  <1>8. \A x \in Server : role'[x] # Follower =>
          /\ role'[x] = role[x] /\ current_term'[x] = current_term[x] /\ voters'[x] = voters[x]
          /\ next_index'[x] = next_index[x] /\ match_index'[x] = match_index[x]
    BY <1>2 DEF ElectionTypeOK, PlainInv
  <1>9. LogKept /\ VoteMsgsTrue /\ CountsTrue
    BY <1>2, <1>3, <1>8, KeptStep DEF Leader, Candidate, Follower
  <1>10. PeersTrue
    <2>1. \A x, y \in Server : next_index[x][y] <= next_index[x][y]
      BY DEF PlainInv
    <2> QED BY <1>8, <2>1 DEF PeersTrue, Leader, Follower
  <1>11. AcksTrue
    BY <1>2 DEF AcksTrue
  <1> QED BY <1>7, <1>9, <1>10, <1>11 DEF PlainStep, LogStep

LEMMA PlainNext ==
    ASSUME ElectionTypeOK, PlainInv, NoVoteAhead, NothingCompacted, NothingCompacted', Next
    PROVE  PlainInv' /\ PlainStep
  <1>1. snap_requests = {} /\ snap_replies = {}
    BY DEF PlainInv
  <1>2. ASSUME NEW i \in Server, Restart(i) PROVE PlainInv' /\ PlainStep
    <2>1. current_term[i] \in Nat
      BY DEF ElectionTypeOK
    <2> QED BY <1>2, <2>1, PlainReboot DEF Restart
  <1>3. ASSUME NEW i \in Server, CrashInStartElection(i) PROVE PlainInv' /\ PlainStep
    <2>1. current_term[i] + 1 \in Nat
      BY DEF ElectionTypeOK
    <2> QED BY <1>3, <2>1, PlainReboot DEF CrashInStartElection
  <1>4. ASSUME NEW i \in Server, CrashInCreateSnapshot(i) PROVE FALSE
    <2>1. last_included_index' = [last_included_index EXCEPT ![i] = last_applied[i]]
      BY <1>4 DEF CrashInCreateSnapshot, Reboot
    <2>2. last_applied[i] > 0 /\ last_applied[i] \in Nat
      BY <1>4 DEF CrashInCreateSnapshot, NeedsSnapshot, NothingCompacted, PlainInv
    <2>3. last_included_index'[i] = last_applied[i]
      BY <2>1 DEF NothingCompacted
    <2>4. last_included_index'[i] = 0
      BY DEF NothingCompacted
    <2> QED BY <2>2, <2>3, <2>4
  <1>5. ASSUME NEW m \in vote_requests \cup append_requests \cup snap_requests
                     \cup vote_replies \cup append_replies \cup snap_replies, CrashInStepDown(m)
        PROVE  PlainInv' /\ PlainStep
    <2>1. m.term \in Nat /\ m.dest \in Server
      BY DEF ElectionTypeOK
    <2>2. PICK v \in {voted_for[m.dest], Nil} :
            Reboot(m.dest, m.term, v, db_log[m.dest], last_included_index[m.dest],
                   last_included_term[m.dest], snapshot_data[m.dest])
      BY <1>5 DEF CrashInStepDown
    <2> QED BY <2>1, <2>2, PlainReboot
  <1>6. ASSUME NEW m \in append_requests, CrashInTruncate(m) PROVE FALSE
    BY <1>6 DEF CrashInTruncate, NothingCompacted
  <1>7. ASSUME NEW i \in Server,
               \/ ElectionTimeout(i) \/ SoleMemberElection(i) \/ QuietTick(i) \/ LeaderTick(i)
               \/ \E b \in Batches : ClientRequest(i, b)
               \/ GetReadIndex(i)
        PROVE  PlainInv' /\ PlainStep
    BY <1>7, TimeoutStep, SoleStep, TickStep, ClientStep
  <1>8. ASSUME NEW lost \in BOOLEAN,
               \/ \E m \in vote_requests : HandleRequestVote(m, lost)
               \/ \E m \in append_requests : HandleAppendEntries(m, lost)
        PROVE  PlainInv' /\ PlainStep
    BY <1>8, GrantStep, AppendStep
  <1>9. ASSUME \/ \E m \in vote_replies : HandleRequestVoteResponse(m)
               \/ \E m \in append_replies : HandleAppendEntriesResponse(m)
               \/ LoseExchange
        PROVE  PlainInv' /\ PlainStep
    BY <1>9, VoteReplyStep, AppendReplyStep, LossStep
  <1> QED BY <1>1, <1>2, <1>3, <1>4, <1>5, <1>6, <1>7, <1>8, <1>9 DEF Next

LEMMA PlainStutter ==
    ASSUME PlainInv, UNCHANGED vars
    PROVE  PlainInv' /\ PlainStep
  <1>1. /\ UNCHANGED <<current_term, db_log, last_included_term, snapshot_data, role, log,
                       commit_index, last_applied, voters, next_index, match_index, elected>>
        /\ UNCHANGED <<vote_requests, vote_replies, append_requests, append_replies,
                       snap_requests, snap_replies>>
    BY DEF vars, termVars, diskVars, applyVars, leaderVars, voteMsgs, appendMsgs, snapMsgs, ghostVars
  <1>2. PlainInv'
    BY <1>1 DEF PlainInv
  <1>3. LogKept /\ VoteMsgsTrue /\ AcksTrue
    BY <1>1 DEF LogKept, VoteMsgsTrue, AcksTrue
  <1>4. CountsTrue
    BY <1>1 DEF CountsTrue, Counted
  <1>5. PeersTrue
    <2>1. \A x, y \in Server : next_index[x][y] <= next_index[x][y]
      BY DEF PlainInv
    <2> QED BY <1>1, <2>1 DEF PeersTrue
  <1> QED BY <1>2, <1>3, <1>4, <1>5 DEF PlainStep, LogStep

\* Requests and votes stay behind their candidates, whose terms only rise.
LEMMA VotesStayBehind ==
    ASSUME ElectionTypeOK, ElectionTypeOK', PlainInv, PlainInv', PlainStep, NoVoteAhead,
           \A i \in Server : current_term[i] <= current_term'[i]
    PROVE  NoVoteAhead'
  <1>1. \A i \in Server : current_term[i] \in Nat /\ current_term'[i] \in Nat
    BY DEF ElectionTypeOK
  <1>2. ASSUME NEW m \in vote_requests PROVE m.term <= current_term'[m.candidate_id]
    <2>1. m.term \in Nat /\ m.candidate_id \in Server /\ m.term <= current_term[m.candidate_id]
      BY DEF PlainInv, VoteRequest, NoVoteAhead
    <2> QED BY <1>1, <2>1
  <1>3. ASSUME NEW m \in vote_requests' PROVE m.term <= current_term'[m.candidate_id]
    <2>1. m.candidate_id \in Server
      BY DEF PlainInv, VoteRequest
    <2> QED BY <1>1, <1>2, <2>1 DEF PlainStep, VoteMsgsTrue
  <1>4. ASSUME NEW r \in vote_replies', r.vote_granted PROVE r.term <= current_term'[r.dest]
    <2>1. CASE r \in vote_replies
      <3>1. r.term \in Nat /\ r.dest \in Server /\ r.term <= current_term[r.dest]
        BY <1>4, <2>1 DEF PlainInv, VoteReply, NoVoteAhead
      <3> QED BY <1>1, <3>1
    <2>2. CASE r \notin vote_replies
      <3>1. PICK m \in vote_requests : m.candidate_id = r.dest /\ m.term = r.term
        BY <1>4, <2>2 DEF PlainStep, VoteMsgsTrue
      <3> QED BY <1>2, <3>1
    <2> QED BY <2>1, <2>2
  <1> QED BY <1>3, <1>4 DEF NoVoteAhead

-----------------------------------------------------------------------------
(* The leaders' logs.                                                      *)

\* Logs L and M have their first k entries in common.
Agree(L, M, k) == k <= Len(L) /\ k <= Len(M) /\ \A j \in 1 .. k : L[j] = M[j]

\* Up to any entry, L is the log of the leader of that entry's term.
Rooted(L, H) == \A k \in 1 .. Len(L) : Agree(L, H[L[k].term], k)

\* The terms of L only rise, up to t.
Ordered(L, t) ==
    \A k \in 1 .. Len(L) : L[k].term <= t /\ \A j \in 1 .. k : L[j].term <= L[k].term

Histories == [Nat -> Seq(Entry)]

LeadersKnown(H) ==
    /\ \A t \in Nat : H[t] # <<>> => \E e \in elected : e.term = t
    /\ \A e \in elected : /\ e.term <= current_term[e.leader]
                          /\ e.term = current_term[e.leader] => role[e.leader] # Candidate
    /\ \A i \in Server : role[i] = Leader =>
         /\ log[i] = H[current_term[i]] /\ log[i] # <<>>
         /\ \E e \in elected : e.term = current_term[i] /\ e.leader = i

LogsRooted(H) ==
    /\ \A i \in Server : Rooted(log[i], H) /\ Ordered(log[i], current_term[i])
    /\ \A t \in Nat : Rooted(H[t], H) /\ Ordered(H[t], t)

\* Request m is a piece of log N.
PieceOf(m, N) ==
    /\ 1 <= MatchReported(m) /\ MatchReported(m) <= Len(N)
    /\ \A k \in 1 .. Len(m.entries) : m.entries[k] = N[m.prev_log_index + k]
    /\ m.prev_log_index > 0 => m.prev_log_term = N[m.prev_log_index].term

RequestsRooted(H) == \A m \in append_requests : PieceOf(m, H[m.term])

LogInv(H) == LeadersKnown(H) /\ LogsRooted(H) /\ RequestsRooted(H)

LEMMA AgreeFacts ==
    ASSUME NEW L \in Seq(Entry), NEW M \in Seq(Entry), NEW N \in Seq(Entry), NEW k \in Nat
    PROVE  /\ Agree(L, M, k) => Agree(M, L, k)
           /\ Agree(L, M, k) /\ Agree(M, N, k) => Agree(L, N, k)
           /\ \A j \in 0 .. k : Agree(L, M, k) => Agree(L, M, j)
           /\ Agree(L, M, 0)
           /\ k <= Len(L) => Agree(L, L, k)
  BY DEF Agree

LEMMA EntryTerm == \A L \in Seq(Entry) : \A k \in 1 .. Len(L) : L[k] \in Entry /\ L[k].term \in Nat
  <1> SUFFICES ASSUME NEW L \in Seq(Entry), NEW k \in 1 .. Len(L)
               PROVE  L[k] \in Entry /\ L[k].term \in Nat
    OBVIOUS
  <1>1. L[k] \in Entry
    BY ElementOfSeq
  <1> QED BY <1>1 DEF Entry

\* Rooted logs that agree on the term of an entry agree up to it.
LEMMA RootedTwins ==
    ASSUME NEW H \in Histories, NEW L \in Seq(Entry), NEW M \in Seq(Entry), Rooted(L, H), Rooted(M, H),
           NEW k \in 1 .. Len(L), k <= Len(M), L[k].term = M[k].term
    PROVE  Agree(L, M, k)
  <1>1. k \in 1 .. Len(M) /\ k \in Nat /\ L[k].term \in Nat
    BY EntryTerm
  <1>2. H[L[k].term] \in Seq(Entry)
    BY <1>1 DEF Histories
  <1>3. Agree(L, H[L[k].term], k) /\ Agree(M, H[L[k].term], k)
    BY <1>1 DEF Rooted
  <1> QED BY <1>1, <1>2, <1>3, AgreeFacts

\* The history H2 continues H.
Continues(H, H2) == \A t \in Nat : Agree(H[t], H2[t], Len(H[t]))

LEMMA AgreeContinued ==
    ASSUME NEW H \in Histories, NEW H2 \in Histories, Continues(H, H2), NEW L \in Seq(Entry),
           NEW t \in Nat, NEW k \in Nat, Agree(L, H[t], k)
    PROVE  Agree(L, H2[t], k)
  <1>1. H[t] \in Seq(Entry) /\ H2[t] \in Seq(Entry)
    BY DEF Histories
  <1>2. Agree(H[t], H2[t], Len(H[t])) /\ k <= Len(H[t])
    BY DEF Continues, Agree
  <1>3. Agree(H[t], H2[t], k)
    BY <1>1, <1>2, AgreeFacts
  <1> QED BY <1>1, <1>3, AgreeFacts

LEMMA RootedContinued ==
    ASSUME NEW H \in Histories, NEW H2 \in Histories, Continues(H, H2), NEW L \in Seq(Entry),
           Rooted(L, H)
    PROVE  Rooted(L, H2)
  <1> SUFFICES ASSUME NEW k \in 1 .. Len(L) PROVE Agree(L, H2[L[k].term], k)
    BY DEF Rooted
  <1>1. Agree(L, H[L[k].term], k)
    BY DEF Rooted
  <1>2. L[k].term \in Nat /\ k \in Nat
    BY EntryTerm
  <1> QED BY <1>1, <1>2, AgreeContinued

\* What merging a piece of N into a log does: the log has the piece, it is unchanged
\* or ends with the piece, and it loses nothing it had in common with N.
LEMMA MergeOutcome ==
    ASSUME PlainInv, NothingCompacted, NEW H \in Histories, LogsRooted(H),
           NEW m \in append_requests, NEW t \in Nat, PieceOf(m, H[t]), Matches(m.dest, m)
    PROVE  LET L == log[m.dest]
               M == MergedLog(m.dest, m)
               n == MatchReported(m)
           IN  /\ M \in Seq(Entry) /\ n \in Nat
               /\ Agree(M, H[t], n)
               /\ M = L \/ Len(M) = n
               /\ \A c \in Nat : Agree(L, H[t], c) => Agree(M, H[t], c)
  <1> DEFINE i == m.dest
             L == log[i]
             M == MergedLog(i, m)
             N == H[t]
             p == m.prev_log_index
             es == m.entries
             n == MatchReported(m)
             K == Kept(i, m)
  <1>1. m \in AppendRequest /\ i \in Server /\ p \in Nat /\ es \in Seq(Entry)
    BY DEF PlainInv, AppendRequest
  <1>2. /\ L \in Seq(Entry) /\ Len(L) \in Nat /\ last_included_index[i] = 0 /\ LastIndex(i) = Len(L)
        /\ log \in [Server -> Seq(Entry)] /\ db_log[i] = log[i]
    BY <1>1, PlainFacts DEF PlainInv
  <1>3. N \in Seq(Entry) /\ Len(N) \in Nat /\ Rooted(L, H) /\ Rooted(N, H)
    <2>1. N \in Seq(Entry)
      BY DEF Histories
    <2>2. Rooted(L, H) /\ Rooted(N, H)
      BY <1>1, Zenon DEF LogsRooted
    <2> QED BY <2>1, <2>2
  <1>4. p <= Len(L) /\ TermAt(i, p) = m.prev_log_term
    BY <1>1, <1>2 DEF Matches
  <1>5. Len(es) \in Nat /\ n = p + Len(es) /\ n \in Nat /\ p <= n
    BY <1>1 DEF MatchReported
  <1>6. /\ K \in p .. Len(L)
        /\ \A j \in 1 .. Len(es) : p + j <= K => L[p + j].term = es[j].term
        /\ K < Len(L) => K - p + 1 \in 1 .. Len(es) /\ L[K + 1].term # es[K - p + 1].term
    BY <1>1, <1>2, <1>4, KeptProperties
  <1>7. /\ M \in Seq(Entry)
        /\ Len(M) = IF n > K THEN n ELSE K
        /\ \A k \in 1 .. K : M[k] = L[k]
        /\ \A k \in (K + 1) .. n : M[k] = es[k - p]
    BY <1>1, <1>2, <1>4, <1>5, MergedProperties
  <1>8. /\ n <= Len(N)
        /\ \A k \in 1 .. Len(es) : es[k] = N[p + k]
        /\ p > 0 => m.prev_log_term = N[p].term
    BY DEF PieceOf
  <1>9. p > 0 => L[p].term = N[p].term
    BY <1>1, <1>4, <1>8, PlainFacts
  <1> HIDE DEF i, L, M, N, p, es, n, K
  <1>10. K \in Nat
    BY <1>1, <1>2, <1>6
  <1>11. ASSUME NEW q \in Nat, q <= K, q <= n, p <= q PROVE Agree(L, N, q)
    <2>1. CASE q = 0
      BY <1>2, <1>3, <2>1, AgreeFacts
    <2>2. CASE q > 0
      <3>1. q \in 1 .. Len(L) /\ q <= Len(N)
        BY <1>2, <1>3, <1>5, <1>6, <1>8, <1>10, <1>11, <2>2
      <3>2. L[q].term = N[q].term
        <4>1. CASE q = p
          BY <1>9, <2>2, <4>1
        <4>2. CASE q # p
          <5>1. q - p \in 1 .. Len(es) /\ p + (q - p) = q
            BY <1>1, <1>5, <1>11, <4>2
          <5>2. L[q].term = es[q - p].term /\ es[q - p] = N[q]
            BY <1>6, <1>8, <1>11, <5>1
          <5> QED BY <5>2
        <4> QED BY <4>1, <4>2
      <3> QED BY <1>2, <1>3, <3>1, <3>2, RootedTwins
    <2> QED BY <2>1, <2>2
  <1>12. ASSUME NEW k \in 1 .. n PROVE M[k] = N[k]
    <2>1. CASE k <= K
      <3> DEFINE q == IF K <= n THEN K ELSE n
      <3>1. q \in Nat /\ q <= K /\ q <= n /\ p <= q /\ k <= q
        BY <1>1, <1>5, <1>6, <1>10, <2>1
      <3> HIDE DEF q
      <3>2. L[k] = N[k]
        BY <1>11, <3>1 DEF Agree
      <3> QED BY <1>7, <1>10, <2>1, <3>2
    <2>2. CASE k > K
      <3>1. k \in (K + 1) .. n /\ k - p \in 1 .. Len(es) /\ p + (k - p) = k
        BY <1>1, <1>5, <1>6, <1>10, <2>2
      <3> QED BY <1>7, <1>8, <3>1
    <2> QED BY <1>5, <1>10, <2>1, <2>2
  <1>13. Agree(M, N, n)
    BY <1>3, <1>5, <1>7, <1>8, <1>10, <1>12 DEF Agree
  <1>14. n <= K => M = L
    <2> SUFFICES ASSUME n <= K PROVE M = L
      OBVIOUS
    <2>1. K = Len(L)
      <3>1. ~(K < Len(L))
        BY <1>1, <1>2, <1>5, <1>6, <1>10
      <3> QED BY <1>1, <1>2, <1>6, <1>10, <3>1
    <2>2. Len(M) = Len(L) /\ \A k \in 1 .. Len(M) : M[k] = L[k]
      BY <1>5, <1>7, <1>10, <2>1
    <2> QED BY <1>2, <1>7, <2>2, SeqEqual
  <1>15. M = L \/ (Len(M) = n /\ n > K)
    BY <1>5, <1>7, <1>10, <1>14
  <1>16. ASSUME NEW c \in Nat, Agree(L, N, c) PROVE Agree(M, N, c)
    <2>1. CASE M = L
      BY <1>16, <2>1
    <2>2. CASE n > K
      <3>1. c <= K
        <4>1. CASE K = Len(L)
          BY <1>16, <4>1 DEF Agree
        <4>2. CASE K < Len(L)
          <5>1. K - p + 1 \in 1 .. Len(es) /\ p + (K - p + 1) = K + 1
            BY <1>1, <1>6, <1>10, <4>2
          <5>2. L[K + 1].term # N[K + 1].term
            BY <1>6, <1>8, <4>2, <5>1
          <5>3. ~(K + 1 \in 1 .. c)
            BY <1>16, <5>2 DEF Agree
          <5> QED BY <1>10, <5>3
        <4> QED BY <1>1, <1>2, <1>6, <1>10, <4>1, <4>2
      <3>2. c \in 0 .. n
        BY <1>5, <1>10, <2>2, <3>1
      <3> QED BY <1>3, <1>5, <1>7, <1>13, <3>2, AgreeFacts
    <2> QED BY <1>15, <2>1, <2>2
  <1> QED BY <1>5, <1>7, <1>13, <1>15, <1>16 DEF L, M, N, n, i

\* A request that carries a leader's log is a piece of it, the last one.
LEMMA CarriesPiece ==
    ASSUME NEW i \in Server, NEW L \in Seq(Entry), L # <<>>, NEW m \in AppendRequest, Carries(m, i, L)
    PROVE  PieceOf(m, L) /\ MatchReported(m) = Len(L)
  <1> DEFINE p == m.prev_log_index
             es == SubSeq(L, p + 1, Len(L))
  <1>1. p \in Nat /\ p <= Len(L) /\ m.entries = es /\ Len(L) \in Nat
    BY DEF AppendRequest, Carries
  <1>2. Len(L) >= 1
    BY <1>1, EmptySeq
  <1>3. Len(es) = Len(L) - p /\ \A k \in 1 .. (Len(L) - p) : es[k] = L[p + k]
    <2>1. p + 1 \in Nat \ {0} /\ p + 1 >= 1
      BY <1>1
    <2>2. \A k \in (p + 1) .. Len(L) : L[k] \in Entry
      BY <1>1, ElementOfSeq
    <2>3. Len(es) = IF p + 1 <= Len(L) THEN Len(L) - (p + 1) + 1 ELSE 0
      BY <1>1, <2>1, SubSeqProperties
    <2>4. \A k \in 1 .. (Len(L) - (p + 1) + 1) : es[k] = L[(p + 1) + k - 1]
      BY <1>1, <2>1, SubSeqProperties
    <2>5. \A k \in 1 .. (Len(L) - p) : k \in 1 .. (Len(L) - (p + 1) + 1) /\ (p + 1) + k - 1 = p + k
      BY <1>1
    <2>6. Len(es) = Len(L) - p
      BY <1>1, <2>3
    <2> QED BY <2>4, <2>5, <2>6
  <1>4. MatchReported(m) = Len(L)
    BY <1>1, <1>3 DEF MatchReported
  <1>5. p > 0 => m.prev_log_term = L[p].term
    BY DEF Carries
  <1> QED BY <1>1, <1>2, <1>3, <1>4, <1>5 DEF PieceOf

-----------------------------------------------------------------------------
(* The three kinds of steps keep the logs rooted.                          *)

LEMMA KeptKeepsLogInv ==
    ASSUME ElectionTypeOK, ElectionTypeOK', \A v \in Server : VoteKept(v), PlainInv, PlainInv',
           NEW H \in Histories, LogInv(H), LogKept
    PROVE  LogInv(H)'
  <1>1. \A v \in Server : /\ current_term[v] \in Nat /\ current_term'[v] \in Nat
                          /\ current_term[v] <= current_term'[v]
    BY DEF ElectionTypeOK, VoteKept
  <1>2. log \in [Server -> Seq(Entry)] /\ log' = log /\ elected' = elected
    BY DEF PlainInv, LogKept
  <1>3. LeadersKnown(H)'
    <2>1. ASSUME NEW e \in elected
          PROVE  /\ e.term <= current_term'[e.leader]
                 /\ e.term = current_term'[e.leader] => role'[e.leader] # Candidate
      <3>1. e.term \in Nat /\ e.leader \in Server
        BY DEF ElectionTypeOK
      <3>2. /\ e.term <= current_term[e.leader]
            /\ e.term = current_term[e.leader] => role[e.leader] # Candidate
        BY DEF LogInv, LeadersKnown
      <3>3. ASSUME e.term = current_term'[e.leader] PROVE role'[e.leader] # Candidate
        <4>1. current_term'[e.leader] = current_term[e.leader]
          BY <1>1, <3>1, <3>2, <3>3
        <4> QED BY <1>1, <3>1, <3>2, <3>3, <4>1 DEF LogKept
      <3> QED BY <1>1, <3>1, <3>2, <3>3
    <2>2. ASSUME NEW i \in Server, role'[i] = Leader
          PROVE  /\ log'[i] = H[current_term'[i]] /\ log'[i] # <<>>
                 /\ \E e \in elected' : e.term = current_term'[i] /\ e.leader = i
      BY <1>2, <2>2 DEF LogInv, LeadersKnown, LogKept
    <2> QED BY <1>2, <2>1, <2>2 DEF LogInv, LeadersKnown
  <1>4. LogsRooted(H)'
    <2>1. ASSUME NEW i \in Server PROVE Ordered(log[i], current_term'[i])
      <3>1. Ordered(log[i], current_term[i]) /\ log[i] \in Seq(Entry)
        BY <1>2 DEF LogInv, LogsRooted
      <3>2. \A k \in 1 .. Len(log[i]) : log[i][k].term \in Nat
        BY <3>1, EntryTerm
      <3> QED BY <1>1, <3>1, <3>2 DEF Ordered
    <2> QED BY <1>2, <2>1 DEF LogInv, LogsRooted
  <1>5. RequestsRooted(H)'
    <2> SUFFICES ASSUME NEW m \in append_requests' PROVE PieceOf(m, H[m.term])
      BY DEF RequestsRooted, PieceOf, MatchReported
    <2>1. CASE m \in append_requests
      BY <2>1 DEF LogInv, RequestsRooted
    <2>2. CASE m \notin append_requests
      <3>1. PICK i \in Server : role[i] = Leader /\ Carries(m, i, log[i])
        BY <2>2 DEF LogKept
      <3>2. m \in AppendRequest /\ log[i] \in Seq(Entry)
        BY <1>2 DEF PlainInv
      <3>3. log[i] = H[m.term] /\ log[i] # <<>>
        BY <3>1 DEF LogInv, LeadersKnown, Carries
      <3> QED BY <3>1, <3>2, <3>3, CarriesPiece
    <2> QED BY <2>1, <2>2
  <1> QED BY <1>3, <1>4, <1>5 DEF LogInv

\* The history after the log of leader i has grown.
Grown(H, i) == [H EXCEPT ![current_term'[i]] = log'[i]]

LEMMA GrowthFacts ==
    ASSUME ElectionTypeOK, ElectionTypeOK', ElectionSafety', \A v \in Server : VoteKept(v),
           PlainInv, PlainInv', NEW H \in Histories, LogInv(H),
           NEW i \in Server, NEW es \in Seq(Entry), Grows(i, es)
    PROVE  LET T == current_term'[i]
           IN  /\ T \in Nat /\ current_term[i] \in Nat /\ current_term[i] <= T
               /\ log'[i] \in Seq(Entry) /\ log[i] \in Seq(Entry)
               /\ Len(log'[i]) = Len(log[i]) + Len(es) /\ Len(es) >= 1
               /\ \A k \in 1 .. Len(log[i]) : log'[i][k] = log[i][k]
               /\ \A k \in (Len(log[i]) + 1) .. Len(log'[i]) : log'[i][k].term = T
               /\ \A j \in Server \ {i} : log'[j] = log[j] /\ role'[j] = role[j]
                                          /\ current_term'[j] = current_term[j]
               /\ role'[i] = Leader
               /\ IF role[i] = Leader THEN H[T] = log[i] /\ T = current_term[i] ELSE H[T] = <<>>
               /\ \E e \in elected' : e.term = T /\ e.leader = i
               /\ Grown(H, i) \in Histories /\ Continues(H, Grown(H, i))
               /\ Grown(H, i)[T] = log'[i]
               /\ \A t \in Nat \ {T} : Grown(H, i)[t] = H[t]
  <1> DEFINE T == current_term'[i]
             L == log[i]
             N == log'[i]
             H2 == Grown(H, i)
  <1>1. T \in Nat /\ current_term[i] \in Nat /\ current_term[i] <= T
    BY DEF ElectionTypeOK, VoteKept
  <1>2. N \in Seq(Entry) /\ L \in Seq(Entry) /\ N = L \o es
    BY DEF PlainInv, Grows
  <1>3. /\ Len(N) = Len(L) + Len(es) /\ Len(L) \in Nat /\ Len(es) \in Nat
        /\ \A k \in 1 .. (Len(L) + Len(es)) : N[k] = IF k <= Len(L) THEN L[k] ELSE es[k - Len(L)]
    BY <1>2, ConcatProperties
  <1>4. Len(es) >= 1
    BY <1>3, EmptySeq DEF Grows
  <1>5. \A k \in 1 .. Len(L) : N[k] = L[k]
    BY <1>3, <1>4
  <1>6. ASSUME NEW k \in (Len(L) + 1) .. Len(N) PROVE N[k].term = T
    <2>1. k - Len(L) \in 1 .. Len(es) /\ ~(k <= Len(L)) /\ k \in 1 .. (Len(L) + Len(es))
      BY <1>3, <1>4
    <2> QED BY <1>3, <2>1 DEF Grows
  <1>7. role'[i] = Leader
    BY DEF Grows, ElectionTypeOK
  <1>8. ASSUME NEW j \in Server \ {i}
        PROVE  log'[j] = log[j] /\ role'[j] = role[j] /\ current_term'[j] = current_term[j]
    <2>1. log'[j] = log[j]
      BY DEF Grows, PlainInv
    <2>2. role'[j] = role[j]
      BY DEF Grows, ElectionTypeOK
    <2>3. current_term'[j] = current_term[j]
      BY DEF Grows, Leads, ElectionTypeOK
    <2> QED BY <2>1, <2>2, <2>3
  <1>9. /\ IF role[i] = Leader THEN H[T] = L /\ T = current_term[i] ELSE H[T] = <<>>
        /\ \E e \in elected' : e.term = T /\ e.leader = i
    <2>1. CASE role[i] = Leader
      <3>1. UNCHANGED <<current_term, elected>>
        BY <2>1 DEF Grows, Leads, Leader, Candidate
      <3>2. L = H[current_term[i]] /\ \E e \in elected : e.term = current_term[i] /\ e.leader = i
        BY <2>1 DEF LogInv, LeadersKnown
      <3> QED BY <2>1, <3>1, <3>2
    <2>2. CASE role[i] # Leader
      <3> DEFINE n == [term |-> T, leader |-> i, voters |-> voters'[i]]
      <3>1. /\ \/ role[i] = Candidate /\ T = current_term[i]
               \/ T = current_term[i] + 1
            /\ elected' = elected \cup {n}
        BY <2>2 DEF Grows, Leads, ElectionTypeOK
      <3>2. n \in elected' /\ n.term = T /\ n.leader = i
        BY <3>1
      <3>3. ASSUME H[T] # <<>> PROVE FALSE
        <4>1. PICK e \in elected : e.term = T
          BY <1>1, <3>3 DEF LogInv, LeadersKnown
        <4>2. e.leader = i
          BY <3>1, <3>2, <4>1 DEF ElectionSafety
        <4>3. T <= current_term[i] /\ (T = current_term[i] => role[i] # Candidate)
          BY <4>1, <4>2 DEF LogInv, LeadersKnown
        <4> QED BY <1>1, <3>1, <4>3
      <3> QED BY <2>2, <3>2, <3>3
    <2> QED BY <2>1, <2>2
  <1>10. /\ H2 \in Histories /\ H2[T] = N
         /\ \A t \in Nat \ {T} : H2[t] = H[t]
    BY <1>1, <1>2 DEF Grown, Histories
  <1>11. Continues(H, H2)
    <2> SUFFICES ASSUME NEW t \in Nat PROVE Agree(H[t], H2[t], Len(H[t]))
      BY DEF Continues
    <2>1. H[t] \in Seq(Entry) /\ Len(H[t]) \in Nat
      BY DEF Histories
    <2>2. CASE t # T
      BY <1>10, <2>1, <2>2, AgreeFacts
    <2>3. CASE t = T /\ role[i] = Leader
      <3>1. H[t] = L /\ H2[t] = N
        BY <1>9, <1>10, <2>3
      <3> QED BY <1>3, <1>4, <1>5, <3>1 DEF Agree
    <2>4. CASE t = T /\ role[i] # Leader
      <3>1. Len(H[t]) = 0
        BY <1>9, <2>4
      <3> QED BY <1>2, <1>10, <2>1, <2>4, <3>1, AgreeFacts
    <2> QED BY <2>2, <2>3, <2>4
  <1> HIDE DEF H2
  <1> QED BY <1>1, <1>2, <1>3, <1>4, <1>5, <1>6, <1>7, <1>8, <1>9, <1>10, <1>11 DEF H2

LEMMA GrowsKeepsLogInv ==
    ASSUME ElectionTypeOK, ElectionTypeOK', ElectionSafety', \A v \in Server : VoteKept(v),
           PlainInv, PlainInv', NEW H \in Histories, LogInv(H),
           NEW i \in Server, NEW es \in Seq(Entry), Grows(i, es),
           NEW H2 \in Histories, H2 = Grown(H, i)
    PROVE  LogInv(H2)'
  <1> DEFINE T == current_term'[i]
             L == log[i]
             N == log'[i]
  <1>1. /\ T \in Nat /\ current_term[i] \in Nat /\ current_term[i] <= T
        /\ N \in Seq(Entry) /\ L \in Seq(Entry)
        /\ Len(N) = Len(L) + Len(es) /\ Len(es) >= 1
        /\ \A k \in 1 .. Len(L) : N[k] = L[k]
        /\ \A k \in (Len(L) + 1) .. Len(N) : N[k].term = T
        /\ \A j \in Server \ {i} : log'[j] = log[j] /\ role'[j] = role[j]
                                   /\ current_term'[j] = current_term[j]
        /\ role'[i] = Leader
    BY GrowthFacts
  <1>2. /\ role[i] = Leader => T = current_term[i]
        /\ \E e \in elected' : e.term = T /\ e.leader = i
        /\ H2 \in Histories /\ Continues(H, H2)
        /\ H2[T] = N
        /\ \A t \in Nat \ {T} : H2[t] = H[t]
    BY GrowthFacts
  <1>3. Len(L) \in Nat /\ Len(N) \in Nat
    BY <1>1
  <1>4. LeadersKnown(H2)'
    <2>1. ASSUME NEW t \in Nat, H2[t] # <<>> PROVE \E e \in elected' : e.term = t
      <3>1. CASE t = T
        BY <1>2, <3>1
      <3>2. CASE t # T
        <4>1. PICK e \in elected : e.term = t
          BY <1>2, <2>1, <3>2 DEF LogInv, LeadersKnown
        <4> QED BY <4>1 DEF Grows, Leads
      <3> QED BY <3>1, <3>2
    <2>2. ASSUME NEW e \in elected'
          PROVE  /\ e.term <= current_term'[e.leader]
                 /\ e.term = current_term'[e.leader] => role'[e.leader] # Candidate
      <3>1. CASE e \in elected
        <4>1. e.leader \in Server /\ e.term \in Nat
          BY <3>1 DEF ElectionTypeOK
        <4>2. /\ e.term <= current_term[e.leader]
              /\ e.term = current_term[e.leader] => role[e.leader] # Candidate
          BY <3>1 DEF LogInv, LeadersKnown
        <4>3. CASE e.leader = i
          BY <1>1, <4>1, <4>2, <4>3 DEF Leader, Candidate
        <4>4. CASE e.leader # i
          BY <1>1, <4>1, <4>2, <4>4
        <4> QED BY <4>3, <4>4
      <3>2. CASE e \notin elected
        <4>1. e.term = T /\ e.leader = i
          BY <2>2, <3>2 DEF Grows, Leads
        <4> QED BY <1>1, <4>1 DEF Leader, Candidate
      <3> QED BY <3>1, <3>2
    <2>3. ASSUME NEW j \in Server, role'[j] = Leader
          PROVE  /\ log'[j] = H2[current_term'[j]] /\ log'[j] # <<>>
                 /\ \E e \in elected' : e.term = current_term'[j] /\ e.leader = j
      <3>1. CASE j = i
        <4>1. N # <<>>
          <5>1. Len(N) # 0
            BY <1>1, <1>3
          <5> QED BY <1>1, <5>1, EmptySeq
        <4> QED BY <1>2, <3>1, <4>1
      <3>2. CASE j # i
        <4>1. log'[j] = log[j] /\ role[j] = Leader /\ current_term'[j] = current_term[j]
          BY <1>1, <2>3, <3>2
        <4>2. PICK e \in elected : e.term = current_term[j] /\ e.leader = j
          BY <4>1 DEF LogInv, LeadersKnown
        <4>3. e \in elected'
          BY DEF Grows, Leads
        <4>4. current_term[j] # T
          BY <1>2, <3>2, <4>2, <4>3 DEF ElectionSafety
        <4>5. H2[current_term[j]] = H[current_term[j]]
          BY <1>2, <4>4 DEF ElectionTypeOK
        <4> QED BY <4>1, <4>2, <4>3, <4>5 DEF LogInv, LeadersKnown
      <3> QED BY <3>1, <3>2
    <2> QED BY <2>1, <2>2, <2>3 DEF LeadersKnown
  <1>5. Rooted(N, H2) /\ Ordered(N, T)
    <2>1. Rooted(L, H2)
      BY <1>1, <1>2, RootedContinued DEF LogInv, LogsRooted
    <2>2. ASSUME NEW k \in 1 .. Len(N) PROVE Agree(N, H2[N[k].term], k)
      <3>1. CASE k <= Len(L)
        <4>1. k \in 1 .. Len(L) /\ k \in Nat /\ N[k] = L[k]
          BY <1>1, <1>3, <3>1
        <4>2. Agree(L, H2[N[k].term], k)
          BY <2>1, <4>1 DEF Rooted
        <4>3. Agree(N, L, k)
          BY <1>1, <1>3, <4>1 DEF Agree
        <4>4. H2[N[k].term] \in Seq(Entry)
          BY <1>1, <1>2, EntryTerm DEF Histories
        <4> QED BY <1>1, <4>1, <4>2, <4>3, <4>4, AgreeFacts
      <3>2. CASE k > Len(L)
        <4>1. k \in (Len(L) + 1) .. Len(N) /\ k \in Nat /\ k <= Len(N)
          BY <1>3, <3>2
        <4> QED BY <1>1, <1>2, <4>1, AgreeFacts
      <3> QED BY <1>3, <3>1, <3>2
    <2>3. ASSUME NEW k \in 1 .. Len(N) PROVE N[k].term <= T /\ N[k].term \in Nat
      <3>1. N[k].term \in Nat
        BY <1>1, EntryTerm
      <3>2. CASE k <= Len(L)
        <4>1. k \in 1 .. Len(L) /\ N[k] = L[k]
          BY <1>1, <1>3, <3>2
        <4>2. L[k].term <= current_term[i]
          BY <4>1 DEF LogInv, LogsRooted, Ordered
        <4> QED BY <1>1, <3>1, <4>1, <4>2
      <3>3. CASE k > Len(L)
        <4>1. k \in (Len(L) + 1) .. Len(N)
          BY <1>3, <3>3
        <4> QED BY <1>1, <4>1
      <3> QED BY <1>3, <3>2, <3>3
    <2>4. ASSUME NEW k \in 1 .. Len(N), NEW j \in 1 .. k PROVE N[j].term <= N[k].term
      <3>1. CASE k <= Len(L)
        <4>1. k \in 1 .. Len(L) /\ N[k] = L[k] /\ N[j] = L[j]
          BY <1>1, <1>3, <3>1
        <4>2. L[j].term <= L[k].term
          BY <4>1 DEF LogInv, LogsRooted, Ordered
        <4> QED BY <4>1, <4>2
      <3>2. CASE k > Len(L)
        <4>1. k \in (Len(L) + 1) .. Len(N) /\ j \in 1 .. Len(N)
          BY <1>3, <3>2
        <4> QED BY <1>1, <2>3, <4>1
      <3> QED BY <1>3, <3>1, <3>2
    <2> QED BY <2>2, <2>3, <2>4 DEF Rooted, Ordered
  <1>6. LogsRooted(H2)'
    <2>1. ASSUME NEW j \in Server PROVE Rooted(log'[j], H2) /\ Ordered(log'[j], current_term'[j])
      <3>1. CASE j # i
        <4>1. log'[j] = log[j] /\ current_term'[j] = current_term[j] /\ log[j] \in Seq(Entry)
          BY <1>1, <3>1 DEF PlainInv
        <4>2. Rooted(log[j], H) /\ Ordered(log[j], current_term[j])
          BY DEF LogInv, LogsRooted
        <4> QED BY <1>2, <4>1, <4>2, RootedContinued
      <3> QED BY <1>5, <3>1
    <2>2. ASSUME NEW t \in Nat PROVE Rooted(H2[t], H2) /\ Ordered(H2[t], t)
      <3>1. CASE t # T
        <4>1. H2[t] = H[t] /\ H[t] \in Seq(Entry) /\ Rooted(H[t], H) /\ Ordered(H[t], t)
          BY <1>2, <3>1 DEF LogInv, LogsRooted, Histories
        <4> QED BY <1>2, <4>1, RootedContinued
      <3> QED BY <1>2, <1>5, <3>1
    <2> QED BY <2>1, <2>2 DEF LogsRooted
  <1>7. RequestsRooted(H2)'
    <2> SUFFICES ASSUME NEW m \in append_requests' PROVE PieceOf(m, H2[m.term])
      BY DEF RequestsRooted, PieceOf, MatchReported
    <2>1. m \in AppendRequest /\ m.term \in Nat /\ m.entries \in Seq(Entry)
          /\ m.prev_log_index \in Nat
      BY DEF PlainInv, AppendRequest
    <2>2. CASE m \in append_requests
      <3> DEFINE A == H[m.term]
                 B == H2[m.term]
      <3>1. PieceOf(m, A)
        BY <2>2 DEF LogInv, RequestsRooted
      <3>2. Agree(A, B, Len(A)) /\ A \in Seq(Entry) /\ B \in Seq(Entry)
        BY <1>2, <2>1 DEF Continues, Histories
      <3> HIDE DEF A, B
      <3>3. Len(A) \in Nat /\ Len(B) \in Nat /\ Len(m.entries) \in Nat
        BY <2>1, <3>2
      <3>4. 1 <= MatchReported(m) /\ MatchReported(m) <= Len(B)
        BY <2>1, <3>1, <3>2, <3>3 DEF PieceOf, Agree, MatchReported
      <3>5. ASSUME NEW k \in 1 .. Len(m.entries) PROVE m.entries[k] = B[m.prev_log_index + k]
        <4>1. m.prev_log_index + k \in 1 .. Len(A)
          BY <2>1, <3>1, <3>3 DEF PieceOf, MatchReported
        <4> QED BY <3>1, <3>2, <4>1 DEF PieceOf, Agree
      <3>6. ASSUME m.prev_log_index > 0 PROVE m.prev_log_term = B[m.prev_log_index].term
        <4>1. m.prev_log_index \in 1 .. Len(A)
          BY <2>1, <3>1, <3>3, <3>6 DEF PieceOf, MatchReported
        <4> QED BY <3>1, <3>2, <3>6, <4>1 DEF PieceOf, Agree
      <3> QED BY <3>4, <3>5, <3>6 DEF PieceOf, B
    <2>3. CASE m \notin append_requests
      <3>1. role[i] = Leader /\ Carries(m, i, N)
        BY <2>3 DEF Grows
      <3>2. m.term = T /\ H2[m.term] = N
        BY <1>2, <3>1 DEF Carries
      <3>3. N # <<>>
        BY <1>1, <1>4 DEF LeadersKnown
      <3> QED BY <1>1, <2>1, <3>1, <3>2, <3>3, CarriesPiece
    <2> QED BY <2>2, <2>3
  <1> QED BY <1>4, <1>6, <1>7 DEF LogInv

LEMMA MergesKeepsLogInv ==
    ASSUME ElectionTypeOK, ElectionTypeOK', \A v \in Server : VoteKept(v), PlainInv, PlainInv',
           NothingCompacted, NEW H \in Histories, LogInv(H), NEW m \in append_requests, Merges(m)
    PROVE  LogInv(H)'
  <1> DEFINE i == m.dest
             L == log[i]
             M == MergedLog(i, m)
             N == H[m.term]
             n == MatchReported(m)
  <1>1. i \in Server /\ m.term \in Nat /\ m \in AppendRequest
    BY DEF ElectionTypeOK, PlainInv
  <1>2. \A v \in Server : /\ current_term[v] \in Nat /\ current_term'[v] \in Nat
                          /\ current_term[v] <= current_term'[v]
    BY DEF ElectionTypeOK, VoteKept
  <1>3. /\ log'[i] = M /\ role'[i] = Follower /\ current_term'[i] = m.term /\ elected' = elected
        /\ \A j \in Server \ {i} : log'[j] = log[j] /\ role'[j] = role[j]
                                   /\ current_term'[j] = current_term[j]
    <2>1. log'[i] = M /\ \A j \in Server \ {i} : log'[j] = log[j]
      BY <1>1 DEF Merges, PlainInv
    <2>2. role'[i] = Follower /\ \A j \in Server \ {i} : role'[j] = role[j]
      BY <1>1 DEF Merges, ElectionTypeOK
    <2>3. current_term'[i] = m.term /\ \A j \in Server \ {i} : current_term'[j] = current_term[j]
      BY <1>1 DEF Merges, ElectionTypeOK
    <2> QED BY <2>1, <2>2, <2>3 DEF Merges
  <1>4. /\ M \in Seq(Entry) /\ n \in Nat /\ Agree(M, N, n)
        /\ M = L \/ Len(M) = n
    BY <1>1, MergeOutcome DEF Merges, LogInv, RequestsRooted
  <1>5. N \in Seq(Entry) /\ Rooted(N, H) /\ Ordered(N, m.term) /\ L \in Seq(Entry)
        /\ Rooted(L, H) /\ Ordered(L, current_term[i])
    BY <1>1 DEF LogInv, LogsRooted, Histories, PlainInv
  <1> HIDE DEF i, L, M, N, n
  <1>6. LeadersKnown(H)'
    <2>1. ASSUME NEW e \in elected
          PROVE  /\ e.term <= current_term'[e.leader]
                 /\ e.term = current_term'[e.leader] => role'[e.leader] # Candidate
      <3>1. e.term \in Nat /\ e.leader \in Server
        BY DEF ElectionTypeOK
      <3>2. /\ e.term <= current_term[e.leader]
            /\ e.term = current_term[e.leader] => role[e.leader] # Candidate
        BY DEF LogInv, LeadersKnown
      <3> QED BY <1>2, <1>3, <3>1, <3>2 DEF Follower, Candidate
    <2>2. ASSUME NEW j \in Server, role'[j] = Leader
          PROVE  /\ log'[j] = H[current_term'[j]] /\ log'[j] # <<>>
                 /\ \E e \in elected' : e.term = current_term'[j] /\ e.leader = j
      <3>1. j # i
        BY <1>3, <2>2 DEF Follower, Leader
      <3> QED BY <1>3, <2>2, <3>1 DEF LogInv, LeadersKnown
    <2> QED BY <1>3, <2>1, <2>2 DEF LogInv, LeadersKnown
  <1>7. Rooted(M, H) /\ Ordered(M, m.term)
    <2>1. CASE M = L
      <3>1. current_term[i] <= m.term /\ current_term[i] \in Nat
        BY <1>1, <1>2, <1>3
      <3>2. \A k \in 1 .. Len(L) : L[k].term \in Nat
        BY <1>5, EntryTerm
      <3> QED BY <1>1, <1>5, <2>1, <3>1, <3>2 DEF Ordered
    <2>2. CASE Len(M) = n
      <3>1. \A k \in 1 .. n : M[k] = N[k] /\ k \in 1 .. Len(N)
        <4>1. n <= Len(N) /\ \A k \in 1 .. n : M[k] = N[k]
          BY <1>4 DEF Agree
        <4>2. Len(N) \in Nat
          BY <1>5
        <4> QED BY <1>4, <4>1, <4>2
      <3>2. ASSUME NEW k \in 1 .. Len(M) PROVE Agree(M, H[M[k].term], k)
        <4>1. k \in 1 .. n /\ k \in Nat /\ k \in 0 .. n /\ M[k] = N[k]
          BY <1>4, <2>2, <3>1
        <4>2. Agree(M, N, k)
          BY <1>4, <1>5, <4>1, AgreeFacts
        <4>3. Agree(N, H[M[k].term], k)
          BY <1>5, <3>1, <4>1 DEF Rooted
        <4>4. H[M[k].term] \in Seq(Entry)
          BY <1>4, EntryTerm DEF Histories
        <4> QED BY <1>4, <1>5, <4>1, <4>2, <4>3, <4>4, AgreeFacts
      <3>3. ASSUME NEW k \in 1 .. Len(M)
            PROVE  M[k].term <= m.term /\ \A j \in 1 .. k : M[j].term <= M[k].term
        <4>1. k \in 1 .. n /\ \A j \in 1 .. k : j \in 1 .. n
          BY <1>4, <2>2
        <4>2. N[k].term <= m.term /\ \A j \in 1 .. k : N[j].term <= N[k].term
          BY <1>5, <3>1, <4>1 DEF Ordered
        <4> QED BY <3>1, <4>1, <4>2
      <3> QED BY <3>2, <3>3 DEF Rooted, Ordered
    <2> QED BY <1>4, <2>1, <2>2
  <1>8. LogsRooted(H)'
    <2>1. ASSUME NEW j \in Server PROVE Rooted(log'[j], H) /\ Ordered(log'[j], current_term'[j])
      <3>1. CASE j = i
        BY <1>3, <1>7, <3>1
      <3>2. CASE j # i
        BY <1>3, <3>2 DEF LogInv, LogsRooted
      <3> QED BY <3>1, <3>2
    <2> QED BY <2>1 DEF LogInv, LogsRooted
  <1>9. RequestsRooted(H)'
    BY DEF Merges, LogInv, RequestsRooted, PieceOf, MatchReported
  <1> QED BY <1>6, <1>8, <1>9 DEF LogInv

-----------------------------------------------------------------------------
(* The invariant.                                                          *)

LogsInv == ElectionInv /\ PlainInv /\ NoVoteAhead /\ \E H \in Histories : LogInv(H)

LEMMA PlainInit == Init => PlainInv /\ NoVoteAhead
  <1> SUFFICES ASSUME Init PROVE PlainInv /\ NoVoteAhead
    OBVIOUS
  <1>1. log = [i \in Server |-> <<>>] /\ log \in [Server -> Seq(Entry)] /\ db_log = log
    BY DEF Init
  <1>2. /\ commit_index \in [Server -> Nat] /\ last_applied = commit_index
        /\ next_index \in [Server -> [Server -> Nat \ {0}]]
        /\ match_index \in [Server -> [Server -> Nat]]
    BY DEF Init
  <1> QED BY <1>1, <1>2 DEF Init, PlainInv, NoVoteAhead

\* At the start no term has a leader.
NoLeaders == [t \in Nat |-> <<>>]

LEMMA LogInvInit == Init => NoLeaders \in Histories /\ LogInv(NoLeaders)
  <1> SUFFICES ASSUME Init PROVE NoLeaders \in Histories /\ LogInv(NoLeaders)
    OBVIOUS
  <1>1. <<>> \in Seq(Entry) /\ Len(<<>>) = 0 /\ \A k : k \notin 1 .. Len(<<>>)
    OBVIOUS
  <1>2. NoLeaders \in Histories /\ \A t \in Nat : NoLeaders[t] = <<>>
    BY <1>1 DEF NoLeaders, Histories
  <1>3. LeadersKnown(NoLeaders)
    BY <1>2 DEF Init, LeadersKnown, Follower, Leader
  <1>4. \A t, G : Rooted(<<>>, G) /\ Ordered(<<>>, t)
    BY <1>1, Zenon DEF Rooted, Ordered
  <1>5. \A i \in Server : log[i] = <<>>
    BY DEF Init
  <1>6. LogsRooted(NoLeaders)
    BY <1>2, <1>4, <1>5, Zenon DEF LogsRooted
  <1> QED BY <1>2, <1>3, <1>6 DEF LogInv, RequestsRooted, Init

\* The history after a step: longer where a leader's log has grown.
Follows(H, H2) ==
    \/ /\ LogKept \/ \E m \in append_requests : Merges(m)
       /\ H2 = H
    \/ \E i \in Server : /\ \E es \in Seq(Entry) : Grows(i, es)
                         /\ H2 = Grown(H, i)

LEMMA LogInvStep ==
    ASSUME ElectionInv, ElectionInv', \A v \in Server : VoteKept(v), PlainInv, PlainInv',
           NothingCompacted, LogStep, NEW H \in Histories, LogInv(H)
    PROVE  \E H2 \in Histories : Follows(H, H2) /\ LogInv(H2)'
  <1>1. ElectionTypeOK /\ ElectionTypeOK' /\ ElectionSafety'
    <2>1. ElectionSafety'
      BY ElectionInvSafe, PTL
    <2> QED BY <2>1 DEF ElectionInv
  <1>2. CASE LogKept
    BY <1>1, <1>2, KeptKeepsLogInv DEF Follows
  <1>3. ASSUME NEW i \in Server, NEW es \in Seq(Entry), Grows(i, es)
        PROVE  \E H2 \in Histories : Follows(H, H2) /\ LogInv(H2)'
    <2>1. PICK H2 \in Histories : H2 = Grown(H, i)
      BY <1>1, <1>3, GrowthFacts
    <2>2. LogInv(H2)'
      BY <1>1, <1>3, <2>1, GrowsKeepsLogInv
    <2> QED BY <1>3, <2>1, <2>2 DEF Follows
  <1>4. ASSUME NEW m \in append_requests, Merges(m)
        PROVE  \E H2 \in Histories : Follows(H, H2) /\ LogInv(H2)'
    <2>1. LogInv(H)'
      BY <1>1, <1>4, MergesKeepsLogInv
    <2> QED BY <1>4, <2>1 DEF Follows
  <1> QED BY <1>2, <1>3, <1>4 DEF LogStep

LEMMA PlainInvStep ==
    ASSUME ElectionInv, PlainInv, NoVoteAhead, NothingCompacted, NothingCompacted', [Next]_vars
    PROVE  /\ ElectionInv' /\ PlainInv' /\ NoVoteAhead' /\ PlainStep
           /\ \A v \in Server : VoteKept(v)
  <1>1. ElectionInv' /\ \A v \in Server : VoteKept(v)
    BY ElectionInvStep, NextStep DEF ElectionInv, VoteStep
  <1>2. ElectionTypeOK
    BY DEF ElectionInv
  <1>3. PlainInv' /\ PlainStep
    BY <1>2, PlainNext, PlainStutter
  <1>4. NoVoteAhead'
    <2>1. ElectionTypeOK' /\ \A v \in Server : current_term[v] <= current_term'[v]
      BY <1>1 DEF ElectionInv, VoteKept
    <2> QED BY <1>2, <1>3, <2>1, VotesStayBehind
  <1> QED BY <1>1, <1>3, <1>4

LEMMA LogsInvInit == Init => LogsInv
  BY ElectionInvInit, PlainInit, LogInvInit DEF LogsInv

LEMMA LogsInvStep ==
    ASSUME LogsInv, NothingCompacted, NothingCompacted', [Next]_vars
    PROVE  LogsInv'
  <1>1. PICK H \in Histories : LogInv(H)
    BY DEF LogsInv
  <1>2. /\ ElectionInv' /\ PlainInv' /\ NoVoteAhead' /\ PlainStep
        /\ \A v \in Server : VoteKept(v)
    BY PlainInvStep DEF LogsInv
  <1>3. \E H2 \in Histories : LogInv(H2)'
    BY <1>1, <1>2, LogInvStep DEF LogsInv, PlainStep
  <1> QED BY <1>2, <1>3 DEF LogsInv

LEMMA LogsInvMatching == LogsInv /\ NothingCompacted => LogMatching
  <1> SUFFICES ASSUME LogsInv, NothingCompacted, NEW i \in Server, NEW j \in Server,
                      NEW k \in 1 .. LastIndex(i), k <= LastIndex(j),
                      EntryAt(i, k).term = EntryAt(j, k).term,
                      NEW n \in 1 .. LastIndex(i), n <= k
               PROVE  EntryAt(i, n) = EntryAt(j, n)
    BY DEF LogMatching
  <1>1. PICK H \in Histories : LogInv(H)
    BY DEF LogsInv
  <1>2. /\ log[i] \in Seq(Entry) /\ log[j] \in Seq(Entry)
        /\ LastIndex(i) = Len(log[i]) /\ LastIndex(j) = Len(log[j])
    BY PlainFacts DEF LogsInv, PlainInv
  <1>3. k \in 1 .. Len(log[i]) /\ k <= Len(log[j]) /\ n \in 1 .. k
    BY <1>2
  <1>4. ASSUME NEW x \in Server, NEW q \in 1 .. Len(log[i]) PROVE EntryAt(x, q) = log[x][q]
    <2>1. last_included_index[x] = 0 /\ q - 0 = q
      BY <1>2 DEF NothingCompacted
    <2> QED BY <2>1 DEF EntryAt
  <1>5. Agree(log[i], log[j], k)
    <2>1. Rooted(log[i], H) /\ Rooted(log[j], H)
      BY <1>1 DEF LogInv, LogsRooted
    <2>2. log[i][k].term = log[j][k].term
      BY <1>3, <1>4
    <2> QED BY <1>2, <1>3, <2>1, <2>2, RootedTwins
  <1>6. n \in 1 .. Len(log[i])
    BY <1>2
  <1> QED BY <1>3, <1>4, <1>5, <1>6 DEF Agree

LEMMA LogsInvRecovers == LogsInv /\ NothingCompacted => RestartRecoversLog
  <1> SUFFICES ASSUME LogsInv, NothingCompacted, NEW i \in Server
               PROVE  LoadedLog(db_log[i], last_included_index[i]) = log[i]
    BY DEF RestartRecoversLog
  <1>1. db_log[i] = log[i] /\ log[i] \in Seq(Entry) /\ last_included_index[i] = 0
    BY DEF LogsInv, PlainInv, NothingCompacted
  <1> QED BY <1>1, LoadIsLog

\* The inductive invariant: in every behaviour in which nothing is compacted, the logs,
\* the requests under way and the leaders' logs of all terms belong together.
THEOREM LogsInvariant == Spec /\ []NothingCompacted => []LogsInv
  <1>1. LogsInv /\ NothingCompacted /\ NothingCompacted' /\ [Next]_vars => LogsInv'
    BY LogsInvStep
  <1> QED BY LogsInvInit, <1>1, PTL DEF Spec

\* Two logs that agree on the term of an entry agree on it and on everything before it
\* (become_leader, handle_event_batch, AppendEntries), for any number of servers,
\* whatever is lost, repeated or reordered and whoever restarts: in every behaviour in
\* which nothing is compacted.
THEOREM LogsMatch == Spec /\ []NothingCompacted => []LogMatching
  BY LogsInvariant, LogsInvMatching, PTL

\* What load_state would find is the log the node works with: save_log_entries_batch
\* and delete_log_entries_from leave neither gaps nor remains, in every behaviour in
\* which nothing is compacted.
THEOREM RestartsRecover == Spec /\ []NothingCompacted => []RestartRecoversLog
  BY LogsInvariant, LogsInvRecovers, PTL

-----------------------------------------------------------------------------
(* When the proviso holds: as long as no log comes near SNAPSHOT_THRESHOLD. *)

\* No log, with its dummy entry and one entry more, is too long for a tick.
ShortLogs ==
    "truncate" \notin CrashWindows /\ \A i \in Server : Len(log[i]) + 2 <= SnapshotThreshold

LEMMA ShortNotCompacted ==
    ASSUME NEW i \in Server, NEW L, NEW D, NEW a, NEW state, Len(L) \in Nat,
           Len(L) + 1 <= SnapshotThreshold, Compact(i, L, D, a, state)
    PROVE  last_included_index' = last_included_index
  <1>1. ~NeedsSnapshot(i, L, a)
    BY BoundAssumption DEF NeedsSnapshot
  <1> QED BY <1>1 DEF Compact

LEMMA RebootSameIndex ==
    ASSUME NothingCompacted, NEW i \in Server, NEW t, NEW v, NEW D, NEW lit, NEW data,
           Reboot(i, t, v, D, last_included_index[i], lit, data)
    PROVE  last_included_index' = last_included_index
  <1>1. last_included_index' = [last_included_index EXCEPT ![i] = last_included_index[i]]
    BY DEF Reboot
  <1> QED BY <1>1 DEF NothingCompacted

LEMMA ShortStep ==
    ASSUME ElectionTypeOK, PlainInv, NothingCompacted, ShortLogs, Next
    PROVE  last_included_index' = last_included_index
  <1>1. ASSUME NEW i \in Server
        PROVE  /\ Len(log[i]) \in Nat /\ Len(log[i]) + 1 <= SnapshotThreshold
               /\ log[i] \in Seq(Entry)
    BY BoundAssumption DEF PlainInv, ShortLogs
  <1>2. ASSUME NEW i \in Server, SoleMemberElection(i)
        PROVE  last_included_index' = last_included_index
    <2>1. /\ Len(LogWithNoOp(i, current_term[i] + 1)) \in Nat
          /\ Len(LogWithNoOp(i, current_term[i] + 1)) + 1 <= SnapshotThreshold
      <3> DEFINE e == [term |-> current_term[i] + 1, command |-> NoOp]
      <3>1. e \in Entry
        BY DEF Entry, ElectionTypeOK
      <3> HIDE DEF e
      <3>2. Len(Append(log[i], e)) = Len(log[i]) + 1
        BY <1>1, <3>1
      <3> QED BY <1>1, <3>2, BoundAssumption DEF e, LogWithNoOp, ShortLogs
    <2> QED BY <1>2, <2>1, ShortNotCompacted DEF SoleMemberElection
  <1>3. ASSUME NEW i \in Server, ElectionTimeout(i) \/ QuietTick(i) \/ LeaderTick(i)
        PROVE  last_included_index' = last_included_index
    <2>1. Compact(i, log[i], db_log[i], last_applied[i], app_state[i])
      BY <1>3 DEF ElectionTimeout, QuietTick, LeaderTick
    <2> QED BY <1>1, <2>1, ShortNotCompacted
  <1>4. ASSUME NEW i \in Server, (\E b \in Batches : ClientRequest(i, b)) \/ GetReadIndex(i)
        PROVE  last_included_index' = last_included_index
    BY <1>4 DEF ClientRequest, GetReadIndex, diskVars
  <1>5. ASSUME NEW i \in Server, Restart(i) \/ CrashInStartElection(i)
        PROVE  last_included_index' = last_included_index
    BY <1>5, RebootSameIndex DEF Restart, CrashInStartElection
  <1>6. ASSUME NEW i \in Server, CrashInCreateSnapshot(i) PROVE FALSE
    BY <1>1, <1>6, BoundAssumption DEF CrashInCreateSnapshot, NeedsSnapshot
  <1>7. ASSUME NEW lost \in BOOLEAN,
               \/ \E m \in vote_requests : HandleRequestVote(m, lost)
               \/ \E m \in append_requests : HandleAppendEntries(m, lost)
        PROVE  last_included_index' = last_included_index
    BY <1>7 DEF HandleRequestVote, HandleAppendEntries, diskVars
  <1>8. ASSUME NEW m, HandleRequestVoteResponse(m) \/ HandleAppendEntriesResponse(m)
        PROVE  last_included_index' = last_included_index
    BY <1>8 DEF HandleRequestVoteResponse, HandleAppendEntriesResponse, StepDownOnReply, diskVars
  <1>9. ASSUME NEW m \in vote_requests \cup append_requests \cup snap_requests
                     \cup vote_replies \cup append_replies \cup snap_replies, CrashInStepDown(m)
        PROVE  last_included_index' = last_included_index
    <2>1. m.dest \in Server
      BY DEF ElectionTypeOK
    <2> QED BY <1>9, <2>1, RebootSameIndex DEF CrashInStepDown
  <1>10. ASSUME NEW m \in append_requests, CrashInTruncate(m) PROVE FALSE
    BY <1>10 DEF CrashInTruncate, NothingCompacted
  <1>11. ASSUME LoseExchange PROVE last_included_index' = last_included_index
    BY <1>11 DEF LoseExchange, diskVars
  <1>12. snap_requests = {} /\ snap_replies = {}
    BY DEF PlainInv
  <1> QED BY <1>2, <1>3, <1>4, <1>5, <1>6, <1>7, <1>8, <1>9, <1>10, <1>11, <1>12 DEF Next

\* Nothing is compacted, by tick or by install_snapshot, as long as every log stays two
\* entries below the threshold of tick: the proviso of the theorems is one on the
\* length of logs, and the first snapshot ends it.
THEOREM ShortLogsStayWhole == Spec /\ []ShortLogs => []NothingCompacted
  <1>1. Init /\ ShortLogs => NothingCompacted
    BY DEF Init, ShortLogs, NothingCompacted
  <1>2. LogsInv /\ NothingCompacted /\ ShortLogs /\ [Next]_vars => LogsInv' /\ NothingCompacted'
    <2> SUFFICES ASSUME LogsInv, NothingCompacted, ShortLogs, [Next]_vars
                 PROVE  LogsInv' /\ NothingCompacted'
      OBVIOUS
    <2>1. last_included_index' = last_included_index
      <3>1. ElectionTypeOK /\ PlainInv
        BY DEF LogsInv, ElectionInv
      <3>2. CASE UNCHANGED vars
        BY <3>2 DEF vars, diskVars
      <3> QED BY <3>1, <3>2, ShortStep
    <2>2. NothingCompacted'
      BY <2>1 DEF NothingCompacted
    <2> QED BY <2>2, LogsInvStep
  <1> QED BY LogsInvInit, <1>1, <1>2, PTL DEF Spec
=============================================================================

----------------------- MODULE SimpleRaftSafetyProofs -----------------------
(***************************************************************************)
(* The safety of SimpleRaft for every number of servers and every bound, as *)
(* long as nothing is compacted (NothingCompacted): leaders are complete,   *)
(* state machines agree, what is acknowledged stays, and the group          *)
(* implements ReplicatedLog.                                               *)
(*                                                                         *)
(* An index is Known to be committed when some leader committed it or more, *)
(* with a majority that accepted it: every later leader has it (LaterHave). *)
(*                                                                         *)
(* At the end, a group of one member, where compaction is allowed: its log  *)
(* is the committed log, from the snapshot on (SoleInv).                    *)
(***************************************************************************)
EXTENDS SimpleRaftCommitProofs

\* The leader of term T has committed its own entry c, or may do so now.
Committed(H, A, T, c) ==
    Own(H, T, c) /\ \E Q \in SUBSET Server : HasMajority(Q) /\ \A v \in Q : <<v, T, c>> \in A

\* The first k entries of log L were committed by leaders of terms up to t.
Known(H, A, L, t, k) ==
    \/ k = 0
    \/ \E T, c \in Nat : T <= t /\ k <= c /\ Committed(H, A, T, c) /\ Agree(L, H[T], k)

CommitsKnown(H, A) ==
    \A i \in Server : /\ Known(H, A, log[i], current_term[i], commit_index[i])
                      /\ commit_index[i] <= Len(chosen)

RequestsKnown(H, A) ==
    \A m \in append_requests : /\ Known(H, A, H[m.term], m.term, m.leader_commit)
                               /\ m.leader_commit <= MatchReported(m)
                               /\ m.leader_commit <= Len(chosen)

\* Each entry of K is an entry a leader committed.
ChosenTrue(H, A, K) ==
    \A k \in 1 .. Len(K) : \E c \in Nat :
      k <= c /\ Committed(H, A, K[k].at, c) /\ H[K[k].at][k] = K[k].entry

StatesTrue ==
    \A i \in Server : /\ Len(app_state[i]) = commit_index[i]
                      /\ \A k \in 1 .. commit_index[i] : app_state[i][k] = log[i][k].command

AcksChosen ==
    \A w \in acked : w.index \in 1 .. Len(chosen) /\ chosen[w.index].entry.command = w.command

CommitInv(H, A) ==
    /\ CommitTypes /\ PendingTrue /\ StatesTrue /\ AcksChosen
    /\ CommitsKnown(H, A) /\ RequestsKnown(H, A) /\ ChosenTrue(H, A, chosen)

-----------------------------------------------------------------------------
(* What is committed.                                                      *)

LaterHave(H, A) ==
    \A T, U, c \in Nat : (T < U /\ H[U] # <<>> /\ Committed(H, A, T, c)) => Agree(H[U], H[T], c)

\* What a majority accepted is not lost.
LEMMA NotLost ==
    ASSUME NEW H, NEW A, NEW T, NEW c, Committed(H, A, T, c)
    PROVE  ~Lost(A, T, c) /\ ~Lost(A, T, c)'
  <1>1. PICK Q \in SUBSET Server : HasMajority(Q) /\ \A v \in Q : <<v, T, c>> \in A
    BY DEF Committed
  <1>2. ASSUME NEW R \in SUBSET Server, HasMajority(R), \A v \in R : <<v, T, c>> \notin A
        PROVE  FALSE
    <2>1. Q \cap R # {}
      BY <1>1, <1>2, MajoritiesMeet
    <2> QED BY <1>1, <1>2, <2>1
  <1>3. ~Lost(A, T, c)
    BY <1>2 DEF Lost
  <1>4. ~Lost(A, T, c)'
    BY <1>2 DEF Lost, HasMajority
  <1> QED BY <1>3, <1>4

LEMMA SafeLater ==
    ASSUME NEW H, NEW A
    PROVE  (Safe(H, A) => LaterHave(H, A)) /\ (Safe(H, A)' => LaterHave(H, A))
  <1>1. ASSUME NEW T \in Nat, NEW c \in Nat, Committed(H, A, T, c)
        PROVE  ~Lost(A, T, c) /\ ~Lost(A, T, c)' /\ Own(H, T, c)
    BY <1>1, NotLost DEF Committed
  <1>2. Safe(H, A) => LaterHave(H, A)
    BY <1>1 DEF Safe, HasOrLost, LaterHave
  <1>3. Safe(H, A)' => LaterHave(H, A)
    BY <1>1 DEF Safe, HasOrLost, LaterHave, Own, Agree
  <1> QED BY <1>2, <1>3

\* What two leaders committed agrees.
LEMMA CommittedAgree ==
    ASSUME NEW H \in Histories, NEW A, LaterHave(H, A),
           NEW T \in Nat, NEW c \in Nat, Committed(H, A, T, c),
           NEW U \in Nat, NEW d \in Nat, Committed(H, A, U, d),
           NEW k \in Nat, k <= c, k <= d
    PROVE  Agree(H[T], H[U], k)
  <1>1. H[T] \in Seq(Entry) /\ H[U] \in Seq(Entry)
    BY DEF Histories
  <1>2. c \in 1 .. Len(H[T]) /\ d \in 1 .. Len(H[U])
    BY DEF Committed, Own
  <1>3. H[T] # <<>> /\ H[U] # <<>> /\ k <= Len(H[T]) /\ k <= Len(H[U])
    BY <1>1, <1>2
  <1>4. CASE T = U
    BY <1>1, <1>3, <1>4, AgreeFacts
  <1>5. CASE T < U
    <2>1. Agree(H[U], H[T], c)
      BY <1>3, <1>5 DEF LaterHave
    <2> QED BY <1>1, <2>1 DEF Agree
  <1>6. CASE U < T
    <2>1. Agree(H[T], H[U], d)
      BY <1>3, <1>6 DEF LaterHave
    <2> QED BY <1>1, <2>1 DEF Agree
  <1> QED BY <1>4, <1>5, <1>6

LEMMA CommittedStays ==
    ASSUME NEW H, NEW H2, RaftStep(H, H2), NEW A, NEW A2, Accepts(A, A2),
           NEW T \in Nat, NEW c \in Nat, Committed(H, A, T, c)
    PROVE  Committed(H2, A2, T, c)
  <1>1. Own(H2, T, c)
    BY OwnBefore DEF Committed
  <1>2. \A v \in Server : <<v, T, c>> \in A => <<v, T, c>> \in A2
    BY DEF Accepts
  <1> QED BY <1>1, <1>2 DEF Committed

\* What a server knows to be committed it keeps.
LEMMA KnownStays ==
    ASSUME NEW H, NEW H2, RaftStep(H, H2), NEW A, NEW A2, Accepts(A, A2), LaterHave(H, A),
           NEW v \in Server, NEW k \in Nat, Known(H, A, log[v], current_term[v], k)
    PROVE  /\ Known(H2, A2, log'[v], current_term'[v], k)
           /\ Agree(log'[v], log[v], k)
  <1>1. /\ log[v] \in Seq(Entry) /\ log'[v] \in Seq(Entry)
        /\ current_term[v] \in Nat /\ current_term'[v] \in Nat /\ current_term[v] <= current_term'[v]
        /\ \A t \in Nat : H[t] \in Seq(Entry) /\ H2[t] \in Seq(Entry)
    BY StepTypes
  <1>2. CASE k = 0
    BY <1>1, <1>2, AgreeFacts DEF Known
  <1>3. CASE k # 0
    <2>1. PICK T, c \in Nat : /\ T <= current_term[v] /\ k <= c /\ Committed(H, A, T, c)
                              /\ Agree(log[v], H[T], k)
      BY <1>3 DEF Known
    <2>2. ASSUME NEW U \in Nat, T < U, H[U] # <<>> PROVE Agree(H[U], H[T], k)
      <3>1. Agree(H[U], H[T], c)
        BY <2>1, <2>2 DEF LaterHave
      <3>2. H[U] \in Seq(Entry) /\ H[T] \in Seq(Entry)
        BY <1>1
      <3>3. k \in 0 .. c
        BY <2>1
      <3> QED BY <3>1, <3>2, <3>3, AgreeFacts
    <2>3. Agree(log'[v], H[T], k)
      BY <2>1, <2>2, LogAfter
    <2>4. Agree(log'[v], H2[T], k)
      BY <1>1, <2>3, AgreeAfter
    <2>5. Agree(log'[v], log[v], k)
      BY <1>1, <2>1, <2>3, AgreeFacts
    <2>6. T <= current_term'[v] /\ Committed(H2, A2, T, c)
      BY <1>1, <2>1, CommittedStays
    <2> QED BY <2>1, <2>4, <2>5, <2>6 DEF Known
  <1> QED BY <1>2, <1>3

LEMMA KnownOfLeaderStays ==
    ASSUME NEW H, NEW H2, RaftStep(H, H2), NEW A, NEW A2, Accepts(A, A2),
           NEW t \in Nat, NEW k \in Nat, Known(H, A, H[t], t, k)
    PROVE  Known(H2, A2, H2[t], t, k)
  <1>1. CASE k = 0
    BY <1>1 DEF Known
  <1>2. CASE k # 0
    <2>1. PICK T, c \in Nat : T <= t /\ k <= c /\ Committed(H, A, T, c) /\ Agree(H[t], H[T], k)
      BY <1>2 DEF Known
    <2>2. /\ H[t] \in Seq(Entry) /\ H[T] \in Seq(Entry)
          /\ H2[t] \in Seq(Entry) /\ H2[T] \in Seq(Entry)
          /\ Len(H[t]) \in Nat
      BY StepTypes
    <2>3. Agree(H[t], H2[t], Len(H[t]))
      BY HistoryChange DEF Continues
    <2>4. Agree(H[t], H2[t], k)
      BY <2>1, <2>2, <2>3 DEF Agree
    <2>5. Agree(H[t], H2[T], k)
      BY <2>1, <2>2, AgreeAfter
    <2>6. Agree(H2[t], H2[T], k)
      BY <2>2, <2>4, <2>5, AgreeFacts
    <2> QED BY <2>1, <2>6, CommittedStays DEF Known
  <1> QED BY <1>1, <1>2

-----------------------------------------------------------------------------
(* A step keeps CommitInv.                                                 *)

\* The step, its history and acceptances, and what it commits.
SafetyStep(H, H2, A, A2) ==
    /\ RaftStep(H, H2) /\ Accepts(A, A2)
    /\ AcceptInv(H, A) /\ AcceptInv(H2, A2)'
    /\ CommitInv(H, A) /\ CommittingStep

LEMMA SafetyFacts ==
    ASSUME NEW H, NEW H2, NEW A, NEW A2, SafetyStep(H, H2, A, A2)
    PROVE  /\ H \in Histories /\ H2 \in Histories /\ LaterHave(H, A) /\ LaterHave(H2, A2)
           /\ \A i \in Server : /\ commit_index[i] \in Nat /\ commit_index'[i] \in Nat
                                /\ commit_index[i] <= Len(log[i])
           /\ chosen \in Seq([entry : Entry, at : Nat]) /\ Len(chosen) \in Nat
           /\ app_state \in [Server -> Seq(Command \cup {NoOp})]
  <1>1. LaterHave(H, A) /\ LaterHave(H2, A2)
    BY SafeLater DEF SafetyStep, AcceptInv
  <1>2. \A i \in Server : commit_index[i] \in Nat /\ commit_index'[i] \in Nat
    BY DEF SafetyStep, RaftStep, PlainInv
  <1>3. \A i \in Server : commit_index[i] <= Len(log[i])
    <2>1. \A i \in Server : Len(log[i]) \in Nat /\ Known(H, A, log[i], current_term[i], commit_index[i])
      BY StepTypes DEF SafetyStep, CommitInv, CommitsKnown
    <2> QED BY <1>2, <2>1 DEF Known, Agree
  <1>4. chosen \in Seq([entry : Entry, at : Nat]) /\ app_state \in [Server -> Seq(Command \cup {NoOp})]
    BY DEF SafetyStep, CommitInv, CommitTypes
  <1>5. Len(chosen) \in Nat
    BY <1>4, LenProperties
  <1> QED BY <1>1, <1>2, <1>3, <1>4, <1>5 DEF SafetyStep, RaftStep

\* What a leader commits is committed in its term.
LEMMA LeaderCommitted ==
    ASSUME NEW H, NEW H2, NEW A, NEW A2, SafetyStep(H, H2, A, A2),
           NEW i \in Server, NEW c \in Nat, LeaderCommits(i, c)
    PROVE  /\ current_term'[i] \in Nat /\ log'[i] = H2[current_term'[i]]
           /\ c \in 1 .. Len(log'[i])
           /\ Committed(H2, A2, current_term'[i], c)
           /\ Known(H2, A2, log'[i], current_term'[i], c)
  <1> DEFINE t == current_term'[i]
  <1>1. t \in Nat /\ log'[i] \in Seq(Entry) /\ Len(log'[i]) \in Nat
    BY StepTypes DEF SafetyStep
  <1>2. role'[i] = Leader /\ log'[i][c].term = t
    BY DEF LeaderCommits
  <1>3. log'[i] = H2[t]
    BY <1>2 DEF SafetyStep, RaftStep, LogInv, LeadersKnown
  <1>4. c \in 1 .. Len(log'[i])
    <2>1. commit_index[i] < c /\ c <= Len(log'[i]) /\ commit_index[i] \in Nat
      BY SafetyFacts DEF LeaderCommits, Applies
    <2> QED BY <1>1, <2>1
  <1>5. PICK Q \in SUBSET Server : Q = {j \in Server : j = i \/ c <= match_index'[i][j]}
    OBVIOUS
  <1>6. HasMajority(Q)
    BY <1>5 DEF LeaderCommits
  <1>7. ASSUME NEW j \in Q PROVE <<j, t, c>> \in A2
    <2>1. /\ \A k \in 1 .. Len(log'[i]) : <<i, t, k>> \in A2
          /\ \A k \in 1 .. match_index'[i][j] : <<j, t, k>> \in A2
      BY <1>2, <1>5 DEF SafetyStep, AcceptInv, MatchTrue
    <2>2. match_index'[i][j] \in Nat
      BY <1>5 DEF SafetyStep, RaftStep, PlainInv
    <2>3. j = i \/ c <= match_index'[i][j]
      BY <1>5
    <2>4. c \in Nat \ {0}
      BY <1>1, <1>4
    <2> QED BY <1>4, <2>1, <2>2, <2>3, <2>4
  <1> HIDE DEF t
  <1>8. Own(H2, t, c)
    BY <1>2, <1>3, <1>4 DEF Own
  <1>9. Committed(H2, A2, t, c)
    BY <1>6, <1>7, <1>8 DEF Committed
  <1>10. Agree(log'[i], H2[t], c) /\ t <= t /\ c <= c
    <2>1. c <= Len(log'[i])
      BY <1>1, <1>4
    <2> QED BY <1>1, <1>3, <2>1, AgreeFacts
  <1>11. Known(H2, A2, log'[i], t, c)
    BY <1>1, <1>9, <1>10 DEF Known
  <1> QED BY <1>1, <1>3, <1>4, <1>9, <1>11 DEF t

\* A follower commits what the request says, which its log now has.
LEMMA FollowerCommitted ==
    ASSUME NEW H, NEW H2, NEW A, NEW A2, SafetyStep(H, H2, A, A2),
           NEW m \in append_requests, NEW c \in Nat, FollowerCommits(m, c)
    PROVE  /\ m.dest \in Server /\ c = m.leader_commit /\ commit_index[m.dest] < c
           /\ Known(H2, A2, log'[m.dest], current_term'[m.dest], c)
  <1> DEFINE i == m.dest
             n == MatchReported(m)
  <1>1. Merges(m) /\ RaftStep(H, H2)
    BY DEF FollowerCommits, SafetyStep
  <1>2. /\ i \in Server /\ m.term \in Nat /\ n \in Nat /\ current_term'[i] = m.term
        /\ Agree(log'[i], H[m.term], n)
    BY <1>1, MergeIsMergedFrom
  <1>3. log'[i] \in Seq(Entry) /\ Len(log'[i]) \in Nat /\ H[m.term] \in Seq(Entry)
    BY <1>1, <1>2, StepTypes
  <1>4. m.leader_commit \in Nat /\ m.leader_commit <= n /\ Known(H, A, H[m.term], m.term, m.leader_commit)
    BY DEF SafetyStep, CommitInv, RequestsKnown, RaftStep, PlainInv, AppendRequest
  <1> HIDE DEF n
  <1>5. c = m.leader_commit /\ commit_index[i] < c
    <2>1. n <= Len(log'[i])
      BY <1>2 DEF Agree
    <2> QED BY <1>2, <1>3, <1>4, <2>1 DEF FollowerCommits
  <1>6. Agree(log'[i], H[m.term], c)
    <2>1. c \in 0 .. n
      BY <1>2, <1>4, <1>5
    <2> QED BY <1>2, <1>3, <2>1, AgreeFacts
  <1>7. CASE c = 0
    BY <1>2, <1>5, <1>7 DEF Known
  <1>8. CASE c # 0
    <2>1. PICK T, d \in Nat : /\ T <= m.term /\ c <= d /\ Committed(H, A, T, d)
                              /\ Agree(H[m.term], H[T], c)
      BY <1>4, <1>5, <1>8 DEF Known
    <2>2. H[T] \in Seq(Entry)
      BY <1>1, StepTypes
    <2>3. Agree(log'[i], H[T], c)
      BY <1>3, <1>6, <2>1, <2>2, AgreeFacts
    <2>4. Agree(log'[i], H2[T], c)
      BY <1>1, <1>3, <2>3, AgreeAfter
    <2>5. Committed(H2, A2, T, d)
      BY <2>1, CommittedStays DEF SafetyStep
    <2> QED BY <1>2, <1>5, <2>1, <2>4, <2>5 DEF Known
  <1> QED BY <1>7, <1>8

\* Choose, whether or not the leader commits more than was committed before.
LEMMA ChosenByLeader ==
    ASSUME NEW H, NEW H2, NEW A, NEW A2, SafetyStep(H, H2, A, A2),
           NEW i \in Server, NEW c \in Nat, LeaderCommits(i, c)
    PROVE  /\ chosen' \in Seq([entry : Entry, at : Nat])
           /\ Len(chosen') = IF c <= Len(chosen) THEN Len(chosen) ELSE c
           /\ \A k \in 1 .. Len(chosen) : chosen'[k] = chosen[k]
           /\ \A k \in (Len(chosen) + 1) .. c :
                chosen'[k] = [entry |-> log'[i][k], at |-> current_term'[i]]
  <1> DEFINE S == [entry : Entry, at : Nat]
             n == c - Len(chosen)
             new == [k \in 1 .. n |-> [entry |-> log'[i][Len(chosen) + k], at |-> current_term'[i]]]
  <1>1. chosen \in Seq(S) /\ Len(chosen) \in Nat
    BY SafetyFacts
  <1>2. /\ current_term'[i] \in Nat /\ log'[i] \in Seq(Entry) /\ Len(log'[i]) \in Nat
        /\ c \in 1 .. Len(log'[i])
    BY StepTypes, LeaderCommitted DEF SafetyStep
  <1>3. chosen' = chosen \o new
    BY DEF LeaderCommits
  <1>4. CASE c <= Len(chosen)
    <2>1. 1 .. n = {} /\ (Len(chosen) + 1) .. c = {}
      BY <1>1, <1>4
    <2>2. new = <<>>
      BY <2>1
    <2>3. chosen' = chosen
      BY <1>1, <1>3, <2>2, ConcatEmptySeq
    <2> QED BY <1>1, <1>4, <2>1, <2>3
  <1>5. CASE ~(c <= Len(chosen))
    <2>1. n \in Nat /\ Len(chosen) + n = c
      BY <1>1, <1>5
    <2>2. ASSUME NEW k \in 1 .. n
          PROVE  [entry |-> log'[i][Len(chosen) + k], at |-> current_term'[i]] \in S
      <3>1. Len(chosen) + k \in 1 .. Len(log'[i])
        BY <1>1, <1>2, <2>1
      <3>2. log'[i][Len(chosen) + k] \in Entry
        BY <1>2, <3>1, ElementOfSeq
      <3> QED BY <1>2, <3>2
    <2> HIDE DEF n, S
    <2>3. new \in [1 .. n -> S]
      BY <2>2
    <2>4. /\ \A k \in 1 .. n : new[k] = [entry |-> log'[i][Len(chosen) + k], at |-> current_term'[i]]
      OBVIOUS
    <2> HIDE DEF new
    <2>5. new \in Seq(S) /\ Len(new) = n
      BY <2>1, <2>3, FunctionIsSeq
    <2>6. /\ chosen \o new \in Seq(S) /\ Len(chosen \o new) = Len(chosen) + Len(new)
          /\ \A k \in 1 .. (Len(chosen) + Len(new)) :
               (chosen \o new)[k] = IF k <= Len(chosen) THEN chosen[k] ELSE new[k - Len(chosen)]
      BY <1>1, <2>5, ConcatProperties
    <2>7. Len(chosen') = c /\ chosen' \in Seq(S)
      BY <1>3, <2>1, <2>5, <2>6
    <2>8. ASSUME NEW k \in 1 .. Len(chosen) PROVE chosen'[k] = chosen[k]
      <3>1. k \in 1 .. (Len(chosen) + Len(new)) /\ k <= Len(chosen)
        BY <1>1, <2>1, <2>5
      <3> QED BY <1>3, <2>6, <3>1
    <2>9. ASSUME NEW k \in (Len(chosen) + 1) .. c
          PROVE  chosen'[k] = [entry |-> log'[i][k], at |-> current_term'[i]]
      <3>1. /\ k \in 1 .. (Len(chosen) + Len(new)) /\ ~(k <= Len(chosen))
            /\ k - Len(chosen) \in 1 .. n /\ Len(chosen) + (k - Len(chosen)) = k
        BY <1>1, <2>1, <2>5
      <3>2. chosen'[k] = new[k - Len(chosen)]
        BY <1>3, <2>6, <3>1
      <3> QED BY <2>4, <3>1, <3>2
    <2> QED BY <1>5, <2>7, <2>8, <2>9 DEF S
  <1> QED BY <1>4, <1>5

\* What is committed stays committed.
LEMMA ChosenGrows ==
    ASSUME NEW H, NEW H2, NEW A, NEW A2, SafetyStep(H, H2, A, A2)
    PROVE  /\ chosen' \in Seq([entry : Entry, at : Nat]) /\ Len(chosen') \in Nat
           /\ Len(chosen) <= Len(chosen')
           /\ \A k \in 1 .. Len(chosen) : chosen'[k] = chosen[k]
  <1>1. chosen \in Seq([entry : Entry, at : Nat]) /\ Len(chosen) \in Nat
    BY SafetyFacts
  <1>2. CASE chosen' = chosen
    BY <1>1, <1>2
  <1>3. ASSUME NEW i \in Server, NEW c \in Nat, LeaderCommits(i, c)
        PROVE  /\ chosen' \in Seq([entry : Entry, at : Nat]) /\ Len(chosen') \in Nat
               /\ Len(chosen) <= Len(chosen')
               /\ \A k \in 1 .. Len(chosen) : chosen'[k] = chosen[k]
    <2>1. /\ chosen' \in Seq([entry : Entry, at : Nat])
          /\ Len(chosen') = IF c <= Len(chosen) THEN Len(chosen) ELSE c
          /\ \A k \in 1 .. Len(chosen) : chosen'[k] = chosen[k]
      BY <1>3, ChosenByLeader
    <2> QED BY <1>1, <2>1
  <1> QED BY <1>2, <1>3 DEF SafetyStep, CommittingStep, CommitStep, Forgets, FollowerCommits

\* The commit index of a server stays, starts anew, or moves to what is committed.
LEMMA CommitsStayKnown ==
    ASSUME NEW H, NEW H2, NEW A, NEW A2, SafetyStep(H, H2, A, A2)
    PROVE  /\ CommitsKnown(H2, A2)'
           /\ \A i \in Server : Agree(log'[i], log[i], commit_index[i])
  <1>1. ASSUME NEW i \in Server
        PROVE  /\ Known(H2, A2, log'[i], current_term'[i], commit_index[i])
               /\ Agree(log'[i], log[i], commit_index[i])
               /\ commit_index[i] <= Len(chosen')
    <2>1. /\ RaftStep(H, H2) /\ Accepts(A, A2) /\ LaterHave(H, A) /\ commit_index[i] \in Nat
          /\ Len(chosen) \in Nat
      BY SafetyFacts DEF SafetyStep
    <2>2. Known(H, A, log[i], current_term[i], commit_index[i]) /\ commit_index[i] <= Len(chosen)
      BY DEF SafetyStep, CommitInv, CommitsKnown
    <2>3. Len(chosen') \in Nat /\ Len(chosen) <= Len(chosen')
      BY ChosenGrows
    <2>4. commit_index[i] <= Len(chosen')
      BY <2>1, <2>2, <2>3
    <2> QED BY <2>1, <2>2, <2>4, KnownStays
  <1>2. ASSUME NEW i \in Server
        PROVE  /\ Known(H2, A2, log'[i], current_term'[i], commit_index'[i])
               /\ commit_index'[i] <= Len(chosen')
    <2>1. commit_index \in [Server -> Nat]
      BY DEF SafetyStep, RaftStep, PlainInv
    <2>2. CASE commit_index'[i] = commit_index[i]
      BY <1>1, <2>2
    <2>3. CASE \E x \in Server : Forgets(x)
      <3>1. commit_index'[i] \in {0, commit_index[i]}
        BY <2>1, <2>3 DEF Forgets
      <3>2. Len(chosen') \in Nat
        BY ChosenGrows
      <3> QED BY <2>2, <3>1, <3>2 DEF Known
    <2>4. ASSUME NEW x \in Server, NEW c \in Nat, LeaderCommits(x, c), commit_index'[i] # commit_index[i]
          PROVE  /\ Known(H2, A2, log'[i], current_term'[i], commit_index'[i])
                 /\ commit_index'[i] <= Len(chosen')
      <3>1. i = x /\ commit_index'[i] = c
        BY <2>1, <2>4 DEF LeaderCommits, Applies
      <3>2. Len(chosen') = (IF c <= Len(chosen) THEN Len(chosen) ELSE c) /\ Len(chosen) \in Nat
        BY <2>4, ChosenByLeader, SafetyFacts
      <3>3. c <= Len(chosen')
        BY <3>2
      <3> QED BY <2>4, <3>1, <3>3, LeaderCommitted
    <2>5. ASSUME NEW m \in append_requests, NEW c \in Nat, FollowerCommits(m, c),
                 commit_index'[i] # commit_index[i]
          PROVE  /\ Known(H2, A2, log'[i], current_term'[i], commit_index'[i])
                 /\ commit_index'[i] <= Len(chosen')
      <3>1. i = m.dest /\ commit_index'[i] = c /\ chosen' = chosen
        BY <2>1, <2>5 DEF FollowerCommits, Applies
      <3>2. c = m.leader_commit /\ Known(H2, A2, log'[m.dest], current_term'[m.dest], c)
        BY <2>5, FollowerCommitted
      <3>3. m.leader_commit <= Len(chosen)
        BY DEF SafetyStep, CommitInv, RequestsKnown
      <3> QED BY <3>1, <3>2, <3>3
    <2> QED BY <2>2, <2>3, <2>4, <2>5 DEF SafetyStep, CommittingStep, CommitStep
  <1> QED BY <1>1, <1>2 DEF CommitsKnown, Known, Committed, Own, Agree, HasMajority

\* A request tells what its leader knows to be committed, and brings it along.
LEMMA RequestsStayKnown ==
    ASSUME NEW H, NEW H2, NEW A, NEW A2, SafetyStep(H, H2, A, A2)
    PROVE  RequestsKnown(H2, A2)'
  <1> SUFFICES ASSUME NEW m \in append_requests'
               PROVE  /\ Known(H2, A2, H2[m.term], m.term, m.leader_commit)
                      /\ m.leader_commit <= MatchReported(m)
                      /\ m.leader_commit <= Len(chosen')
    BY DEF RequestsKnown, MatchReported, Known, Committed, Own, Agree, HasMajority
  <1>1. RaftStep(H, H2) /\ Accepts(A, A2)
    BY DEF SafetyStep
  <1>2. /\ m \in AppendRequest /\ m.term \in Nat /\ m.leader_commit \in Nat
        /\ Len(chosen) \in Nat /\ Len(chosen') \in Nat /\ Len(chosen) <= Len(chosen')
    BY <1>1, SafetyFacts, ChosenGrows DEF RaftStep, PlainInv, AppendRequest
  <1>3. CASE m \in append_requests
    <2>1. /\ Known(H, A, H[m.term], m.term, m.leader_commit)
          /\ m.leader_commit <= MatchReported(m) /\ m.leader_commit <= Len(chosen)
      BY <1>3 DEF SafetyStep, CommitInv, RequestsKnown
    <2> QED BY <1>1, <1>2, <2>1, KnownOfLeaderStays
  <1>4. ASSUME NEW i \in Server, role[i] = Leader, Carries(m, i, log'[i]),
               Agree(log'[i], log[i], Len(log[i]))
        PROVE  /\ Known(H2, A2, H2[m.term], m.term, m.leader_commit)
               /\ m.leader_commit <= MatchReported(m)
               /\ m.leader_commit <= Len(chosen')
    <2>1. m.term = current_term[i] /\ m.leader_commit = commit_index[i]
      BY <1>4 DEF Carries
    <2>2. log[i] = H[m.term]
      BY <1>1, <1>4, <2>1 DEF RaftStep, LogInv, LeadersKnown
    <2>3. /\ Known(H, A, log[i], m.term, m.leader_commit)
          /\ m.leader_commit <= Len(chosen) /\ m.leader_commit <= Len(log[i])
      BY <2>1, SafetyFacts DEF SafetyStep, CommitInv, CommitsKnown
    <2>4. Known(H2, A2, H2[m.term], m.term, m.leader_commit)
      BY <1>1, <1>2, <2>2, <2>3, KnownOfLeaderStays
    <2>5. /\ log'[i] \in Seq(Entry) /\ Len(log'[i]) \in Nat /\ Len(log[i]) \in Nat
          /\ Len(log[i]) <= Len(log'[i]) /\ log'[i] # <<>>
      <3>1. /\ log'[i] \in Seq(Entry) /\ Len(log'[i]) \in Nat
            /\ log[i] \in Seq(Entry) /\ Len(log[i]) \in Nat
        BY <1>1, StepTypes
      <3>2. log[i] # <<>>
        BY <1>1, <1>4 DEF RaftStep, LogInv, LeadersKnown
      <3>3. Len(log[i]) # 0
        BY <3>1, <3>2, EmptySeq
      <3>4. Len(log[i]) <= Len(log'[i]) /\ Len(log'[i]) # 0
        BY <1>4, <3>1, <3>3 DEF Agree
      <3> QED BY <3>1, <3>4, EmptySeq
    <2>6. MatchReported(m) = Len(log'[i])
      BY <1>2, <1>4, <2>5, CarriesPiece
    <2> QED BY <1>2, <2>3, <2>4, <2>5, <2>6
  <1>5. CASE m \notin append_requests
    <2>1. CASE LogKept
      <3>1. PICK i \in Server : role[i] = Leader /\ Carries(m, i, log'[i]) /\ log'[i] = log[i]
        BY <1>5, <2>1 DEF LogKept
      <3>2. log[i] \in Seq(Entry) /\ Len(log[i]) \in Nat
        BY <1>1, StepTypes
      <3>3. Agree(log'[i], log[i], Len(log[i]))
        BY <3>1, <3>2, AgreeFacts
      <3> QED BY <1>4, <3>1, <3>3
    <2>2. ASSUME NEW i \in Server, NEW es \in Seq(Entry), Grows(i, es)
          PROVE  /\ role[i] = Leader /\ Carries(m, i, log'[i])
                 /\ Agree(log'[i], log[i], Len(log[i]))
      <3>1. role[i] = Leader /\ role'[i] = Leader /\ Carries(m, i, log'[i])
        BY <1>1, <1>5, <2>2 DEF Grows, RaftStep, ElectionInv, ElectionTypeOK
      <3> QED BY <1>1, <3>1, RolesKept
    <2>3. ~ \E r \in append_requests : Merges(r)
      BY <1>5 DEF Merges
    <2> QED BY <1>1, <1>4, <2>1, <2>2, <2>3 DEF RaftStep, PlainStep, LogStep
  <1> QED BY <1>3, <1>5

LEMMA ChosenStaysTrue ==
    ASSUME NEW H, NEW H2, NEW A, NEW A2, SafetyStep(H, H2, A, A2)
    PROVE  ChosenTrue(H2, A2, chosen')
  <1> SUFFICES ASSUME NEW k \in 1 .. Len(chosen')
               PROVE  \E c \in Nat : /\ k <= c /\ Committed(H2, A2, chosen'[k].at, c)
                                     /\ H2[chosen'[k].at][k] = chosen'[k].entry
    BY DEF ChosenTrue
  <1>1. /\ chosen \in Seq([entry : Entry, at : Nat]) /\ Len(chosen) \in Nat
        /\ Len(chosen') \in Nat /\ Len(chosen) <= Len(chosen') /\ RaftStep(H, H2) /\ Accepts(A, A2)
    BY SafetyFacts, ChosenGrows DEF SafetyStep
  <1>2. CASE k \in 1 .. Len(chosen)
    <2>1. chosen'[k] = chosen[k]
      BY <1>2, ChosenGrows
    <2> DEFINE T == chosen[k].at
    <2>2. T \in Nat
      <3>1. chosen[k] \in [entry : Entry, at : Nat]
        BY <1>1, <1>2, ElementOfSeq
      <3> QED BY <3>1
    <2>3. PICK c \in Nat : k <= c /\ Committed(H, A, T, c) /\ H[T][k] = chosen[k].entry
      BY <1>2 DEF SafetyStep, CommitInv, ChosenTrue
    <2> HIDE DEF T
    <2>4. H2[T][k] = H[T][k]
      <3>1. Agree(H[T], H2[T], Len(H[T])) /\ Len(H[T]) \in Nat
        BY <1>1, <2>2, HistoryChange, StepTypes DEF Continues
      <3>2. c \in 1 .. Len(H[T])
        BY <2>3 DEF Committed, Own
      <3>3. k \in 1 .. Len(H[T])
        BY <1>2, <2>3, <3>1, <3>2
      <3> QED BY <3>1, <3>3 DEF Agree
    <2>5. Committed(H2, A2, T, c)
      BY <1>1, <2>2, <2>3, CommittedStays
    <2> QED BY <2>1, <2>3, <2>4, <2>5 DEF T
  <1>3. CASE k \notin 1 .. Len(chosen)
    <2>1. chosen' # chosen
      BY <1>3
    <2>2. PICK i \in Server, c \in Nat : LeaderCommits(i, c)
      BY <2>1 DEF SafetyStep, CommittingStep, CommitStep, Forgets, FollowerCommits
    <2>3. /\ Len(chosen') = IF c <= Len(chosen) THEN Len(chosen) ELSE c
          /\ \A q \in (Len(chosen) + 1) .. c :
               chosen'[q] = [entry |-> log'[i][q], at |-> current_term'[i]]
      BY <2>2, ChosenByLeader
    <2>4. k \in (Len(chosen) + 1) .. c /\ k <= c
      BY <1>1, <1>3, <2>3
    <2>5. chosen'[k].entry = log'[i][k] /\ chosen'[k].at = current_term'[i]
      <3>1. chosen'[k] = [entry |-> log'[i][k], at |-> current_term'[i]]
        BY <2>3, <2>4
      <3> QED BY <3>1
    <2>6. log'[i] = H2[current_term'[i]] /\ Committed(H2, A2, current_term'[i], c)
      BY <2>2, LeaderCommitted
    <2> QED BY <2>4, <2>5, <2>6
  <1> QED BY <1>2, <1>3

\* apply_logs, from one commit index to the next.
LEMMA AppliedState ==
    ASSUME NEW H, NEW H2, NEW A, NEW A2, SafetyStep(H, H2, A, A2),
           NEW i \in Server, NEW c \in Nat, Applies(i, c), commit_index[i] < c
    PROVE  /\ app_state'[i] \in Seq(Command \cup {NoOp}) /\ Len(app_state'[i]) = c
           /\ \A k \in 1 .. c : app_state'[i][k] = log'[i][k].command
  <1> DEFINE L == log'[i]
             a == commit_index[i]
             S == SubSeq(L, a + 1, c)
             C == Commands(S)
             X == app_state[i]
  <1>1. /\ L \in Seq(Entry) /\ Len(L) \in Nat /\ a \in Nat /\ a < c /\ c <= Len(L)
        /\ X \in Seq(Command \cup {NoOp}) /\ Len(X) = a
        /\ \A k \in 1 .. a : X[k] = log[i][k].command
    BY SafetyFacts, StepTypes DEF SafetyStep, CommitInv, StatesTrue, Applies
  <1>2. Agree(L, log[i], a)
    BY CommitsStayKnown
  <1>3. app_state'[i] = X \o C
    BY SafetyFacts DEF Applies
  <1> HIDE DEF L, X
  <1>4. S \in Seq(Entry) /\ Len(S) = c - a /\ \A k \in 1 .. (c - a) : S[k] = L[a + k]
    <2>1. a + 1 \in 1 .. (Len(L) + 1) /\ a + 1 \in Nat /\ a + 1 <= c /\ c \in 0 .. Len(L)
      BY <1>1
    <2>2. \A k \in (a + 1) .. c : L[k] \in Entry
      BY <1>1, ElementOfSeq
    <2>3. a + 1 \in Int /\ c \in Int
      BY <1>1
    <2>4. S \in Seq(Entry) /\ Len(S) = IF a + 1 <= c THEN c - (a + 1) + 1 ELSE 0
      BY <2>2, <2>3, SubSeqProperties
    <2>5. \A k \in 1 .. (c - (a + 1) + 1) : S[k] = L[(a + 1) + k - 1]
      BY <2>2, <2>3, SubSeqProperties
    <2>6. \A k \in 1 .. (c - a) : k \in 1 .. (c - (a + 1) + 1) /\ (a + 1) + k - 1 = a + k
      BY <1>1
    <2>7. Len(S) = c - a
      BY <1>1, <2>1, <2>4
    <2> QED BY <2>4, <2>5, <2>6, <2>7
  <1> HIDE DEF S
  <1>5. C \in Seq(Command \cup {NoOp}) /\ Len(C) = c - a /\ \A k \in 1 .. (c - a) : C[k] = L[a + k].command
    <2>1. c - a \in Nat
      BY <1>1
    <2>2. ASSUME NEW k \in 1 .. (c - a) PROVE S[k].command \in Command \cup {NoOp}
      <3>1. S[k] \in Entry
        BY <1>4, <2>2, ElementOfSeq
      <3> QED BY <3>1 DEF Entry
    <2>3. C = [k \in 1 .. (c - a) |-> S[k].command]
      BY <1>4 DEF Commands
    <2> HIDE DEF C
    <2>4. C \in [1 .. (c - a) -> Command \cup {NoOp}]
      BY <2>2, <2>3
    <2>5. C \in Seq(Command \cup {NoOp}) /\ Len(C) = c - a
      BY <2>1, <2>4, FunctionIsSeq
    <2> QED BY <1>4, <2>3, <2>5
  <1> HIDE DEF C
  <1>6. /\ X \o C \in Seq(Command \cup {NoOp}) /\ Len(X \o C) = Len(X) + Len(C)
        /\ \A k \in 1 .. (Len(X) + Len(C)) :
             (X \o C)[k] = IF k <= Len(X) THEN X[k] ELSE C[k - Len(X)]
    <2>1. X \in Seq(Command \cup {NoOp}) /\ C \in Seq(Command \cup {NoOp})
      BY <1>1, <1>5
    <2> QED BY <2>1, ConcatProperties
  <1>7. Len(X \o C) = c /\ Len(X) + Len(C) = c
    BY <1>1, <1>5, <1>6
  <1>8. ASSUME NEW k \in 1 .. c PROVE (X \o C)[k] = L[k].command
    <2>1. CASE k <= a
      <3>1. k \in 1 .. a /\ k \in 1 .. (Len(X) + Len(C)) /\ k <= Len(X)
        BY <1>1, <1>7, <2>1
      <3>2. X[k] = log[i][k].command /\ L[k] = log[i][k]
        BY <1>1, <1>2, <3>1 DEF Agree
      <3> QED BY <1>6, <3>1, <3>2
    <2>2. CASE ~(k <= a)
      <3>1. /\ k \in 1 .. (Len(X) + Len(C)) /\ ~(k <= Len(X)) /\ k - Len(X) \in 1 .. (c - a)
            /\ a + (k - Len(X)) = k
        BY <1>1, <1>7, <2>2
      <3>2. (X \o C)[k] = C[k - Len(X)]
        BY <1>6, <3>1
      <3> QED BY <1>5, <3>1, <3>2
    <2> QED BY <2>1, <2>2
  <1> QED BY <1>3, <1>6, <1>7, <1>8 DEF L

LEMMA StatesStayTrue ==
    ASSUME NEW H, NEW H2, NEW A, NEW A2, SafetyStep(H, H2, A, A2)
    PROVE  StatesTrue' /\ app_state' \in [Server -> Seq(Command \cup {NoOp})]
  <1>1. /\ app_state \in [Server -> Seq(Command \cup {NoOp})] /\ commit_index \in [Server -> Nat]
        /\ CommitStep
    BY SafetyFacts DEF SafetyStep, RaftStep, PlainInv, CommittingStep
  <1>2. DOMAIN app_state' = Server /\ app_state' = [x \in Server |-> app_state'[x]]
    BY <1>1 DEF CommitStep, Forgets, LeaderCommits, FollowerCommits, Applies
  <1>3. ASSUME NEW i \in Server
        PROVE  /\ app_state'[i] \in Seq(Command \cup {NoOp}) /\ Len(app_state'[i]) = commit_index'[i]
               /\ \A k \in 1 .. commit_index'[i] : app_state'[i][k] = log'[i][k].command
    <2>1. CASE app_state'[i] = app_state[i] /\ commit_index'[i] = commit_index[i]
      <3>1. /\ Len(app_state[i]) = commit_index[i]
            /\ \A k \in 1 .. commit_index[i] : app_state[i][k] = log[i][k].command
        BY DEF SafetyStep, CommitInv, StatesTrue
      <3>2. \A k \in 1 .. commit_index[i] : log'[i][k] = log[i][k]
        BY CommitsStayKnown DEF Agree
      <3> QED BY <1>1, <2>1, <3>1, <3>2
    <2>2. CASE app_state'[i] = <<>> /\ commit_index'[i] = 0
      BY <2>2
    <2>3. ASSUME NEW c \in Nat, Applies(i, c), commit_index[i] < c
          PROVE  /\ app_state'[i] \in Seq(Command \cup {NoOp}) /\ Len(app_state'[i]) = commit_index'[i]
                 /\ \A k \in 1 .. commit_index'[i] : app_state'[i][k] = log'[i][k].command
      <3>1. commit_index'[i] = c
        BY <1>1, <2>3 DEF Applies
      <3> QED BY <2>3, <3>1, AppliedState
    <2>4. ASSUME NEW x \in Server, NEW c \in Nat, Applies(x, c), x # i
          PROVE  app_state'[i] = app_state[i] /\ commit_index'[i] = commit_index[i]
      BY <1>1, <2>4 DEF Applies
    <2>5. CASE \E x \in Server : Forgets(x)
      <3>1. \/ app_state'[i] = app_state[i] /\ commit_index'[i] = commit_index[i]
            \/ app_state'[i] = <<>> /\ commit_index'[i] = 0
        BY <1>1, <2>5 DEF Forgets
      <3> QED BY <2>1, <2>2, <3>1
    <2>6. ASSUME NEW x \in Server, NEW c \in Nat, LeaderCommits(x, c)
          PROVE  /\ app_state'[i] \in Seq(Command \cup {NoOp}) /\ Len(app_state'[i]) = commit_index'[i]
                 /\ \A k \in 1 .. commit_index'[i] : app_state'[i][k] = log'[i][k].command
      <3>1. Applies(x, c) /\ commit_index[x] < c
        BY <2>6 DEF LeaderCommits
      <3> QED BY <2>1, <2>3, <2>4, <3>1
    <2>7. ASSUME NEW m \in append_requests, NEW c \in Nat, FollowerCommits(m, c)
          PROVE  /\ app_state'[i] \in Seq(Command \cup {NoOp}) /\ Len(app_state'[i]) = commit_index'[i]
                 /\ \A k \in 1 .. commit_index'[i] : app_state'[i][k] = log'[i][k].command
      <3>1. m.dest \in Server /\ Applies(m.dest, c) /\ commit_index[m.dest] < c
        BY <2>7, FollowerCommitted DEF FollowerCommits
      <3> QED BY <2>1, <2>3, <2>4, <3>1
    <2>8. CASE UNCHANGED <<commit_index, app_state, chosen, acked>>
      BY <2>1, <2>8
    <2> QED BY <1>1, <2>5, <2>6, <2>7, <2>8 DEF CommitStep
  <1>4. app_state' \in [Server -> Seq(Command \cup {NoOp})]
    BY <1>2, <1>3
  <1> QED BY <1>3, <1>4 DEF StatesTrue

\* What a server knows to be committed is what leaders committed.
LEMMA KnownChosen ==
    ASSUME NEW H \in Histories, NEW A, LaterHave(H, A),
           NEW K \in Seq([entry : Entry, at : Nat]), ChosenTrue(H, A, K),
           NEW L \in Seq(Entry), NEW t, NEW k \in Nat, Known(H, A, L, t, k),
           NEW q \in 1 .. k, q <= Len(K)
    PROVE  L[q] = K[q].entry
  <1>1. q \in 1 .. Len(K) /\ q \in Nat /\ q <= k /\ k # 0
    BY LenProperties
  <1>2. PICK T, c \in Nat : k <= c /\ Committed(H, A, T, c) /\ Agree(L, H[T], k)
    BY <1>1 DEF Known
  <1>3. PICK d \in Nat : q <= d /\ Committed(H, A, K[q].at, d) /\ H[K[q].at][q] = K[q].entry
    BY <1>1 DEF ChosenTrue
  <1>4. K[q].at \in Nat
    <2>1. K[q] \in [entry : Entry, at : Nat]
      BY <1>1, ElementOfSeq
    <2> QED BY <2>1
  <1>5. q <= c
    BY <1>1, <1>2
  <1>6. Agree(H[T], H[K[q].at], q)
    BY <1>1, <1>2, <1>3, <1>4, <1>5, CommittedAgree
  <1>7. q \in 1 .. q
    BY <1>1
  <1>8. H[T][q] = H[K[q].at][q]
    BY <1>6, <1>7 DEF Agree
  <1>9. L[q] = H[T][q]
    BY <1>2 DEF Agree
  <1> QED BY <1>3, <1>8, <1>9

LEMMA AcksStayChosen ==
    ASSUME NEW H, NEW H2, NEW A, NEW A2, SafetyStep(H, H2, A, A2)
    PROVE  AcksChosen'
  <1> SUFFICES ASSUME NEW w \in acked'
               PROVE  w.index \in 1 .. Len(chosen') /\ chosen'[w.index].entry.command = w.command
    BY DEF AcksChosen
  <1>1. /\ chosen' \in Seq([entry : Entry, at : Nat]) /\ Len(chosen') \in Nat /\ Len(chosen) \in Nat
        /\ Len(chosen) <= Len(chosen') /\ \A k \in 1 .. Len(chosen) : chosen'[k] = chosen[k]
    BY SafetyFacts, ChosenGrows
  <1>2. CASE w \in acked
    <2>1. w.index \in 1 .. Len(chosen) /\ chosen[w.index].entry.command = w.command
      BY <1>2 DEF SafetyStep, CommitInv, AcksChosen
    <2>2. w.index \in 1 .. Len(chosen')
      BY <1>1, <2>1
    <2> QED BY <1>1, <2>1, <2>2
  <1>3. CASE w \notin acked
    <2>1. PICK i \in Server, c \in Nat : LeaderCommits(i, c)
      BY <1>3 DEF SafetyStep, CommittingStep, CommitStep, Forgets, FollowerCommits
    <2>2. w.index \in 1 .. c /\ log'[i][w.index].command = w.command
      BY <1>3, <2>1 DEF LeaderCommits
    <2>3. Len(chosen') = IF c <= Len(chosen) THEN Len(chosen) ELSE c
      BY <2>1, ChosenByLeader
    <2>4. w.index \in 1 .. Len(chosen') /\ w.index <= Len(chosen')
      BY <1>1, <2>2, <2>3
    <2>5. Known(H2, A2, log'[i], current_term'[i], c) /\ log'[i] \in Seq(Entry)
      BY <2>1, LeaderCommitted, StepTypes DEF SafetyStep
    <2>6. H2 \in Histories /\ LaterHave(H2, A2) /\ ChosenTrue(H2, A2, chosen')
      BY SafetyFacts, ChosenStaysTrue
    <2>7. log'[i][w.index] = chosen'[w.index].entry
      BY <1>1, <2>2, <2>4, <2>5, <2>6, KnownChosen
    <2> QED BY <2>2, <2>4, <2>7
  <1> QED BY <1>2, <1>3

LEMMA PendingStaysTrue ==
    ASSUME NEW H, NEW H2, NEW A, NEW A2, SafetyStep(H, H2, A, A2)
    PROVE  PendingTrue'
  <1> SUFFICES ASSUME NEW i \in Server, NEW w \in pending_replies'[i]
               PROVE  /\ role'[i] = Leader
                      /\ w.index \in 1 .. Len(log'[i]) /\ log'[i][w.index].command = w.command
    BY DEF PendingTrue
  <1>1. /\ role'[i] = Leader
        /\ \/ role[i] = Leader /\ w \in pending_replies[i]
           \/ w.index \in 1 .. Len(log'[i]) /\ log'[i][w.index].command = w.command
    BY DEF SafetyStep, CommittingStep, PendingStep
  <1>2. CASE role[i] = Leader /\ w \in pending_replies[i]
    <2>1. w.index \in 1 .. Len(log[i]) /\ log[i][w.index].command = w.command
      BY <1>2 DEF SafetyStep, CommitInv, PendingTrue
    <2>2. /\ Agree(log'[i], log[i], Len(log[i])) /\ Len(log[i]) \in Nat /\ Len(log'[i]) \in Nat
      BY <1>1, <1>2, RolesKept, StepTypes DEF SafetyStep
    <2>3. w.index \in 1 .. Len(log'[i])
      BY <2>1, <2>2 DEF Agree
    <2> QED BY <1>1, <2>1, <2>2, <2>3 DEF Agree
  <1> QED BY <1>1, <1>2

LEMMA CommitInvStep ==
    ASSUME NEW H, NEW H2, NEW A, NEW A2, SafetyStep(H, H2, A, A2)
    PROVE  CommitInv(H2, A2)'
  <1>1. CommitTypes'
    <2>1. pending_replies' \in [Server -> SUBSET Write] /\ acked' \subseteq Write
      BY DEF SafetyStep, CommittingStep
    <2> QED BY <2>1, StatesStayTrue, ChosenGrows DEF CommitTypes
  <1>2. ChosenTrue(H2, A2, chosen)'
    <2>1. ChosenTrue(H2, A2, chosen')
      BY ChosenStaysTrue
    <2> QED BY <2>1, Zenon DEF ChosenTrue, Committed, Own, HasMajority
  <1> QED BY <1>1, <1>2, PendingStaysTrue, StatesStayTrue, AcksStayChosen, CommitsStayKnown,
             RequestsStayKnown DEF CommitInv

-----------------------------------------------------------------------------
(* The invariant.                                                          *)

Acceptances == SUBSET (Server \X Nat \X Nat)

RaftInv ==
    /\ ElectionInv /\ PlainInv /\ NoVoteAhead
    /\ \E H \in Histories, A \in Acceptances : LogInv(H) /\ AcceptInv(H, A) /\ CommitInv(H, A)

LEMMA RaftInvInit == Init => RaftInv
  <1> SUFFICES ASSUME Init PROVE RaftInv
    OBVIOUS
  <1>1. ElectionInv /\ PlainInv /\ NoVoteAhead /\ NoLeaders \in Histories /\ LogInv(NoLeaders)
    BY ElectionInvInit, PlainInit, LogInvInit
  <1>2. \A t \in Nat : NoLeaders[t] = <<>>
    BY DEF NoLeaders
  <1>3. \A T, c \in Nat : ~Own(NoLeaders, T, c)
    <2>1. Len(<<>>) = 0
      OBVIOUS
    <2> QED BY <1>2, <2>1 DEF Own
  <1>4. \A i \in Server : role[i] = Follower
    BY DEF Init
  <1>5. AcceptInv(NoLeaders, {})
    <2>1. AcceptsTrue(NoLeaders, {}) /\ Safe(NoLeaders, {})
      BY <1>2 DEF AcceptsTrue, Safe
    <2>2. VotesSafe(NoLeaders, {}) /\ RequestsTrue /\ MatchTrue({})
      BY <1>4 DEF VotesSafe, RequestsTrue, MatchTrue, Init, Follower, Candidate, Leader
    <2> QED BY <2>1, <2>2 DEF AcceptInv
  <1>6. CommitInv(NoLeaders, {})
    <2>1. /\ app_state = [i \in Server |-> <<>>] /\ pending_replies = [i \in Server |-> {}]
          /\ chosen = <<>> /\ acked = {} /\ commit_index = [i \in Server |-> 0]
          /\ append_requests = {}
      BY DEF Init
    <2>2. CommitTypes
      BY <2>1 DEF CommitTypes
    <2>3. PendingTrue /\ AcksChosen /\ RequestsKnown(NoLeaders, {})
      BY <2>1 DEF PendingTrue, AcksChosen, RequestsKnown
    <2>4. StatesTrue
      BY <2>1 DEF StatesTrue
    <2>5. CommitsKnown(NoLeaders, {})
      BY <2>1 DEF CommitsKnown, Known
    <2>6. ChosenTrue(NoLeaders, {}, chosen)
      BY <2>1 DEF ChosenTrue
    <2> QED BY <2>2, <2>3, <2>4, <2>5, <2>6 DEF CommitInv
  <1>7. {} \in Acceptances
    BY DEF Acceptances
  <1> QED BY <1>1, <1>5, <1>6, <1>7 DEF RaftInv

LEMMA RaftInvStep ==
    ASSUME RaftInv, NothingCompacted, NothingCompacted', [Next]_vars
    PROVE  /\ RaftInv'
           /\ \E H, H2 \in Histories, A, A2 \in Acceptances : SafetyStep(H, H2, A, A2)
  <1>1. PICK H \in Histories, A \in Acceptances : LogInv(H) /\ AcceptInv(H, A) /\ CommitInv(H, A)
    BY DEF RaftInv
  <1>2. /\ ElectionInv' /\ PlainInv' /\ NoVoteAhead' /\ PlainStep
        /\ \A v \in Server : VoteKept(v)
    BY PlainInvStep DEF RaftInv
  <1>3. PICK H2 \in Histories : Follows(H, H2) /\ LogInv(H2)'
    BY <1>1, <1>2, LogInvStep DEF RaftInv, PlainStep
  <1>4. RaftStep(H, H2)
    BY <1>1, <1>2, <1>3 DEF RaftInv, RaftStep
  <1>5. PICK A2 \in Acceptances : Accepts(A, A2)
    <2> DEFINE now == {x \in Server \X Nat \X Nat : AcceptsNow(x[1], x[2], x[3])}
    <2>1. A \cup now \in Acceptances
      BY DEF Acceptances
    <2>2. ASSUME NEW v \in Server, NEW T \in Nat, NEW c \in Nat
          PROVE  <<v, T, c>> \in now <=> AcceptsNow(v, T, c)
      OBVIOUS
    <2> HIDE DEF now
    <2>3. Accepts(A, A \cup now)
      BY <2>2 DEF Accepts
    <2> QED BY <2>1, <2>3
  <1>6. AcceptInv(H2, A2)'
    BY <1>1, <1>4, <1>5, AcceptInvStep
  <1>7. CommittingStep
    <2>1. ElectionTypeOK /\ PlainInv /\ CommitTypes /\ PendingTrue
      BY <1>1 DEF RaftInv, ElectionInv, CommitInv
    <2>2. \A i \in Server : commit_index[i] <= Len(log[i])
      <3>1. \A i \in Server : /\ Len(log[i]) \in Nat /\ commit_index[i] \in Nat
                              /\ Known(H, A, log[i], current_term[i], commit_index[i])
        BY <1>1, <1>4, StepTypes DEF CommitInv, CommitsKnown, RaftInv, PlainInv
      <3> QED BY <3>1 DEF Known, Agree
    <2> QED BY <1>2, <2>1, <2>2, CommitNext DEF Committing
  <1>8. SafetyStep(H, H2, A, A2)
    BY <1>1, <1>4, <1>5, <1>6, <1>7 DEF SafetyStep
  <1>9. CommitInv(H2, A2)'
    BY <1>8, CommitInvStep
  <1>10. \E G \in Histories, B \in Acceptances : LogInv(G)' /\ AcceptInv(G, B)' /\ CommitInv(G, B)'
    BY <1>3, <1>5, <1>6, <1>9
  <1>11. RaftInv'
    BY <1>2, <1>10 DEF RaftInv, Histories, Acceptances, Entry
  <1> QED BY <1>8, <1>11

-----------------------------------------------------------------------------
(* What the invariant says.                                                *)

\* What is known of a state in which nothing is compacted.
LEMMA RaftFacts ==
    ASSUME RaftInv, NothingCompacted
    PROVE  /\ \A i \in Server : /\ log[i] \in Seq(Entry) /\ Len(log[i]) \in Nat
                                /\ current_term[i] \in Nat /\ commit_index[i] \in Nat
                                /\ LastIndex(i) = Len(log[i]) /\ last_included_index[i] = 0
                                /\ \A k \in Nat : EntryAt(i, k) = log[i][k]
           /\ \A i, j \in Server : match_index[i][j] \in Nat
           /\ last_applied = commit_index
           /\ chosen \in Seq([entry : Entry, at : Nat]) /\ Len(chosen) \in Nat
           /\ \A k \in 1 .. Len(chosen) : chosen[k].at \in Nat /\ chosen[k].entry \in Entry
  <1>1. /\ \A i \in Server : /\ log[i] \in Seq(Entry) /\ Len(log[i]) \in Nat
                             /\ current_term[i] \in Nat /\ commit_index[i] \in Nat
                             /\ LastIndex(i) = Len(log[i]) /\ last_included_index[i] = 0
    BY PlainFacts DEF RaftInv, PlainInv, ElectionInv, ElectionTypeOK
  <1>2. last_applied = commit_index /\ \A i, j \in Server : match_index[i][j] \in Nat
    BY DEF RaftInv, PlainInv
  <1>3. ASSUME NEW i \in Server, NEW k \in Nat PROVE EntryAt(i, k) = log[i][k]
    <2>1. last_included_index[i] = 0 /\ k - 0 = k
      BY <1>1
    <2> QED BY <2>1 DEF EntryAt
  <1>4. chosen \in Seq([entry : Entry, at : Nat])
    BY DEF RaftInv, CommitInv, CommitTypes
  <1>5. Len(chosen) \in Nat
    BY <1>4, LenProperties
  <1>6. ASSUME NEW k \in 1 .. Len(chosen) PROVE chosen[k].at \in Nat /\ chosen[k].entry \in Entry
    <2>1. chosen[k] \in [entry : Entry, at : Nat]
      BY <1>4, ElementOfSeq
    <2> QED BY <2>1
  <1> QED BY <1>1, <1>2, <1>3, <1>4, <1>5, <1>6

LEMMA RaftInvMatch == RaftInv /\ NothingCompacted => MatchIndexTrue
  <1> SUFFICES ASSUME RaftInv, NothingCompacted, NEW i \in Server, NEW j \in Server,
                      role[i] = Leader, current_term[j] = current_term[i],
                      NEW k \in 1 .. match_index[i][j]
               PROVE  k <= LastIndex(j) /\ EntryAt(j, k) = EntryAt(i, k)
    BY DEF MatchIndexTrue
  <1>1. PICK H \in Histories, A \in Acceptances : LogInv(H) /\ AcceptInv(H, A)
    BY DEF RaftInv
  <1> DEFINE T == current_term[i]
  <1>2. T \in Nat /\ k \in Nat /\ k >= 1 /\ k \in 1 .. k
    BY RaftFacts
  <1>3. <<j, T, k>> \in A
    BY <1>1 DEF AcceptInv, MatchTrue
  <1>4. Agree(log[j], H[T], k)
    BY <1>1, <1>2, <1>3 DEF AcceptInv, AcceptsTrue
  <1>5. log[i] = H[T]
    BY <1>1 DEF LogInv, LeadersKnown
  <1>6. k <= Len(log[j]) /\ log[j][k] = log[i][k]
    BY <1>2, <1>4, <1>5 DEF Agree
  <1> QED BY <1>2, <1>6, RaftFacts

LEMMA RaftInvIndices == RaftInv /\ NothingCompacted => IndicesWithinLog
  <1> SUFFICES ASSUME RaftInv, NothingCompacted, NEW i \in Server
               PROVE  /\ commit_index[i] <= LastIndex(i)
                      /\ role[i] = Leader => \A j \in Server : next_index[i][j] <= LastIndex(i) + 1
    BY DEF IndicesWithinLog, Peers
  <1>1. PICK H \in Histories, A \in Acceptances : AcceptInv(H, A) /\ CommitInv(H, A)
    BY DEF RaftInv
  <1>2. commit_index[i] <= Len(log[i])
    <2>1. Known(H, A, log[i], current_term[i], commit_index[i])
      BY <1>1 DEF CommitInv, CommitsKnown
    <2> QED BY <2>1, RaftFacts DEF Known, Agree
  <1> QED BY <1>1, <1>2, RaftFacts DEF AcceptInv, MatchTrue

LEMMA RaftInvLeaders == RaftInv /\ NothingCompacted => LeaderCompleteness
  <1> SUFFICES ASSUME RaftInv, NothingCompacted, NEW i \in Server, role[i] = Leader,
                      NEW k \in 1 .. Len(chosen), chosen[k].at < current_term[i]
               PROVE  k <= LastIndex(i) /\ EntryAt(i, k) = chosen[k].entry
    BY DEF LeaderCompleteness
  <1>1. PICK H \in Histories, A \in Acceptances : LogInv(H) /\ AcceptInv(H, A) /\ CommitInv(H, A)
    BY DEF RaftInv
  <1> DEFINE T == chosen[k].at
             U == current_term[i]
  <1>2. T \in Nat /\ U \in Nat /\ k \in Nat /\ k >= 1
    BY RaftFacts
  <1>3. PICK c \in Nat : k <= c /\ Committed(H, A, T, c) /\ H[T][k] = chosen[k].entry
    BY <1>1 DEF CommitInv, ChosenTrue
  <1>4. log[i] = H[U] /\ H[U] # <<>>
    BY <1>1 DEF LogInv, LeadersKnown
  <1>5. Agree(H[U], H[T], c)
    BY <1>1, <1>2, <1>3, <1>4, SafeLater DEF AcceptInv, LaterHave
  <1>6. k \in 1 .. c /\ c <= Len(log[i])
    BY <1>2, <1>3, <1>4, <1>5 DEF Agree
  <1>7. log[i][k] = chosen[k].entry
    BY <1>3, <1>4, <1>5, <1>6 DEF Agree
  <1> QED BY <1>2, <1>6, <1>7, RaftFacts

\* The state of a server is the committed log up to its commit index.
LEMMA RaftInvStates ==
    RaftInv /\ NothingCompacted => \A i \in Server :
      commit_index[i] <= Len(chosen) /\ app_state[i] = ChosenCommands(commit_index[i])
  <1> SUFFICES ASSUME RaftInv, NothingCompacted, NEW i \in Server
               PROVE  commit_index[i] <= Len(chosen) /\ app_state[i] = ChosenCommands(commit_index[i])
    OBVIOUS
  <1>1. PICK H \in Histories, A \in Acceptances : AcceptInv(H, A) /\ CommitInv(H, A)
    BY DEF RaftInv
  <1> DEFINE n == commit_index[i]
  <1>2. /\ n \in Nat /\ n <= Len(chosen) /\ Len(app_state[i]) = n
        /\ Known(H, A, log[i], current_term[i], n)
        /\ \A k \in 1 .. n : app_state[i][k] = log[i][k].command
        /\ app_state[i] \in Seq(Command \cup {NoOp})
    BY <1>1, RaftFacts DEF CommitInv, StatesTrue, CommitsKnown, CommitTypes
  <1>3. ASSUME NEW k \in 1 .. n PROVE app_state[i][k] = chosen[k].entry.command
    <2>1. k <= Len(chosen)
      BY <1>2, RaftFacts
    <2>2. LaterHave(H, A) /\ ChosenTrue(H, A, chosen)
      BY <1>1, SafeLater DEF AcceptInv, CommitInv
    <2>3. chosen \in Seq([entry : Entry, at : Nat]) /\ log[i] \in Seq(Entry)
      BY RaftFacts
    <2>4. log[i][k] = chosen[k].entry
      BY <1>2, <2>1, <2>2, <2>3, KnownChosen
    <2> QED BY <1>2, <2>4
  <1>4. app_state[i] = [k \in 1 .. n |-> app_state[i][k]]
    BY <1>2, SeqAsFunction
  <1>5. ChosenCommands(n) = [k \in 1 .. n |-> chosen[k].entry.command]
    BY DEF ChosenCommands
  <1> QED BY <1>2, <1>3, <1>4, <1>5

LEMMA RaftInvMachines == RaftInv /\ NothingCompacted => StateMachineSafety
  BY RaftInvStates, RaftFacts DEF StateMachineSafety

LEMMA RaftInvAcked == RaftInv /\ NothingCompacted => AckedOnMajority
  <1> SUFFICES ASSUME RaftInv, NothingCompacted, NEW w \in acked
               PROVE  HasMajority({i \in Server :
                        \/ w.index <= last_included_index[i]
                        \/ w.index <= LastIndex(i) /\ EntryAt(i, w.index).command = w.command})
    BY DEF AckedOnMajority
  <1> DEFINE S == {i \in Server :
                     \/ w.index <= last_included_index[i]
                     \/ w.index <= LastIndex(i) /\ EntryAt(i, w.index).command = w.command}
             k == w.index
  <1>1. PICK H \in Histories, A \in Acceptances : AcceptInv(H, A) /\ CommitInv(H, A)
    BY DEF RaftInv
  <1>2. k \in 1 .. Len(chosen) /\ chosen[k].entry.command = w.command
    BY <1>1 DEF CommitInv, AcksChosen
  <1>3. chosen[k].at \in Nat /\ k \in Nat /\ k >= 1
    BY <1>2, RaftFacts
  <1>4. PICK T \in Nat : T = chosen[k].at
    BY <1>3
  <1>5. PICK c \in Nat : k <= c /\ Committed(H, A, T, c) /\ H[T][k] = chosen[k].entry
    BY <1>1, <1>2, <1>4 DEF CommitInv, ChosenTrue
  <1>6. PICK Q \in SUBSET Server : HasMajority(Q) /\ \A v \in Q : <<v, T, c>> \in A
    BY <1>5 DEF Committed
  <1>7. ASSUME NEW v \in Q PROVE v \in S
    <2>1. v \in Server /\ <<v, T, c>> \in A /\ Own(H, T, c) /\ ~Lost(A, T, c)
      BY <1>5, <1>6, NotLost DEF Committed
    <2>2. Agree(log[v], H[T], c)
      BY <1>1, <2>1 DEF AcceptInv, AcceptsTrue, HasOrLost
    <2>3. c <= Len(log[v]) /\ Len(log[v]) \in Nat /\ k \in 1 .. c
      BY <1>3, <1>5, <2>1, <2>2, RaftFacts DEF Agree
    <2>4. log[v][k] = H[T][k]
      BY <2>2, <2>3 DEF Agree
    <2>5. k <= LastIndex(v) /\ EntryAt(v, k) = log[v][k]
      BY <1>3, <2>1, <2>3, RaftFacts
    <2> QED BY <1>2, <1>5, <2>1, <2>4, <2>5
  <1>8. Q \subseteq S /\ S \in SUBSET Server
    BY <1>7
  <1> HIDE DEF S
  <1>9. HasMajority(S)
    BY <1>6, <1>8, MajorityGrows
  <1> QED BY <1>9 DEF S

LEMMA CommittedKept ==
    ASSUME RaftInv, NothingCompacted, NothingCompacted', [Next]_vars
    PROVE  \A i \in Server : \A k \in (last_included_index[i] + 1) .. commit_index[i] :
             \/ k <= last_included_index'[i]
             \/ k <= LastIndex(i)' /\ EntryAt(i, k)' = EntryAt(i, k)
  <1> SUFFICES ASSUME NEW i \in Server, NEW k \in (last_included_index[i] + 1) .. commit_index[i]
               PROVE  k <= LastIndex(i)' /\ EntryAt(i, k)' = EntryAt(i, k)
    OBVIOUS
  <1>1. PICK H, H2 \in Histories, A, A2 \in Acceptances : SafetyStep(H, H2, A, A2)
    BY RaftInvStep
  <1>2. Agree(log'[i], log[i], commit_index[i])
    BY <1>1, CommitsStayKnown
  <1>3. last_included_index[i] = 0 /\ last_included_index'[i] = 0
    BY DEF NothingCompacted
  <1>4. commit_index[i] \in Nat /\ Len(log'[i]) \in Nat
    BY <1>1, SafetyFacts, StepTypes DEF SafetyStep
  <1>5. k \in 1 .. commit_index[i] /\ k - 0 = k
    BY <1>3, <1>4
  <1>6. k <= Len(log'[i]) /\ log'[i][k] = log[i][k]
    BY <1>2, <1>4, <1>5 DEF Agree
  <1>7. LastIndex(i)' = Len(log'[i])
    BY <1>3, <1>4 DEF LastIndex
  <1>8. EntryAt(i, k)' = log'[i][k] /\ EntryAt(i, k) = log[i][k]
    BY <1>3, <1>5 DEF EntryAt
  <1> QED BY <1>6, <1>7, <1>8

-----------------------------------------------------------------------------
(* The refinement.                                                         *)

\* The commands of the committed log after a step, as a sequence.
LEMMA CommandsGrow ==
    ASSUME NEW H, NEW H2, NEW A, NEW A2, SafetyStep(H, H2, A, A2)
    PROVE  LET K == ChosenCommands(Len(chosen))
               K2 == ChosenCommands(Len(chosen))'
           IN  /\ Abstract!Grows(K, K2) /\ Len(K2) = Len(chosen')
               /\ \A k \in 1 .. Len(chosen') : K2[k] = chosen'[k].entry.command
               /\ \A n \in 0 .. Len(chosen') :
                    SubSeq(K2, 1, n) = [k \in 1 .. n |-> chosen'[k].entry.command]
  <1> DEFINE C == Command \cup {NoOp}
             Commanded(X) == [k \in 1 .. Len(X) |-> X[k].entry.command]
             K == Commanded(chosen)
             K2 == Commanded(chosen')
  <1>1. /\ chosen \in Seq([entry : Entry, at : Nat]) /\ Len(chosen) \in Nat
        /\ chosen' \in Seq([entry : Entry, at : Nat]) /\ Len(chosen') \in Nat
        /\ Len(chosen) <= Len(chosen') /\ \A k \in 1 .. Len(chosen) : chosen'[k] = chosen[k]
    BY SafetyFacts, ChosenGrows
  <1>2. ChosenCommands(Len(chosen)) = K /\ ChosenCommands(Len(chosen))' = K2
    BY DEF ChosenCommands
  <1>3. ASSUME NEW X \in Seq([entry : Entry, at : Nat])
        PROVE  /\ Commanded(X) \in Seq(C) /\ Len(Commanded(X)) = Len(X)
               /\ \A k \in 1 .. Len(X) : Commanded(X)[k] = X[k].entry.command
    <2>1. Len(X) \in Nat
      BY LenProperties
    <2>2. \A k \in 1 .. Len(X) : X[k] \in [entry : Entry, at : Nat]
      BY ElementOfSeq
    <2>3. \A k \in 1 .. Len(X) : X[k].entry.command \in C
      BY <2>2 DEF Entry
    <2> HIDE DEF C
    <2>4. Commanded(X) \in [1 .. Len(X) -> C]
      BY <2>3
    <2>5. \A k \in 1 .. Len(X) : Commanded(X)[k] = X[k].entry.command
      OBVIOUS
    <2> HIDE DEF Commanded
    <2> QED BY <2>1, <2>4, <2>5, FunctionIsSeq
  <1>4. /\ K \in Seq(C) /\ Len(K) = Len(chosen)
        /\ \A k \in 1 .. Len(chosen) : K[k] = chosen[k].entry.command
    BY <1>1, <1>3
  <1>5. /\ K2 \in Seq(C) /\ Len(K2) = Len(chosen')
        /\ \A k \in 1 .. Len(chosen') : K2[k] = chosen'[k].entry.command
    BY <1>1, <1>3
  <1>6. K = [k \in 1 .. Len(chosen) |-> chosen[k].entry.command]
    OBVIOUS
  <1> HIDE DEF K, K2, C
  <1>7. ASSUME NEW n \in 0 .. Len(chosen')
        PROVE  SubSeq(K2, 1, n) = [k \in 1 .. n |-> chosen'[k].entry.command]
    <2>1. n \in Nat /\ 1 \in Int /\ n \in Int /\ \A k \in 1 .. n : k \in 1 .. Len(chosen')
      BY <1>1
    <2>2. \A k \in 1 .. n : K2[k] \in C
      BY <1>5, <2>1, ElementOfSeq
    <2>3. /\ SubSeq(K2, 1, n) \in Seq(C) /\ Len(SubSeq(K2, 1, n)) = IF 1 <= n THEN n - 1 + 1 ELSE 0
      BY <2>1, <2>2, SubSeqProperties
    <2>4. \A k \in 1 .. (n - 1 + 1) : SubSeq(K2, 1, n)[k] = K2[1 + k - 1]
      BY <2>1, <2>2, SubSeqProperties
    <2>5. Len(SubSeq(K2, 1, n)) = n
      BY <2>1, <2>3
    <2>6. \A k \in 1 .. n : k \in 1 .. (n - 1 + 1) /\ 1 + k - 1 = k
      BY <2>1
    <2>7. \A k \in 1 .. n : SubSeq(K2, 1, n)[k] = chosen'[k].entry.command
      BY <1>5, <2>1, <2>4, <2>6
    <2>8. SubSeq(K2, 1, n) = [k \in 1 .. n |-> SubSeq(K2, 1, n)[k]]
      BY <2>3, <2>5, SeqAsFunction
    <2> QED BY <2>7, <2>8
  <1>8. Abstract!Grows(K, K2)
    <2>1. Len(chosen) \in 0 .. Len(chosen') /\ Len(K) <= Len(K2)
      BY <1>1, <1>4, <1>5
    <2>2. SubSeq(K2, 1, Len(K)) = [k \in 1 .. Len(chosen) |-> chosen'[k].entry.command]
      BY <1>4, <1>7, <2>1
    <2>3. [k \in 1 .. Len(chosen) |-> chosen'[k].entry.command] = K
      BY <1>1, <1>6
    <2> QED BY <2>1, <2>2, <2>3 DEF Abstract!Grows
  <1> QED BY <1>2, <1>5, <1>7, <1>8

\* A step moves at most one replica, to a prefix of the committed log.
LEMMA AbstractStep ==
    ASSUME RaftInv, NothingCompacted, NothingCompacted', [Next]_vars
    PROVE  [Abstract!Next]_<<ChosenCommands(Len(chosen)), app_state, acked>>
  <1> DEFINE K2 == ChosenCommands(Len(chosen))'
  <1>1. PICK H, H2 \in Histories, A, A2 \in Acceptances : SafetyStep(H, H2, A, A2)
    BY RaftInvStep
  <1>2. RaftInv' /\ NothingCompacted'
    BY RaftInvStep
  <1>3. \A i \in Server : commit_index'[i] <= Len(chosen') /\ app_state'[i] = ChosenCommands(commit_index[i])'
    <2>1. (\A i \in Server : commit_index[i] <= Len(chosen) /\ app_state[i] = ChosenCommands(commit_index[i]))'
      BY <1>2, RaftInvStates, PTL
    <2> QED BY <2>1
  <1>4. \A i \in Server : commit_index[i] \in Nat /\ commit_index'[i] \in Nat
    BY <1>1, SafetyFacts
  <1>5. /\ Abstract!Grows(ChosenCommands(Len(chosen)), K2) /\ Len(K2) = Len(chosen') /\ Len(chosen') \in Nat
        /\ \A k \in 1 .. Len(chosen') : K2[k] = chosen'[k].entry.command
        /\ \A n \in 0 .. Len(chosen') :
                    SubSeq(K2, 1, n) = [k \in 1 .. n |-> chosen'[k].entry.command]
    BY <1>1, CommandsGrow, ChosenGrows
  <1>6. ASSUME NEW i \in Server
        PROVE  commit_index'[i] \in 0 .. Len(K2) /\ app_state'[i] = SubSeq(K2, 1, commit_index'[i])
    <2>1. commit_index'[i] \in 0 .. Len(chosen')
      BY <1>3, <1>4, <1>5
    <2>2. ChosenCommands(commit_index[i])' = [k \in 1 .. commit_index'[i] |-> chosen'[k].entry.command]
      BY DEF ChosenCommands
    <2> QED BY <1>3, <1>5, <2>1, <2>2
  <1>7. AcksChosen'
    BY <1>1, AcksStayChosen
  <1> HIDE DEF K2
  <1>8. ASSUME NEW i \in Server, NEW new, app_state' = [app_state EXCEPT ![i] = new], acked \subseteq acked',
               \A w \in acked' \ acked : w.index <= commit_index'[i]
        PROVE  Abstract!Next
    <2>1. app_state' = [app_state EXCEPT ![i] = SubSeq(K2, 1, commit_index'[i])]
      <3>1. app_state'[i] = new
        BY <1>1, <1>8, SafetyFacts
      <3> QED BY <1>6, <1>8, <3>1
    <2>2. \A w \in acked' \ acked : w.index <= commit_index'[i] /\ K2[w.index] = w.command
      BY <1>5, <1>7, <1>8 DEF AcksChosen
    <2>3. Abstract!Advance(i)
      BY <1>5, <1>6, <1>8, <2>1, <2>2 DEF Abstract!Advance, K2
    <2> QED BY <2>3 DEF Abstract!Next
  <1>9. CASE UNCHANGED <<commit_index, app_state, chosen, acked>>
    <2>1. ChosenCommands(Len(chosen))' = ChosenCommands(Len(chosen))
      BY <1>9 DEF ChosenCommands
    <2> QED BY <1>9, <2>1
  <1>10. ASSUME NEW i \in Server, Forgets(i) PROVE Abstract!Next
    BY <1>8, <1>10 DEF Forgets
  <1>11. commit_index \in [Server -> Nat]
    BY <1>1 DEF SafetyStep, RaftStep, PlainInv
  <1>12. ASSUME NEW i \in Server, NEW c \in Nat, LeaderCommits(i, c) PROVE Abstract!Next
    <2>1. commit_index'[i] = c
      BY <1>11, <1>12 DEF LeaderCommits, Applies
    <2>2. \A w \in acked' \ acked : w.index <= c
      BY <1>12 DEF LeaderCommits
    <2> QED BY <1>8, <1>12, <2>1, <2>2 DEF LeaderCommits, Applies
  <1>13. ASSUME NEW m \in append_requests, NEW c \in Nat, FollowerCommits(m, c) PROVE Abstract!Next
    <2>1. m.dest \in Server
      BY <1>1, <1>13, FollowerCommitted
    <2> QED BY <1>8, <1>13, <2>1 DEF FollowerCommits, Applies
  <1> QED BY <1>1, <1>9, <1>10, <1>12, <1>13 DEF SafetyStep, CommittingStep, CommitStep

-----------------------------------------------------------------------------
(* The theorems.                                                           *)

\* The inductive invariant: in every behaviour in which nothing is compacted there are
\* logs of the leaders of all terms, and a record of who accepted what, that explain
\* the logs, the commit indices, the state machines and every message under way.
THEOREM RaftInvariant == Spec /\ []NothingCompacted => []RaftInv
  <1>1. RaftInv /\ NothingCompacted /\ NothingCompacted' /\ [Next]_vars => RaftInv'
    BY RaftInvStep
  <1> QED BY RaftInvInit, <1>1, PTL DEF Spec

\* What a leader's match_index says of a peer of its term is so, though replies come
\* late, out of order and more than once (handle_append_entries_response).
THEOREM MatchesAreTrue == Spec /\ []NothingCompacted => []MatchIndexTrue
  BY RaftInvariant, RaftInvMatch, PTL

\* apply_logs and send_heartbeats never index past the log.
THEOREM IndicesStayWithin == Spec /\ []NothingCompacted => []IndicesWithinLog
  BY RaftInvariant, RaftInvIndices, PTL

\* So every variable keeps its type: the proviso of TypeCorrect holds when nothing is
\* compacted.
THEOREM UncompactedTypes == Spec /\ []NothingCompacted => []TypeOK
  BY IndicesStayWithin, TypeCorrect, PTL

\* A leader holds every entry that leaders of earlier terms committed: the election
\* restriction of handle_request_vote and the term check of the commit rule suffice,
\* for any number of servers and with crashes inside start_election and
\* step_down_to_follower.
THEOREM LeadersAreComplete == Spec /\ []NothingCompacted => []LeaderCompleteness
  BY RaftInvariant, RaftInvLeaders, PTL

\* Every state machine is a prefix of the one committed log, each command applied once
\* and in order (apply_logs), through elections, conflicts and restarts.
THEOREM StateMachinesAgree == Spec /\ []NothingCompacted => []StateMachineSafety
  BY RaftInvariant, RaftInvMachines, PTL

\* What was acknowledged to a client stays on a majority of the logs.
THEOREM AcknowledgedStays == Spec /\ []NothingCompacted => []AckedOnMajority
  BY RaftInvariant, RaftInvAcked, PTL

\* No step removes from a log an entry its node knows to be committed: neither the
\* conflict handling of AppendEntries nor a restart.
THEOREM CommittedStaysInLog == Spec /\ []NothingCompacted => CommittedEntriesStay
  <1>1. RaftInv /\ NothingCompacted /\ NothingCompacted' /\ [Next]_vars =>
          [\A i \in Server : \A k \in (last_included_index[i] + 1) .. commit_index[i] :
             \/ k <= last_included_index'[i]
             \/ k <= LastIndex(i)' /\ EntryAt(i, k)' = EntryAt(i, k)]_vars
    BY CommittedKept
  <1> QED BY RaftInvariant, <1>1, PTL DEF Spec, CommittedEntriesStay

\* The group implements ReplicatedLog: one log of commands that only grows, replicas
\* that are prefixes of it, and acknowledgements only of what the log holds and the
\* answering replica has applied.
THEOREM ReplicatedLogImplemented == Spec /\ []NothingCompacted => ImplementsReplicatedLog
  <1>1. Init => Abstract!Init
    <2> SUFFICES ASSUME Init PROVE Abstract!Init
      OBVIOUS
    <2>1. chosen = <<>> /\ app_state = [i \in Server |-> <<>>] /\ acked = {}
      BY DEF Init
    <2>2. Len(<<>>) = 0 /\ 1 .. 0 = {}
      OBVIOUS
    <2>3. ChosenCommands(Len(chosen)) = <<>>
      BY <2>1, <2>2 DEF ChosenCommands
    <2> QED BY <2>1, <2>3 DEF Abstract!Init
  <1>2. RaftInv /\ NothingCompacted /\ NothingCompacted' /\ [Next]_vars =>
          [Abstract!Next]_<<ChosenCommands(Len(chosen)), app_state, acked>>
    BY AbstractStep
  <1> QED BY RaftInvariant, <1>1, <1>2, PTL DEF Spec, ImplementsReplicatedLog, Abstract!Spec

-----------------------------------------------------------------------------
(* A group of one member, which may compact its log.                       *)

\* The group has one member.
SoleGroup == \A i \in Server : Peers(i) = {}

\* Nobody to talk to.
NoMessages ==
    /\ vote_requests = {} /\ vote_replies = {} /\ append_requests = {} /\ append_replies = {}
    /\ snap_requests = {} /\ snap_replies = {}

\* Log L in memory, its keys D and a snapshot up to lii, of term lit, hold the
\* committed entries C, all of them and nothing else.
Whole(L, D, lii, lit, C) ==
    /\ lii + Len(L) = Len(C)
    /\ \A k \in 1 .. Len(L) : L[k] = C[lii + k].entry
    /\ \A k \in Nat : k > lii => /\ k \in DOMAIN D <=> k <= lii + Len(L)
                                 /\ k <= lii + Len(L) => D[k] = L[k - lii]
    /\ lii > 0 => lit = C[lii].entry.term

\* The inductive invariant of a group of one: the only log is the committed log, from
\* the snapshot on, in memory and in the database, and every read was served from it.
SoleInv ==
    /\ NoMessages
    /\ \A i \in Server :
         /\ Whole(log[i], db_log[i], last_included_index[i], last_included_term[i], chosen)
         /\ commit_index[i] <= LastIndex(i)
         /\ role[i] = Leader => commit_index[i] = LastIndex(i)
         /\ pending_read_indices[i] = {}
    /\ LinearizableReads

-----------------------------------------------------------------------------
\* The only member has no peers.
LEMMA SoleServer ==
    ASSUME SoleGroup, NEW i \in Server
    PROVE  Server = {i} /\ Peers(i) = {}
  BY DEF SoleGroup, Peers

\* load_state finds every key after the snapshot when there is no gap.
LEMMA LoadedWhole ==
    ASSUME NEW D, IsDatabase(D), NEW lii \in Nat, NEW n \in Nat,
           \A k \in Nat : k > lii => (k \in DOMAIN D <=> k <= lii + n)
    PROVE  LoadedLog(D, lii) = [k \in 1 .. n |-> D[lii + k]]
  <1> DEFINE N == Cardinality(DOMAIN D)
             Fits(j) == /\ (lii + 1) .. (lii + j) \subseteq DOMAIN D
                        /\ lii + j + 1 \notin DOMAIN D
             x == CHOOSE j \in 0 .. N : Fits(j)
  <1>1. IsFiniteSet(DOMAIN D) /\ N \in Nat
    BY FS_CardinalityType DEF IsDatabase
  <1>2. (lii + 1) .. (lii + n) \subseteq DOMAIN D
    <2> SUFFICES ASSUME NEW j \in (lii + 1) .. (lii + n) PROVE j \in DOMAIN D
      OBVIOUS
    <2>1. j \in Nat /\ j > lii /\ j <= lii + n
      OBVIOUS
    <2> QED BY <2>1
  <1>3. n <= N
    <2>1. Cardinality((lii + 1) .. (lii + n)) = IF lii + 1 > lii + n THEN 0 ELSE (lii + n) - (lii + 1) + 1
      BY FS_Interval
    <2>2. Cardinality((lii + 1) .. (lii + n)) <= N
      BY <1>1, <1>2, FS_Subset
    <2> QED BY <1>1, <2>1, <2>2
  <1>4. n \in 0 .. N /\ Fits(n)
    <2>1. lii + n + 1 \notin DOMAIN D
      <3>1. lii + n + 1 \in Nat /\ lii + n + 1 > lii /\ ~(lii + n + 1 <= lii + n)
        OBVIOUS
      <3> QED BY <3>1
    <2> QED BY <1>1, <1>2, <1>3, <2>1
  <1>5. ASSUME NEW j \in 0 .. N, Fits(j) PROVE j = n
    <2>1. j \in Nat
      BY <1>1
    <2>2. ~(j < n)
      <3>1. j < n => lii + j + 1 \in (lii + 1) .. (lii + n)
        BY <2>1
      <3> QED BY <1>2, <1>5, <3>1
    <2>3. ~(n < j)
      <3>1. n < j => lii + n + 1 \in (lii + 1) .. (lii + j)
        BY <2>1
      <3> QED BY <1>4, <1>5, <3>1
    <2> QED BY <2>1, <2>2, <2>3
  <1>6. x = n
    <2> HIDE DEF Fits
    <2>1. x \in 0 .. N /\ Fits(x)
      BY <1>4, Zenon
    <2> HIDE DEF x
    <2> QED BY <1>5, <2>1
  <1>7. LoadedLog(D, lii) = [k \in 1 .. x |-> D[lii + k]]
    BY DEF LoadedLog
  <1> HIDE DEF x
  <1> QED BY <1>6, <1>7

\* A restart finds the entries that follow the snapshot.
LEMMA LoadedAgain ==
    ASSUME NEW L \in Seq(Entry), NEW D, IsDatabase(D), NEW lii \in Nat, NEW lit, NEW C,
           Whole(L, D, lii, lit, C)
    PROVE  LoadedLog(D, lii) = L
  <1>1. Len(L) \in Nat
    OBVIOUS
  <1>2. LoadedLog(D, lii) = [k \in 1 .. Len(L) |-> D[lii + k]]
    BY <1>1, LoadedWhole DEF Whole
  <1>3. ASSUME NEW k \in 1 .. Len(L) PROVE D[lii + k] = L[k]
    <2>1. lii + k \in Nat /\ lii + k > lii /\ lii + k <= lii + Len(L) /\ (lii + k) - lii = k
      BY <1>1
    <2> QED BY <2>1 DEF Whole
  <1>4. [k \in 1 .. Len(L) |-> D[lii + k]] = [k \in 1 .. Len(L) |-> L[k]]
    BY <1>3
  <1> QED BY <1>2, <1>4, SeqAsFunction

\* The log that starts after a, once the snapshot reaches a.
LEMMA WholeAfter ==
    ASSUME NEW L \in Seq(Entry), NEW D, NEW lii \in Nat, NEW lit, NEW C,
           Whole(L, D, lii, lit, C), NEW a \in Nat, lii < a, a <= lii + Len(L)
    PROVE  LET L2 == SubSeq(L, a - lii + 1, Len(L))
           IN  /\ Whole(L2, D, a, L[a - lii].term, C)
               /\ Whole(L2, DeleteKeys(D, (lii + 1) .. a), a, L[a - lii].term, C)
  <1> DEFINE L2 == SubSeq(L, a - lii + 1, Len(L))
             t == L[a - lii].term
             D2 == DeleteKeys(D, (lii + 1) .. a)
             n == lii + Len(L)
  <1>1. Len(L) \in Nat /\ a - lii \in 1 .. Len(L) /\ a - lii + 1 \in Nat \ {0} /\ n \in Nat
    OBVIOUS
  <1>2. /\ L2 \in Seq(Entry)
        /\ Len(L2) = n - a
        /\ \A k \in 1 .. (n - a) : L2[k] = L[k + (a - lii)]
    <2>1. \A k \in (a - lii + 1) .. Len(L) : L[k] \in Entry
      BY <1>1, ElementOfSeq
    <2>2. /\ L2 \in Seq(Entry)
          /\ Len(L2) = IF a - lii + 1 <= Len(L) THEN Len(L) - (a - lii + 1) + 1 ELSE 0
          /\ \A k \in 1 .. Len(L) - (a - lii + 1) + 1 : L2[k] = L[(a - lii + 1) + k - 1]
      BY <1>1, <2>1, SubSeqProperties
    <2> HIDE DEF L2
    <2>a. Len(L) - (a - lii + 1) + 1 = n - a
      BY <1>1
    <2>b. ~(a - lii + 1 <= Len(L)) => n - a = 0
      BY <1>1
    <2>3. /\ Len(L) - (a - lii + 1) + 1 = n - a
          /\ Len(L2) = n - a
      <3> HIDE DEF n
      <3> QED BY <2>2, <2>a, <2>b
    <2>4. \A k \in 1 .. (n - a) : (a - lii + 1) + k - 1 = k + (a - lii)
      BY <1>1
    <2> HIDE DEF n
    <2> QED BY <2>2, <2>3, <2>4
  <1> HIDE DEF L2
  <1>3. n = Len(C) /\ a + Len(L2) = n
    BY <1>1, <1>2 DEF Whole
  <1>4. ASSUME NEW k \in 1 .. Len(L2) PROVE L2[k] = C[a + k].entry
    <2>1. k + (a - lii) \in 1 .. Len(L) /\ lii + (k + (a - lii)) = a + k /\ k \in 1 .. (n - a)
      BY <1>1, <1>2
    <2>2. L2[k] = L[k + (a - lii)]
      BY <1>2, <2>1
    <2> QED BY <2>1, <2>2 DEF Whole
  <1>5. t = C[a].entry.term
    <2>1. lii + (a - lii) = a
      BY <1>1
    <2> QED BY <1>1, <2>1 DEF Whole
  <1>6. ASSUME NEW k \in Nat, k > a
        PROVE  /\ k \in DOMAIN D <=> k <= a + Len(L2)
               /\ k <= a + Len(L2) => D[k] = L2[k - a]
               /\ k \in DOMAIN D2 <=> k \in DOMAIN D
               /\ k \in DOMAIN D => D2[k] = D[k]
    <2>1. k > lii /\ k \notin (lii + 1) .. a
      BY <1>6
    <2>2. (k \in DOMAIN D <=> k <= n) /\ (k <= n => D[k] = L[k - lii])
      BY <2>1 DEF Whole
    <2>3. k <= n => L2[k - a] = L[k - lii]
      <3>1. k <= n => k - a \in 1 .. (n - a) /\ (k - a) + (a - lii) = k - lii
        BY <1>1, <1>6
      <3> QED BY <1>2, <3>1
    <2>4. (k \in DOMAIN D2 <=> k \in DOMAIN D) /\ (k \in DOMAIN D => D2[k] = D[k])
      BY <2>1 DEF DeleteKeys
    <2> HIDE DEF n, D2
    <2> QED BY <1>3, <2>2, <2>3, <2>4
  <1> HIDE DEF D2, t, n
  <1>7. Whole(L2, D, a, t, C)
    BY <1>3, <1>4, <1>5, <1>6 DEF Whole
  <1>8. Whole(L2, D2, a, t, C)
    BY <1>3, <1>4, <1>5, <1>6 DEF Whole
  <1> QED BY <1>7, <1>8 DEF L2, D2, t

\* The log, the database and the committed entries that grew by es.
LEMMA WholeGrows ==
    ASSUME NEW L \in Seq(Entry), NEW D, NEW lii \in Nat, NEW lit,
           NEW C \in Seq([entry : Entry, at : Nat]),
           Whole(L, D, lii, lit, C), NEW es \in Seq(Entry), NEW t \in Nat, NEW C2,
           C2 = C \o [k \in 1 .. ((lii + Len(L \o es)) - Len(C)) |->
                        [entry |-> (L \o es)[Len(C) + k - lii], at |-> t]]
    PROVE  Whole(L \o es, SaveEntries(D, lii + Len(L) + 1, es), lii, lit, C2)
  <1> DEFINE L2 == L \o es
             from == lii + Len(L) + 1
             D2 == SaveEntries(D, from, es)
             n == (lii + Len(L2)) - Len(C)
             new == [k \in 1 .. n |-> [entry |-> L2[Len(C) + k - lii], at |-> t]]
             CE == [entry : Entry, at : Nat]
  <1>1. /\ Len(L) \in Nat /\ Len(es) \in Nat /\ Len(C) \in Nat /\ Len(C) = lii + Len(L)
    BY DEF Whole
  <1>2. /\ L2 \in Seq(Entry) /\ Len(L2) = Len(L) + Len(es)
        /\ \A k \in 1 .. Len(L) + Len(es) : L2[k] = IF k <= Len(L) THEN L[k] ELSE es[k - Len(L)]
    BY ConcatProperties
  <1> HIDE DEF L2
  <1>3. n = Len(es) /\ n \in Nat
    BY <1>1, <1>2
  <1>4. \A k \in 1 .. n : Len(C) + k - lii \in 1 .. Len(L2) /\ L2[Len(C) + k - lii] \in Entry
    <2>1. \A k \in 1 .. n : Len(C) + k - lii \in 1 .. Len(L2)
      <3> HIDE DEF n
      <3> SUFFICES ASSUME NEW k \in 1 .. n PROVE Len(C) + k - lii \in 1 .. Len(L2)
        OBVIOUS
      <3>1. Len(C) + k - lii = Len(L) + k
        BY <1>1, <1>3
      <3> QED BY <1>1, <1>2, <1>3, <3>1
    <2> QED BY <1>2, <2>1, ElementOfSeq
  <1>5. new \in Seq(CE) /\ Len(new) = n
    <2>1. new \in [1 .. n -> CE]
      BY <1>4
    <2> HIDE DEF new, n, CE
    <2> QED BY <1>3, <2>1, FunctionIsSeq
  <1>6. C2 = C \o new
    BY DEF L2
  <1>7. /\ Len(C2) = Len(C) + n
        /\ \A k \in 1 .. Len(C) + n : C2[k] = IF k <= Len(C) THEN C[k] ELSE new[k - Len(C)]
    <2> HIDE DEF new, n, CE
    <2>1. C \in Seq(CE)
      BY DEF CE
    <2>2. /\ Len(C \o new) = Len(C) + Len(new)
          /\ \A k \in 1 .. Len(C) + Len(new) :
               (C \o new)[k] = IF k <= Len(C) THEN C[k] ELSE new[k - Len(C)]
      BY <1>5, <2>1, ConcatProperties
    <2> QED BY <1>5, <1>6, <2>2
  <1>8. \A k \in 1 .. n : new[k].entry = L2[Len(C) + k - lii]
    OBVIOUS
  <1> HIDE DEF new, n
  <1>9. lii + Len(L2) = Len(C2)
    BY <1>1, <1>2, <1>3, <1>7
  <1>10. ASSUME NEW k \in 1 .. Len(L2) PROVE L2[k] = C2[lii + k].entry
    <2>1. CASE k <= Len(L)
      <3>1. k \in 1 .. Len(L) /\ lii + k \in 1 .. Len(C) + n /\ lii + k <= Len(C)
        BY <1>1, <1>2, <1>3, <2>1
      <3>2. L2[k] = L[k] /\ C2[lii + k] = C[lii + k]
        BY <1>2, <1>7, <2>1, <3>1
      <3> QED BY <3>1, <3>2 DEF Whole
    <2>2. CASE ~(k <= Len(L))
      <3>1. /\ lii + k \in 1 .. Len(C) + n /\ ~(lii + k <= Len(C))
            /\ (lii + k) - Len(C) \in 1 .. n /\ Len(C) + ((lii + k) - Len(C)) - lii = k
        BY <1>1, <1>2, <1>3, <2>2
      <3>2. C2[lii + k] = new[(lii + k) - Len(C)]
        <4> DEFINE q == lii + k
        <4>1. q \in 1 .. Len(C) + n /\ ~(q <= Len(C))
          BY <3>1
        <4> HIDE DEF q
        <4>2. C2[q] = new[q - Len(C)]
          BY <1>7, <4>1
        <4> QED BY <4>2 DEF q
      <3>3. new[(lii + k) - Len(C)].entry = L2[Len(C) + ((lii + k) - Len(C)) - lii]
        BY <1>8, <3>1
      <3> QED BY <3>1, <3>2, <3>3
    <2> QED BY <2>1, <2>2
  <1>11. ASSUME NEW k \in Nat, k > lii
         PROVE  /\ k \in DOMAIN D2 <=> k <= lii + Len(L2)
                /\ k <= lii + Len(L2) => D2[k] = L2[k - lii]
    <2> DEFINE keys == from .. (from + Len(es) - 1)
    <2>1. DOMAIN D2 = DOMAIN D \cup keys
      BY DEF SaveEntries
    <2>2. k \in keys <=> (lii + Len(L) < k /\ k <= lii + Len(L2))
      BY <1>1, <1>2
    <2>3. (k \in DOMAIN D <=> k <= lii + Len(L)) /\ (k <= lii + Len(L) => D[k] = L[k - lii])
      BY <1>11 DEF Whole
    <2>4. k \in DOMAIN D2 <=> k <= lii + Len(L2)
      BY <1>1, <1>2, <2>1, <2>2, <2>3
    <2>5. CASE k <= lii + Len(L)
      <3>1. k \in DOMAIN D /\ k \notin keys /\ k - lii \in 1 .. Len(L) + Len(es) /\ k - lii <= Len(L)
        BY <1>1, <1>2, <1>11, <2>2, <2>3, <2>5
      <3>2. D2[k] = D[k]
        BY <2>1, <3>1 DEF SaveEntries
      <3>3. L2[k - lii] = L[k - lii]
        BY <1>2, <3>1
      <3> QED BY <2>3, <2>4, <2>5, <3>2, <3>3
    <2>6. CASE lii + Len(L) < k /\ k <= lii + Len(L2)
      <3>1. /\ k \in keys /\ k - from + 1 = (k - lii) - Len(L)
            /\ k - lii \in 1 .. Len(L) + Len(es) /\ ~(k - lii <= Len(L))
        BY <1>1, <1>2, <2>2, <2>6
      <3>2. D2[k] = es[k - from + 1]
        BY <2>1, <3>1 DEF SaveEntries
      <3>3. L2[k - lii] = es[(k - lii) - Len(L)]
        BY <1>2, <3>1
      <3> QED BY <2>4, <3>1, <3>2, <3>3
    <2>7. CASE ~(k <= lii + Len(L2))
      BY <2>4, <2>7
    <2> HIDE DEF keys
    <2> QED BY <1>1, <1>2, <2>5, <2>6, <2>7
  <1>12. lii > 0 => lit = C2[lii].entry.term
    <2>1. lii > 0 => C2[lii] = C[lii]
      <3>1. lii > 0 => lii \in 1 .. Len(C) + n /\ lii <= Len(C)
        BY <1>1, <1>3
      <3> QED BY <1>7, <3>1
    <2> QED BY <2>1 DEF Whole
  <1> HIDE DEF D2, from
  <1> QED BY <1>9, <1>10, <1>11, <1>12 DEF Whole, D2, L2, from

\* TypesInv and SoleInv for one node.
LEMMA SoleFacts ==
    ASSUME TypesInv, SoleInv, NEW i \in Server
    PROVE  /\ Whole(log[i], db_log[i], last_included_index[i], last_included_term[i], chosen)
           /\ log[i] \in Seq(Entry) /\ Len(log[i]) \in Nat /\ IsDatabase(db_log[i])
           /\ last_included_index[i] \in Nat /\ current_term[i] \in Nat
           /\ chosen \in Seq([entry : Entry, at : Nat]) /\ Len(chosen) \in Nat
           /\ LastIndex(i) = last_included_index[i] + Len(log[i]) /\ LastIndex(i) = Len(chosen)
           /\ last_applied[i] = commit_index[i] /\ commit_index[i] \in Nat
           /\ last_included_index[i] <= commit_index[i] /\ commit_index[i] <= LastIndex(i)
  <1>1. DiskTypes /\ ApplyTypes /\ current_term[i] \in Nat
    BY DEF TypesInv, ElectionTypeOK
  <1>2. /\ Whole(log[i], db_log[i], last_included_index[i], last_included_term[i], chosen)
        /\ commit_index[i] <= LastIndex(i)
    BY DEF SoleInv
  <1>3. LastIndex(i) = last_included_index[i] + Len(log[i]) /\ LastIndex(i) = Len(chosen)
    BY <1>2 DEF LastIndex, Whole
  <1> QED BY <1>1, <1>2, <1>3 DEF DiskTypes, ApplyTypes

\* So the proviso of TypeCorrect holds.
LEMMA SoleWithin == SoleGroup /\ SoleInv => IndicesWithinLog
  BY DEF SoleGroup, SoleInv, IndicesWithinLog

\* What compaction does to a log that holds every committed entry.
LEMMA SoleCompacts ==
    ASSUME TypesInv, NEW i \in Server, NEW L \in Seq(Entry), NEW D, NEW C, NEW a \in Nat,
           Whole(L, D, last_included_index[i], last_included_term[i], C),
           a <= last_included_index[i] + Len(L), NEW state, Compact(i, L, D, a, state)
    PROVE  Whole(log'[i], db_log'[i], last_included_index'[i], last_included_term'[i], C)
  <1> DEFINE lii == last_included_index[i]
  <1>1. /\ lii \in Nat /\ log \in [Server -> Seq(Entry)] /\ last_included_index \in [Server -> Nat]
        /\ last_included_term \in [Server -> Nat] /\ db_log = [j \in Server |-> db_log[j]]
    BY DEF TypesInv, DiskTypes
  <1>2. CASE NeedsSnapshot(i, L, a)
    <2> DEFINE L2 == SubSeq(L, a - lii + 1, Len(L))
               D2 == DeleteKeys(D, (lii + 1) .. a)
               t2 == L[a - lii].term
    <2>1. /\ log' = [log EXCEPT ![i] = L2] /\ db_log' = [db_log EXCEPT ![i] = D2]
          /\ last_included_index' = [last_included_index EXCEPT ![i] = a]
          /\ last_included_term' = [last_included_term EXCEPT ![i] = t2]
      BY <1>2 DEF Compact
    <2>2. lii < a
      BY <1>1, <1>2 DEF NeedsSnapshot
    <2>3. Whole(L2, D2, a, t2, C)
      BY <1>1, <2>2, WholeAfter
    <2> HIDE DEF L2, D2, t2
    <2>4. log'[i] = L2 /\ db_log'[i] = D2 /\ last_included_index'[i] = a /\ last_included_term'[i] = t2
      BY <1>1, <2>1
    <2> QED BY <2>3, <2>4
  <1>3. CASE ~NeedsSnapshot(i, L, a)
    <2>1. /\ log' = [log EXCEPT ![i] = L] /\ db_log' = [db_log EXCEPT ![i] = D]
          /\ UNCHANGED <<last_included_index, last_included_term>>
      BY <1>3 DEF Compact
    <2>2. log'[i] = L /\ db_log'[i] = D
      BY <1>1, <2>1
    <2> QED BY <2>1, <2>2
  <1> QED BY <1>2, <1>3

\* What is left of the invariant once the log is known to be whole.
LEMMA SoleAssembled ==
    ASSUME SoleGroup, NEW i \in Server, TypesInv', NoMessages', LinearizableReads',
           Whole(log[i], db_log[i], last_included_index[i], last_included_term[i], chosen)',
           commit_index'[i] <= Len(chosen'),
           role'[i] = Leader => commit_index'[i] = Len(chosen'),
           pending_read_indices'[i] = {}
    PROVE  SoleInv'
  <1>1. Server = {i}
    BY SoleServer
  <1>2. LastIndex(i)' = Len(chosen')
    BY DEF LastIndex, Whole
  <1> QED BY <1>1, <1>2 DEF SoleInv

\* The member elects itself, appends its NoOp and commits it.
LEMMA SoleElectionStep ==
    ASSUME TypesInv, TypesInv', SoleInv, SoleGroup, NEW i \in Server, SoleMemberElection(i)
    PROVE  SoleInv'
  <1> DEFINE t == current_term[i] + 1
             e == [term |-> t, command |-> NoOp]
             L == log[i] \o <<e>>
             lii == last_included_index[i]
             last == LastIndex(i) + 1
             D == SaveEntries(db_log[i], lii + Len(log[i]) + 1, <<e>>)
  <1>0. /\ Whole(log[i], db_log[i], lii, last_included_term[i], chosen)
        /\ log[i] \in Seq(Entry) /\ Len(log[i]) \in Nat /\ lii \in Nat
        /\ LastIndex(i) = lii + Len(log[i]) /\ LastIndex(i) = Len(chosen)
        /\ chosen \in Seq([entry : Entry, at : Nat]) /\ t \in Nat
    <2>1. current_term[i] \in Nat
      BY SoleFacts
    <2>2. t \in Nat
      BY <2>1
    <2> QED BY <2>2, SoleFacts
  <1>1. e \in Entry /\ <<e>> \in Seq(Entry) /\ Len(<<e>>) = 1
    BY <1>0 DEF Entry
  <1>2. /\ LogWithNoOp(i, t) = L /\ L \in Seq(Entry) /\ Len(L) = Len(log[i]) + 1
        /\ L[Len(L)] = e
    <2> HIDE DEF e
    <2>1. Append(log[i], e) = log[i] \o <<e>>
      BY <1>0, <1>1, AppendIsConcat
    <2>2. /\ L \in Seq(Entry) /\ Len(L) = Len(log[i]) + 1 /\ L[Len(log[i]) + 1] = e
      BY <1>0, <1>1
    <2> QED BY <2>1, <2>2 DEF LogWithNoOp, e
  <1>3. last \in Nat /\ last = lii + Len(L) /\ last = lii + Len(log[i]) + 1
    BY <1>0, <1>2
  <1>4. /\ Choose(i, t, L, last) /\ Compact(i, L, D, last, app_state'[i])
        /\ commit_index' = [commit_index EXCEPT ![i] = last]
        /\ UNCHANGED <<pending_read_indices, vote_requests, vote_replies, append_requests,
                       append_replies, snap_requests, snap_replies, served_reads>>
    BY <1>2, <1>3 DEF SoleMemberElection, SoleCommit, ApplyLogs, clientVars, voteMsgs, appendMsgs,
       snapMsgs
  <1>5. chosen' = chosen \o [k \in 1 .. ((lii + Len(L)) - Len(chosen)) |->
                               [entry |-> L[Len(chosen) + k - lii], at |-> t]]
    BY <1>3, <1>4 DEF Choose
  <1>6. Whole(L, D, lii, last_included_term[i], chosen')
    <2> HIDE DEF e, t
    <2> QED BY <1>0, <1>1, <1>5, WholeGrows
  <1> HIDE DEF L, D, last
  <1>7. Whole(log[i], db_log[i], last_included_index[i], last_included_term[i], chosen)'
    <2>1. last <= lii + Len(L)
      BY <1>3
    <2> QED BY <1>2, <1>3, <1>4, <1>6, <2>1, SoleCompacts
  <1>8. last = Len(chosen') /\ commit_index'[i] = last
    BY <1>3, <1>4, <1>6 DEF Whole, TypesInv, ApplyTypes
  <1>9. NoMessages' /\ LinearizableReads' /\ pending_read_indices'[i] = {}
    BY <1>4 DEF SoleInv, NoMessages, LinearizableReads
  <1> QED BY <1>3, <1>7, <1>8, <1>9, SoleAssembled

\* The other duties of the tick.
LEMMA SoleTickStep ==
    ASSUME TypesInv, TypesInv', SoleInv, SoleGroup, NEW i \in Server,
           QuietTick(i) \/ LeaderTick(i)
    PROVE  SoleInv'
  <1>1. /\ Compact(i, log[i], db_log[i], last_applied[i], app_state[i])
        /\ UNCHANGED <<commit_index, role, chosen, pending_read_indices, vote_requests,
                       vote_replies, served_reads>>
    BY DEF QuietTick, LeaderTick, applyVars, clientVars, voteMsgs, ghostVars
  <1>2. UNCHANGED <<append_requests, append_replies, snap_requests, snap_replies>>
    BY SoleServer DEF QuietTick, LeaderTick, SendHeartbeats, appendMsgs, snapMsgs
  <1>3. Whole(log[i], db_log[i], last_included_index[i], last_included_term[i], chosen)'
    BY <1>1, SoleFacts, SoleCompacts
  <1>4. commit_index'[i] <= Len(chosen') /\ (role'[i] = Leader => commit_index'[i] = Len(chosen'))
    BY <1>1, SoleFacts DEF SoleInv
  <1>5. NoMessages' /\ LinearizableReads' /\ pending_read_indices'[i] = {}
    BY <1>1, <1>2 DEF SoleInv, NoMessages, LinearizableReads
  <1> QED BY <1>3, <1>4, <1>5, SoleAssembled

\* The member takes a batch of commands, or answers a read at once.
LEMMA SoleClientStep ==
    ASSUME TypesInv, TypesInv', SoleInv, SoleGroup, NEW i \in Server, NEW b \in Batches,
           ClientRequest(i, b)
    PROVE  SoleInv'
  <1> DEFINE t == current_term[i]
             es == [k \in 1 .. Len(b) |-> [term |-> t, command |-> b[k]]]
             L == log[i] \o es
             lii == last_included_index[i]
             last == LastIndex(i) + Len(b)
             D == SaveEntries(db_log[i], lii + Len(log[i]) + 1, es)
  <1>0. /\ Whole(log[i], db_log[i], lii, last_included_term[i], chosen)
        /\ log[i] \in Seq(Entry) /\ Len(log[i]) \in Nat /\ lii \in Nat
        /\ LastIndex(i) = lii + Len(log[i]) /\ LastIndex(i) = Len(chosen)
        /\ chosen \in Seq([entry : Entry, at : Nat]) /\ t \in Nat
    BY SoleFacts
  <1>1. Len(b) \in Nat /\ es \in Seq(Entry) /\ Len(es) = Len(b)
    BY <1>0, BatchTypes
  <1>2. /\ log' = [log EXCEPT ![i] = L] /\ db_log' = [db_log EXCEPT ![i] = D]
        /\ Choose(i, t, L, last) /\ commit_index' = [commit_index EXCEPT ![i] = last]
        /\ UNCHANGED <<role, last_included_index, last_included_term, pending_read_indices,
                       vote_requests, vote_replies, append_requests, append_replies,
                       snap_requests, snap_replies, served_reads>>
    BY <1>0, SoleServer DEF ClientRequest, ApplyLogs, voteMsgs, appendMsgs, snapMsgs
  <1> HIDE DEF es
  <1>3. L \in Seq(Entry) /\ Len(L) = Len(log[i]) + Len(es)
    BY <1>0, <1>1, ConcatProperties
  <1>4. last \in Nat /\ last = lii + Len(L)
    BY <1>0, <1>1, <1>3
  <1>5. chosen' = chosen \o [k \in 1 .. ((lii + Len(L)) - Len(chosen)) |->
                               [entry |-> L[Len(chosen) + k - lii], at |-> t]]
    BY <1>2, <1>4 DEF Choose
  <1>6. Whole(L, D, lii, last_included_term[i], chosen')
    BY <1>0, <1>1, <1>5, WholeGrows
  <1> HIDE DEF L, D, last
  <1>7. Whole(log[i], db_log[i], last_included_index[i], last_included_term[i], chosen)'
    <2>1. log'[i] = L /\ db_log'[i] = D
      BY <1>2 DEF TypesInv, DiskTypes
    <2> QED BY <1>2, <1>6, <2>1
  <1>8. last = Len(chosen') /\ commit_index'[i] = last
    BY <1>2, <1>4, <1>6 DEF Whole, TypesInv, ApplyTypes
  <1>9. NoMessages' /\ LinearizableReads' /\ pending_read_indices'[i] = {}
    BY <1>2 DEF SoleInv, NoMessages, LinearizableReads
  <1> QED BY <1>4, <1>7, <1>8, <1>9, SoleAssembled

\* The only member is a majority: a read is answered at once, at the end of the log.
LEMMA SoleReadStep ==
    ASSUME TypesInv, TypesInv', SoleInv, SoleGroup, NEW i \in Server, GetReadIndex(i)
    PROVE  SoleInv'
  <1> DEFINE r == [read_index |-> commit_index[i], term |-> current_term[i], acks |-> {i},
                   required |-> NewestAcked, id |-> reads + 1]
             R == pending_read_indices[i] \cup {r}
             ready == Confirmed(R, last_applied[i])
  <1>1. /\ ServeReads(i, R) /\ role[i] = Leader
        /\ UNCHANGED <<db_log, last_included_index, last_included_term, log, role,
                       commit_index, vote_requests, vote_replies, chosen>>
    BY DEF GetReadIndex, diskVars, applyVars, voteMsgs
  <1>2. UNCHANGED <<append_requests, append_replies, snap_requests, snap_replies>>
    BY SoleServer DEF GetReadIndex, SendHeartbeats
  <1>3. R = {r}
    BY DEF SoleInv
  <1>4. ready = {r}
    <2>1. HasMajority({i})
      <3>1. Server = {i}
        BY SoleServer
      <3>2. Cardinality({i}) = 1
        BY FS_Singleton
      <3> QED BY <3>1, <3>2 DEF HasMajority
    <2>2. last_applied[i] >= commit_index[i]
      BY SoleFacts
    <2> QED BY <1>3, <2>1, <2>2 DEF Confirmed
  <1>5. /\ pending_read_indices' = [pending_read_indices EXCEPT ![i] = R \ ready]
        /\ served_reads' = served_reads \cup
             {[required |-> x.required, served |-> last_applied[i]] : x \in ready}
    BY <1>1 DEF ServeReads
  <1>6. pending_read_indices'[i] = {}
    BY <1>3, <1>4, <1>5 DEF TypesInv, ClientTypes
  <1>7. LinearizableReads'
    <2>1. last_applied[i] = Len(chosen)
      BY <1>1, SoleFacts DEF SoleInv
    <2>2. last_applied[i] >= NewestAcked
      BY <2>1, NewestAckedType, SoleFacts DEF TypesInv
    <2>3. served_reads' = served_reads \cup {[required |-> NewestAcked, served |-> last_applied[i]]}
      <3>1. r.required = NewestAcked
        OBVIOUS
      <3> HIDE DEF r, ready
      <3>2. {[required |-> x.required, served |-> last_applied[i]] : x \in ready}
              = {[required |-> r.required, served |-> last_applied[i]]}
        BY <1>4
      <3> QED BY <1>5, <3>1, <3>2
    <2> QED BY <2>2, <2>3 DEF SoleInv, LinearizableReads
  <1>8. Whole(log[i], db_log[i], last_included_index[i], last_included_term[i], chosen)'
    BY <1>1, SoleFacts
  <1>9. commit_index'[i] <= Len(chosen') /\ (role'[i] = Leader => commit_index'[i] = Len(chosen'))
    BY <1>1, SoleFacts DEF SoleInv
  <1>10. NoMessages'
    BY <1>1, <1>2 DEF SoleInv, NoMessages
  <1> QED BY <1>6, <1>7, <1>8, <1>9, <1>10, SoleAssembled

\* A restart from a database that holds every committed entry.
LEMMA SoleReboots ==
    ASSUME TypesInv, TypesInv', SoleInv, SoleGroup, NEW i \in Server, NEW t, NEW v,
           NEW lii \in Nat, NEW lit, NEW data, NEW L \in Seq(Entry),
           Whole(L, db_log[i], lii, lit, chosen), Reboot(i, t, v, db_log[i], lii, lit, data)
    PROVE  SoleInv'
  <1>1. LoadedLog(db_log[i], lii) = L
    BY SoleFacts, LoadedAgain
  <1>2. /\ db_log' = [db_log EXCEPT ![i] = db_log[i]]
        /\ last_included_index' = [last_included_index EXCEPT ![i] = lii]
        /\ last_included_term' = [last_included_term EXCEPT ![i] = lit]
        /\ log' = [log EXCEPT ![i] = L] /\ role' = [role EXCEPT ![i] = Follower]
        /\ commit_index' = [commit_index EXCEPT ![i] = lii]
        /\ pending_read_indices' = [pending_read_indices EXCEPT ![i] = {}]
        /\ vote_replies' \subseteq vote_replies /\ append_replies' \subseteq append_replies
        /\ snap_replies' \subseteq snap_replies
        /\ UNCHANGED <<vote_requests, append_requests, snap_requests, chosen, served_reads>>
    BY <1>1 DEF Reboot, ghostVars
  <1>3. /\ db_log'[i] = db_log[i] /\ last_included_index'[i] = lii /\ last_included_term'[i] = lit
        /\ log'[i] = L /\ role'[i] = Follower /\ commit_index'[i] = lii
        /\ pending_read_indices'[i] = {}
    BY <1>2 DEF TypesInv, DiskTypes, ApplyTypes, ClientTypes, ElectionTypeOK
  <1>4. Whole(log[i], db_log[i], last_included_index[i], last_included_term[i], chosen)'
    BY <1>2, <1>3
  <1>5. commit_index'[i] <= Len(chosen') /\ role'[i] # Leader
    <2>1. lii + Len(L) = Len(chosen) /\ Len(L) \in Nat
      BY DEF Whole
    <2> QED BY <1>2, <1>3, <2>1 DEF Follower, Leader
  <1>6. NoMessages' /\ LinearizableReads'
    BY <1>2 DEF SoleInv, NoMessages, LinearizableReads
  <1> QED BY <1>3, <1>4, <1>5, <1>6, SoleAssembled

\* A crash, in any window, and the restart.
LEMMA SoleCrashStep ==
    ASSUME TypesInv, TypesInv', SoleInv, SoleGroup, NEW i \in Server,
           Restart(i) \/ CrashInStartElection(i) \/ CrashInCreateSnapshot(i)
    PROVE  SoleInv'
  <1>1. CASE Restart(i)
    BY <1>1, SoleFacts, SoleReboots DEF Restart
  <1>2. CASE CrashInStartElection(i)
    BY <1>2, SoleFacts, SoleReboots DEF CrashInStartElection
  <1>3. CASE CrashInCreateSnapshot(i)
    <2> DEFINE lii == last_included_index[i]
               a == last_applied[i]
               L2 == SubSeq(log[i], a - lii + 1, Len(log[i]))
    <2>1. /\ Reboot(i, current_term[i], voted_for[i], db_log[i], a, TermAt(i, a), snapshot_data[i])
          /\ a > lii
      BY <1>3 DEF CrashInCreateSnapshot, NeedsSnapshot
    <2>2. /\ a \in Nat /\ lii \in Nat /\ a <= lii + Len(log[i]) /\ log[i] \in Seq(Entry)
          /\ Len(log[i]) \in Nat
          /\ Whole(log[i], db_log[i], lii, last_included_term[i], chosen)
      BY SoleFacts
    <2>3. TermAt(i, a) = log[i][a - lii].term
      BY <2>1, <2>2 DEF TermAt
    <2>4. Whole(L2, db_log[i], a, TermAt(i, a), chosen)
      BY <2>1, <2>2, <2>3, WholeAfter
    <2>5. L2 \in Seq(Entry)
      <3>1. a - lii + 1 \in Nat \ {0}
        BY <2>1, <2>2
      <3>2. \A k \in (a - lii + 1) .. Len(log[i]) : log[i][k] \in Entry
        BY <2>2, <3>1, ElementOfSeq
      <3> QED BY <2>2, <3>1, <3>2, SubSeqProperties
    <2> HIDE DEF L2
    <2> QED BY <2>1, <2>2, <2>4, <2>5, SoleReboots
  <1> QED BY <1>1, <1>2, <1>3

LEMMA SoleInvInit == Init => SoleInv
  <1> SUFFICES ASSUME Init PROVE SoleInv
    OBVIOUS
  <1>1. ASSUME NEW i \in Server
        PROVE  /\ log[i] = <<>> /\ db_log[i] = <<>> /\ last_included_index[i] = 0
               /\ commit_index[i] = 0 /\ role[i] = Follower /\ chosen = <<>>
               /\ pending_read_indices[i] = {}
    BY DEF Init
  <1>2. ASSUME NEW i \in Server
        PROVE  Whole(log[i], db_log[i], last_included_index[i], last_included_term[i], chosen)
    <2>1. Len(log[i]) = 0 /\ Len(chosen) = 0 /\ DOMAIN db_log[i] = {}
      BY <1>1
    <2>2. \A k \in Nat : k > 0 => ~(k <= 0 + 0)
      OBVIOUS
    <2> QED BY <1>1, <2>1, <2>2 DEF Whole
  <1>3. NoMessages /\ LinearizableReads
    BY DEF Init, NoMessages, LinearizableReads
  <1>4. \A i \in Server : LastIndex(i) = 0
    BY <1>1 DEF LastIndex
  <1> QED BY <1>1, <1>2, <1>3, <1>4 DEF SoleInv, Follower, Leader

LEMMA SoleInvStep ==
    ASSUME SoleGroup, TypesInv, TypesInv', SoleInv, [Next]_vars
    PROVE  SoleInv'
  <1>1. CASE UNCHANGED vars
    <2>1. UNCHANGED <<vote_requests, vote_replies, append_requests, append_replies, snap_requests,
                      snap_replies, log, db_log, last_included_index, last_included_term, chosen,
                      commit_index, role, pending_read_indices, served_reads>>
      BY <1>1 DEF vars, diskVars, applyVars, clientVars, voteMsgs, appendMsgs, snapMsgs, ghostVars
    <2>2. PICK i \in Server : TRUE
      BY ServerAssumption
    <2>3. NoMessages' /\ LinearizableReads' /\ pending_read_indices'[i] = {}
      BY <2>1 DEF SoleInv, NoMessages, LinearizableReads
    <2>4. Whole(log[i], db_log[i], last_included_index[i], last_included_term[i], chosen)'
      BY <2>1, SoleFacts
    <2>5. commit_index'[i] <= Len(chosen') /\ (role'[i] = Leader => commit_index'[i] = Len(chosen'))
      BY <2>1, SoleFacts DEF SoleInv
    <2> QED BY <2>3, <2>4, <2>5, SoleAssembled
  <1>2. CASE Next
    <2>1. /\ vote_requests = {} /\ vote_replies = {} /\ append_requests = {} /\ append_replies = {}
          /\ snap_requests = {} /\ snap_replies = {}
      BY DEF SoleInv, NoMessages
    <2>2. ~LoseExchange
      BY <2>1 DEF LoseExchange
    <2>3. \A i \in Server : ~ElectionTimeout(i)
      BY SoleServer DEF ElectionTimeout
    <2>4. PICK i \in Server :
            \/ SoleMemberElection(i) \/ QuietTick(i) \/ LeaderTick(i)
            \/ (\E b \in Batches : ClientRequest(i, b)) \/ GetReadIndex(i)
            \/ Restart(i) \/ CrashInStartElection(i) \/ CrashInCreateSnapshot(i)
      BY <1>2, <2>1, <2>2, <2>3 DEF Next
    <2> QED BY <2>4, SoleElectionStep, SoleTickStep, SoleClientStep, SoleReadStep, SoleCrashStep
  <1> QED BY <1>1, <1>2

LEMMA SoleInvLabels == TypesInv /\ SoleInv => SnapshotLabels
  <1> SUFFICES ASSUME TypesInv, SoleInv, NEW i \in Server, last_included_index[i] > 0
               PROVE  /\ last_included_index[i] <= Len(chosen)
                      /\ last_included_term[i] = chosen[last_included_index[i]].entry.term
    BY DEF SnapshotLabels
  <1>1. last_included_index[i] <= Len(chosen)
    BY SoleFacts
  <1>2. last_included_term[i] = chosen[last_included_index[i]].entry.term
    BY SoleFacts DEF Whole
  <1> QED BY <1>1, <1>2

LEMMA SoleInvRecovers == TypesInv /\ SoleInv => RestartRecoversLog
  BY SoleFacts, LoadedAgain DEF RestartRecoversLog

-----------------------------------------------------------------------------
(* The state machine of the only member.                                   *)

\* The commands of the first n committed entries.
CommandsOf(C, n) == [k \in 1 .. n |-> C[k].entry.command]

\* The state machine and the snapshot are what was committed, up to their index.
SoleStates ==
    \A i \in Server : /\ app_state[i] = CommandsOf(chosen, commit_index[i])
                      /\ snapshot_data[i] = CommandsOf(chosen, last_included_index[i])

\* L holds the entries of C above lii.
HoldsAbove(L, lii, C) ==
    /\ lii + Len(L) = Len(C) /\ \A k \in 1 .. Len(L) : L[k] = C[lii + k].entry
    /\ \A k \in 1 .. Len(C) : C[k].entry.command \in LogCommand

\* Applying L from a to c takes the commands of C up to a to those up to c.
AppliesUpTo(L, lii, C, a, c) ==
    CommandsOf(C, a) \o Commands(SubSeq(L, a - lii + 1, c - lii)) = CommandsOf(C, c)

\* Applying a log that holds the committed entries, from a to c.
LEMMA AppliedCommands ==
    ASSUME NEW L \in Seq(Entry), NEW lii \in Nat, NEW C, NEW a \in Nat, NEW c \in Nat,
           HoldsAbove(L, lii, C), lii <= a, a <= c, c <= Len(C)
    PROVE  AppliesUpTo(L, lii, C, a, c)
  <1>0. /\ lii + Len(L) = Len(C) /\ \A k \in 1 .. Len(L) : L[k] = C[lii + k].entry
        /\ \A k \in 1 .. Len(C) : C[k].entry.command \in LogCommand
    BY DEF HoldsAbove
  <1> DEFINE es == SubSeq(L, a - lii + 1, c - lii)
             old == CommandsOf(C, a)
             new == Commands(es)
             n == c - a
  <1>1. /\ Len(L) \in Nat /\ a - lii + 1 \in Nat \ {0} /\ c - lii \in Nat /\ c - lii <= Len(L)
        /\ n \in Nat /\ a + n = c /\ Len(C) \in Nat
    BY <1>0
  <1>2. es \in Seq(Entry) /\ Len(es) = n /\ \A k \in 1 .. n : es[k] = L[(a - lii) + k]
    <2> DEFINE lo == a - lii + 1
               hi == c - lii
    <2>1. \A k \in lo .. hi : L[k] \in Entry
      BY <1>1, ElementOfSeq
    <2>a. lo \in Int /\ hi \in Int
      BY <1>1
    <2>b. es = SubSeq(L, lo, hi)
      OBVIOUS
    <2> HIDE DEF lo, hi, es
    <2>c. /\ es \in Seq(Entry)
          /\ Len(es) = IF lo <= hi THEN hi - lo + 1 ELSE 0
          /\ \A k \in 1 .. hi - lo + 1 : es[k] = L[lo + k - 1]
      BY <2>1, <2>a, <2>b, SubSeqProperties
    <2>2. /\ es \in Seq(Entry)
          /\ Len(es) = IF a - lii + 1 <= c - lii THEN (c - lii) - (a - lii + 1) + 1 ELSE 0
          /\ \A k \in 1 .. (c - lii) - (a - lii + 1) + 1 : es[k] = L[(a - lii + 1) + k - 1]
      BY <2>c DEF lo, hi
    <2>3. /\ (c - lii) - (a - lii + 1) + 1 = n
          /\ ~(a - lii + 1 <= c - lii) => n = 0
      BY <1>1
    <2>4. \A k \in 1 .. n : (a - lii + 1) + k - 1 = (a - lii) + k
      BY <1>1
    <2> HIDE DEF n
    <2> QED BY <2>2, <2>3, <2>4
  <1> HIDE DEF es
  <1>3. new = [k \in 1 .. n |-> es[k].command]
    BY <1>2 DEF Commands
  <1>4. \A k \in 1 .. n : es[k].command = C[a + k].entry.command /\ a + k \in 1 .. Len(C)
    <2> SUFFICES ASSUME NEW k \in 1 .. n
                 PROVE  es[k].command = C[a + k].entry.command /\ a + k \in 1 .. Len(C)
      OBVIOUS
    <2>1. /\ (a - lii) + k \in 1 .. Len(L) /\ lii + ((a - lii) + k) = a + k
          /\ a + k \in 1 .. Len(C)
      BY <1>1
    <2>2. L[(a - lii) + k] = C[a + k].entry
      BY <1>0, <2>1
    <2> QED BY <1>2, <2>1, <2>2
  <1>5. new \in Seq(LogCommand) /\ Len(new) = n
    <2>1. \A k \in 1 .. n : es[k].command \in LogCommand
      BY <1>0, <1>4
    <2>2. [k \in 1 .. n |-> es[k].command] \in [1 .. n -> LogCommand]
      BY <2>1
    <2> HIDE DEF new, n
    <2> QED BY <1>1, <1>3, <2>2, FunctionIsSeq
  <1>6. old \in Seq(LogCommand) /\ Len(old) = a
    <2>1. old = [k \in 1 .. a |-> C[k].entry.command]
      BY DEF CommandsOf
    <2>2. [k \in 1 .. a |-> C[k].entry.command] \in [1 .. a -> LogCommand]
      BY <1>0, <1>1
    <2> HIDE DEF old
    <2> QED BY <2>1, <2>2, FunctionIsSeq
  <1>7. CommandsOf(C, c) \in Seq(LogCommand) /\ Len(CommandsOf(C, c)) = c
    <2>1. [k \in 1 .. c |-> C[k].entry.command] \in [1 .. c -> LogCommand]
      BY <1>0, <1>1
    <2> QED BY <2>1, FunctionIsSeq DEF CommandsOf
  <1> DEFINE both == old \o new
  <1>8. /\ both \in Seq(LogCommand) /\ Len(both) = a + n
        /\ \A k \in 1 .. a + n : both[k] = IF k <= a THEN old[k] ELSE new[k - a]
    <2> HIDE DEF old, new, n
    <2>1. /\ both \in Seq(LogCommand) /\ Len(both) = Len(old) + Len(new)
          /\ \A k \in 1 .. Len(old) + Len(new) :
               both[k] = IF k <= Len(old) THEN old[k] ELSE new[k - Len(old)]
      BY <1>5, <1>6, ConcatProperties
    <2> QED BY <1>5, <1>6, <2>1
  <1>9. ASSUME NEW k \in 1 .. c PROVE both[k] = CommandsOf(C, c)[k]
    <2>1. CommandsOf(C, c)[k] = C[k].entry.command
      BY DEF CommandsOf
    <2>2. CASE k <= a
      <3>1. k \in 1 .. a + n /\ k \in 1 .. a
        BY <1>1, <2>2
      <3>2. old[k] = C[k].entry.command
        BY <3>1 DEF CommandsOf
      <3> HIDE DEF both, old, new
      <3> QED BY <1>8, <2>1, <2>2, <3>1, <3>2
    <2>3. CASE ~(k <= a)
      <3>1. k \in 1 .. a + n /\ k - a \in 1 .. n /\ a + (k - a) = k
        BY <1>1, <2>3
      <3>2. new[k - a] = C[k].entry.command
        <4> HIDE DEF new
        <4>1. new[k - a] = es[k - a].command
          BY <1>3, <3>1
        <4>2. es[k - a].command = C[a + (k - a)].entry.command
          BY <1>4, <3>1
        <4> QED BY <3>1, <4>1, <4>2
      <3> HIDE DEF both, old, new
      <3> QED BY <1>8, <2>1, <2>3, <3>1, <3>2
    <2> QED BY <2>2, <2>3
  <1> HIDE DEF both, old, new
  <1>10. both = CommandsOf(C, c)
    <2>1. Len(both) = Len(CommandsOf(C, c)) /\ Len(both) = c
      BY <1>1, <1>7, <1>8
    <2> QED BY <1>7, <1>8, <1>9, <2>1, SeqEqual
  <1> QED BY <1>10 DEF both, old, new, es, AppliesUpTo

\* The member appends es, commits and applies it.
LEMMA SoleCommits ==
    ASSUME TypesInv, SoleInv, SoleStates, NEW i \in Server, NEW es \in Seq(Entry), NEW t \in Nat,
           NEW c \in Nat, c = last_included_index[i] + Len(log[i] \o es),
           ApplyLogs(i, log[i] \o es, c), Choose(i, t, log[i] \o es, c)
    PROVE  /\ app_state'[i] = CommandsOf(chosen', c) /\ commit_index'[i] = c
           /\ snapshot_data[i] = CommandsOf(chosen', last_included_index[i])
  <1> DEFINE lii == last_included_index[i]
             L == log[i] \o es
             D == SaveEntries(db_log[i], lii + Len(log[i]) + 1, es)
             a == commit_index[i]
             CE == [entry : Entry, at : Nat]
             new == [k \in 1 .. (c - Len(chosen)) |->
                       [entry |-> L[Len(chosen) + k - lii], at |-> t]]
  <1>1. /\ Whole(log[i], db_log[i], lii, last_included_term[i], chosen)
        /\ log[i] \in Seq(Entry) /\ Len(log[i]) \in Nat /\ lii \in Nat
        /\ lii + Len(log[i]) = Len(chosen) /\ Len(chosen) \in Nat
        /\ chosen \in Seq(CE) /\ a \in Nat /\ last_applied[i] = a /\ lii <= a /\ a <= Len(chosen)
    BY SoleFacts
  <1>2. L \in Seq(Entry) /\ Len(L) = Len(log[i]) + Len(es) /\ Len(es) \in Nat
    BY <1>1, ConcatProperties
  <1>3. chosen' = chosen \o new
    BY DEF Choose
  <1>4. Whole(L, D, lii, last_included_term[i], chosen')
    BY <1>1, <1>3, WholeGrows
  <1>5. /\ chosen' \in Seq(CE) /\ Len(chosen') = c
        /\ \A k \in 1 .. Len(chosen) : chosen'[k] = chosen[k]
    <2> DEFINE n == c - Len(chosen)
    <2>1. n \in Nat /\ n = Len(es)
      BY <1>1, <1>2
    <2>2. \A k \in 1 .. n : Len(chosen) + k - lii \in 1 .. Len(L)
      <3> SUFFICES ASSUME NEW k \in 1 .. n PROVE Len(chosen) + k - lii \in 1 .. Len(L)
        OBVIOUS
      <3> HIDE DEF n
      <3>1. Len(chosen) + k - lii = Len(log[i]) + k
        BY <1>1, <2>1
      <3> QED BY <1>1, <1>2, <2>1, <3>1
    <2>3. \A k \in 1 .. n : L[Len(chosen) + k - lii] \in Entry
      BY <1>2, <2>2, ElementOfSeq
    <2>4. new \in [1 .. n -> CE]
      BY <2>3
    <2> HIDE DEF n, new, CE
    <2>5. new \in Seq(CE) /\ Len(new) = n
      BY <2>1, <2>4, FunctionIsSeq
    <2>6. /\ chosen \o new \in Seq(CE) /\ Len(chosen \o new) = Len(chosen) + n
          /\ \A k \in 1 .. Len(chosen) + n :
               (chosen \o new)[k] = IF k <= Len(chosen) THEN chosen[k] ELSE new[k - Len(chosen)]
      BY <1>1, <2>5, ConcatProperties
    <2>7. Len(chosen) + n = c
      BY <1>1 DEF n
    <2>8. ASSUME NEW k \in 1 .. Len(chosen) PROVE chosen'[k] = chosen[k]
      <3>1. Len(chosen) \in Nat
        BY <1>1
      <3>2. k \in 1 .. Len(chosen) + n /\ k <= Len(chosen)
        BY <2>1, <3>1
      <3> QED BY <1>3, <2>6, <3>2
    <2> QED BY <1>3, <2>6, <2>7, <2>8
  <1> HIDE DEF new
  <1>6. ASSUME NEW n \in Nat, n <= Len(chosen) PROVE CommandsOf(chosen', n) = CommandsOf(chosen, n)
    <2>1. \A k \in 1 .. n : chosen'[k] = chosen[k]
      BY <1>1, <1>5, <1>6
    <2> QED BY <2>1 DEF CommandsOf
  <1>7. /\ app_state[i] = CommandsOf(chosen', a) /\ snapshot_data[i] = CommandsOf(chosen', lii)
    BY <1>1, <1>6 DEF SoleStates
  <1>8. /\ app_state'[i] = app_state[i] \o Commands(SubSeq(L, a - lii + 1, c - lii))
        /\ commit_index'[i] = c
    BY <1>1 DEF ApplyLogs, TypesInv, ApplyTypes
  <1>9. \A k \in 1 .. Len(chosen') : chosen'[k].entry.command \in LogCommand
    <2>1. \A k \in 1 .. Len(chosen') : chosen'[k] \in CE
      BY <1>5, ElementOfSeq
    <2> QED BY <2>1 DEF Entry, LogCommand
  <1>10. a <= c /\ c <= Len(chosen')
    BY <1>1, <1>2, <1>5
  <1> HIDE DEF L, D, CE, a
  <1>11. /\ lii + Len(L) = Len(chosen')
         /\ \A k \in 1 .. Len(L) : L[k] = chosen'[lii + k].entry
    BY <1>4 DEF Whole
  <1>12. CommandsOf(chosen', a) \o Commands(SubSeq(L, a - lii + 1, c - lii)) = CommandsOf(chosen', c)
    <2> HIDE DEF lii
    <2>1. L \in Seq(Entry) /\ lii \in Nat /\ a \in Nat /\ lii <= a
      BY <1>1, <1>2
    <2>2. HoldsAbove(L, lii, chosen')
      BY <1>9, <1>11 DEF HoldsAbove
    <2>3. PICK C : C = chosen'
      OBVIOUS
    <2>4. HoldsAbove(L, lii, C) /\ a <= c /\ c <= Len(C)
      BY <1>10, <2>2, <2>3
    <2>5. AppliesUpTo(L, lii, C, a, c)
      BY <2>1, <2>4, AppliedCommands
    <2> QED BY <2>3, <2>5 DEF AppliesUpTo
  <1> QED BY <1>7, <1>8, <1>12

\* What create_snapshot leaves under the snapshot's index.
LEMMA SoleSnapshots ==
    ASSUME TypesInv, NEW i \in Server, NEW L, NEW D, NEW a, NEW C,
           Compact(i, L, D, a, CommandsOf(C, a)), snapshot_data[i] = CommandsOf(C, last_included_index[i])
    PROVE  snapshot_data'[i] = CommandsOf(C, last_included_index'[i])
  <1>1. CASE NeedsSnapshot(i, L, a)
    <2>1. /\ snapshot_data' = [snapshot_data EXCEPT ![i] = CommandsOf(C, a)]
          /\ last_included_index' = [last_included_index EXCEPT ![i] = a]
      BY <1>1 DEF Compact
    <2> QED BY <2>1 DEF TypesInv, DiskTypes
  <1>2. CASE ~NeedsSnapshot(i, L, a)
    BY <1>2 DEF Compact
  <1> QED BY <1>1, <1>2

LEMMA SoleStatesStep ==
    ASSUME SoleGroup, TypesInv, SoleInv, SoleStates, "create" \notin CrashWindows, [Next]_vars
    PROVE  SoleStates'
  <1>0. ASSUME NEW i \in Server, app_state'[i] = CommandsOf(chosen', commit_index'[i]),
               snapshot_data'[i] = CommandsOf(chosen', last_included_index'[i])
        PROVE  SoleStates'
    <2>1. Server = {i}
      BY SoleServer
    <2> QED BY <1>0, <2>1 DEF SoleStates
  <1>1. ASSUME NEW i \in Server, SoleMemberElection(i) PROVE SoleStates'
    <2> DEFINE t == current_term[i] + 1
               e == [term |-> t, command |-> NoOp]
               c == LastIndex(i) + 1
               L == log[i] \o <<e>>
               D == SaveEntries(db_log[i], c, <<L[Len(L)]>>)
    <2>1. current_term[i] \in Nat /\ log[i] \in Seq(Entry) /\ last_included_index[i] \in Nat
      BY SoleFacts
    <2>2. t \in Nat /\ <<e>> \in Seq(Entry) /\ e \in Entry
      BY <2>1 DEF Entry
    <2>3. LogWithNoOp(i, t) = L
      <3> HIDE DEF e
      <3>1. Append(log[i], e) = L
        BY <2>1, <2>2, AppendIsConcat
      <3> QED BY <3>1 DEF LogWithNoOp, e
    <2>4. /\ ApplyLogs(i, L, c) /\ Choose(i, t, L, c)
          /\ Compact(i, L, D, c, app_state'[i])
      BY <1>1, <2>3 DEF SoleMemberElection, SoleCommit
    <2>5. c \in Nat /\ c = last_included_index[i] + Len(L)
      <3> HIDE DEF e
      <3>1. Len(L) = Len(log[i]) + 1 /\ Len(log[i]) \in Nat
        BY <2>1, <2>2
      <3> QED BY <2>1, <3>1 DEF LastIndex
    <2> HIDE DEF c, e, t
    <2>6. /\ app_state'[i] = CommandsOf(chosen', c) /\ commit_index'[i] = c
          /\ snapshot_data[i] = CommandsOf(chosen', last_included_index[i])
      BY <2>2, <2>4, <2>5, SoleCommits
    <2> HIDE DEF L, D
    <2>7. snapshot_data'[i] = CommandsOf(chosen', last_included_index'[i])
      BY <2>4, <2>6, SoleSnapshots
    <2> QED BY <1>0, <2>6, <2>7
  <1>2. ASSUME NEW i \in Server, QuietTick(i) \/ LeaderTick(i) PROVE SoleStates'
    <2>1. /\ Compact(i, log[i], db_log[i], last_applied[i], app_state[i])
          /\ UNCHANGED <<commit_index, app_state, chosen>>
      BY <1>2 DEF QuietTick, LeaderTick, applyVars, ghostVars
    <2>2. last_applied[i] = commit_index[i]
      BY SoleFacts
    <2>3. /\ app_state[i] = CommandsOf(chosen, last_applied[i])
          /\ snapshot_data[i] = CommandsOf(chosen, last_included_index[i])
      BY <2>2 DEF SoleStates
    <2>4. Compact(i, log[i], db_log[i], last_applied[i], CommandsOf(chosen, last_applied[i]))
      BY <2>1, <2>3
    <2>5. snapshot_data'[i] = CommandsOf(chosen, last_included_index'[i])
      BY <2>3, <2>4, SoleSnapshots
    <2> QED BY <1>0, <2>1, <2>2, <2>3, <2>5
  <1>3. ASSUME NEW i \in Server, NEW b \in Batches, ClientRequest(i, b) PROVE SoleStates'
    <2> DEFINE es == [k \in 1 .. Len(b) |-> [term |-> current_term[i], command |-> b[k]]]
               L == log[i] \o es
               c == LastIndex(i) + Len(b)
    <2>1. /\ current_term[i] \in Nat /\ log[i] \in Seq(Entry) /\ last_included_index[i] \in Nat
          /\ Len(log[i]) \in Nat /\ LastIndex(i) = last_included_index[i] + Len(log[i])
      BY SoleFacts
    <2>2. Len(b) \in Nat /\ es \in Seq(Entry) /\ Len(es) = Len(b)
      BY <2>1, BatchTypes
    <2>3. /\ ApplyLogs(i, L, c) /\ Choose(i, current_term[i], L, c)
          /\ UNCHANGED <<snapshot_data, last_included_index>>
      BY <1>3, SoleServer DEF ClientRequest
    <2> HIDE DEF es
    <2>4. Len(L) = Len(log[i]) + Len(es)
      BY <2>1, <2>2, ConcatProperties
    <2>5. c \in Nat /\ c = last_included_index[i] + Len(L)
      BY <2>1, <2>2, <2>4
    <2> HIDE DEF c
    <2>6. /\ app_state'[i] = CommandsOf(chosen', c) /\ commit_index'[i] = c
          /\ snapshot_data[i] = CommandsOf(chosen', last_included_index[i])
      BY <2>1, <2>2, <2>3, <2>5, SoleCommits
    <2> QED BY <1>0, <2>3, <2>6
  <1>4. ASSUME NEW i \in Server, GetReadIndex(i) \/ UNCHANGED vars PROVE SoleStates'
    <2>1. UNCHANGED <<app_state, commit_index, chosen, snapshot_data, last_included_index>>
      BY <1>4 DEF GetReadIndex, vars, diskVars, applyVars, ghostVars
    <2> QED BY <1>0, <2>1 DEF SoleStates
  <1>5. ASSUME NEW i \in Server, Restart(i) \/ CrashInStartElection(i) PROVE SoleStates'
    <2>1. /\ app_state' = [app_state EXCEPT ![i] = snapshot_data[i]]
          /\ snapshot_data' = [snapshot_data EXCEPT ![i] = snapshot_data[i]]
          /\ commit_index' = [commit_index EXCEPT ![i] = last_included_index[i]]
          /\ last_included_index' = [last_included_index EXCEPT ![i] = last_included_index[i]]
          /\ UNCHANGED chosen
      BY <1>5 DEF Restart, CrashInStartElection, Reboot, ghostVars
    <2>2. /\ app_state'[i] = snapshot_data[i] /\ snapshot_data'[i] = snapshot_data[i]
          /\ commit_index'[i] = last_included_index[i]
          /\ last_included_index'[i] = last_included_index[i]
      BY <2>1 DEF TypesInv, DiskTypes, ApplyTypes
    <2> QED BY <1>0, <2>1, <2>2 DEF SoleStates
  <1>6. \A i \in Server : ~CrashInCreateSnapshot(i)
    BY DEF CrashInCreateSnapshot
  <1>7. CASE UNCHANGED vars
    <2>1. PICK i \in Server : TRUE
      BY ServerAssumption
    <2> QED BY <1>4, <1>7, <2>1
  <1>8. CASE Next
    <2>1. /\ vote_requests = {} /\ vote_replies = {} /\ append_requests = {} /\ append_replies = {}
          /\ snap_requests = {} /\ snap_replies = {}
      BY DEF SoleInv, NoMessages
    <2>2. ~LoseExchange
      BY <2>1 DEF LoseExchange
    <2>3. \A i \in Server : ~ElectionTimeout(i)
      BY SoleServer DEF ElectionTimeout
    <2> QED BY <1>1, <1>2, <1>3, <1>4, <1>5, <1>6, <1>8, <2>1, <2>2, <2>3 DEF Next
  <1> QED BY <1>7, <1>8

LEMMA SoleStatesInit == Init => SoleStates
  <1> SUFFICES ASSUME Init, NEW i \in Server
               PROVE  /\ app_state[i] = CommandsOf(chosen, commit_index[i])
                      /\ snapshot_data[i] = CommandsOf(chosen, last_included_index[i])
    BY DEF SoleStates
  <1>1. /\ app_state[i] = <<>> /\ snapshot_data[i] = <<>> /\ commit_index[i] = 0
        /\ last_included_index[i] = 0
    BY DEF Init
  <1>2. CommandsOf(chosen, 0) = <<>>
    BY DEF CommandsOf
  <1> QED BY <1>1, <1>2

LEMMA SoleStatesSafe == TypesInv /\ SoleInv /\ SoleStates => StateMachineSafety
  <1> SUFFICES ASSUME TypesInv, SoleInv, SoleStates, NEW i \in Server
               PROVE  /\ last_applied[i] <= Len(chosen)
                      /\ ClientView(app_state[i]) = ClientView(ChosenCommands(last_applied[i]))
    BY DEF StateMachineSafety
  <1>1. last_applied[i] = commit_index[i] /\ last_applied[i] <= Len(chosen)
    BY SoleFacts
  <1>2. app_state[i] = ChosenCommands(last_applied[i])
    BY <1>1 DEF SoleStates, CommandsOf, ChosenCommands
  <1> QED BY <1>1, <1>2

\* The inductive invariant of a group of one, through compaction and every crash window.
THEOREM SoleInvariant ==
    ASSUME SoleGroup
    PROVE  Spec => [](TypesInv /\ SoleInv)
  <1>1. Init => TypesInv /\ SoleInv
    BY TypesInvInit, SoleInvInit
  <1>2. TypesInv /\ SoleInv /\ [Next]_vars => (TypesInv /\ SoleInv)'
    BY SoleWithin, TypesInvStep, SoleInvStep
  <1> QED BY <1>1, <1>2, PTL DEF Spec

\* TypeCorrect needs no proviso here.
THEOREM SoleTypesCorrect ==
    ASSUME SoleGroup
    PROVE  Spec => []TypeOK
  BY SoleInvariant, TypesInvTypeOK, PTL

\* A group of one answers a read with no heartbeat round (handle_get_read_index): the
\* read covers every write acknowledged before it, whatever was compacted.
THEOREM SoleReadsLinearizable ==
    ASSUME SoleGroup
    PROVE  Spec => []LinearizableReads
  <1>1. SoleInv => LinearizableReads
    BY DEF SoleInv
  <1> QED BY <1>1, SoleInvariant, PTL

\* A snapshot is labelled with the index and the term of the last entry in it
\* (create_snapshot reads the term before it drains the log), and with the newest
\* snapshot and its keys the database always holds the whole committed log.
THEOREM SoleSnapshotLabels ==
    ASSUME SoleGroup
    PROVE  Spec => []SnapshotLabels
  BY SoleInvariant, SoleInvLabels, PTL

\* A restart finds the log the node worked with (load_state, truncate_log_until).
THEOREM SoleRecovers ==
    ASSUME SoleGroup
    PROVE  Spec => []RestartRecoversLog
  BY SoleInvariant, SoleInvRecovers, PTL

\* The state machine is the committed commands, each applied once and in order, when it
\* is rebuilt from a snapshot too. A crash between the two writes of create_snapshot
\* breaks this: the label is new and the data is old.
THEOREM SoleStatesAgree ==
    ASSUME SoleGroup, "create" \notin CrashWindows
    PROVE  Spec => []StateMachineSafety
  <1>1. SoleStates /\ TypesInv /\ SoleInv /\ [Next]_vars => SoleStates'
    BY SoleStatesStep
  <1> QED BY <1>1, SoleStatesInit, SoleInvariant, SoleStatesSafe, PTL DEF Spec
=============================================================================

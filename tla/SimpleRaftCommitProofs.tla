----------------------- MODULE SimpleRaftCommitProofs -----------------------
(***************************************************************************)
(* Proofs about what SimpleRaft commits, for every number of servers and    *)
(* every bound, as long as no log has been compacted (NothingCompacted).    *)
(*                                                                         *)
(* Beside the leaders' logs H the argument needs who accepted what: <<v, T, *)
(* c>> is in A once v has had the first c entries of the leader of term T.  *)
(* An entry of term T that not even one member of some majority accepted    *)
(* before it left term T is Lost: it can never be committed.  Every later   *)
(* leader has every other entry of term T (Safe), because a majority voted  *)
(* for it and a voter that accepted the entry saw it in the candidate's     *)
(* log (VotesSafe).                                                        *)
(***************************************************************************)
EXTENDS SimpleRaftLogProofs

\* Entry c of the leader of term T is of that term.
Own(H, T, c) == c \in 1 .. Len(H[T]) /\ H[T][c].term = T

Lost(A, T, c) ==
    \E Q \in SUBSET Server : HasMajority(Q) /\ \A v \in Q : current_term[v] > T /\ <<v, T, c>> \notin A

\* Log L has the first c entries of the leader of term T, unless they are lost.
HasOrLost(L, H, A, T, c) == Agree(L, H[T], c) \/ Lost(A, T, c)

\* What was accepted in a term is there as long as the term lasts, and longer if it
\* is of that term.
AcceptsTrue(H, A) ==
    \A v \in Server : \A T, c \in Nat : <<v, T, c>> \in A =>
      /\ T <= current_term[v] /\ c \in 1 .. Len(H[T])
      /\ T = current_term[v] => Agree(log[v], H[T], c)
      /\ Own(H, T, c) => HasOrLost(log[v], H, A, T, c)

\* Later leaders have what earlier ones may have committed.
Safe(H, A) ==
    \A T, U, c \in Nat : (T < U /\ H[U] # <<>> /\ Own(H, T, c)) => HasOrLost(H[U], H, A, T, c)

\* Candidate x has what its voter v accepted in earlier terms.
VoterSafe(H, A, x, v) ==
    \A T, c \in Nat : (<<v, T, c>> \in A /\ T < current_term[x] /\ Own(H, T, c)) =>
      HasOrLost(log[x], H, A, T, c)

VotesSafe(H, A) ==
    \A x, v \in Server : (role[x] = Candidate /\ Counted(v, x)) => VoterSafe(H, A, x, v)

\* A request for votes of a candidacy that still runs tells what the log ends with.
RequestsTrue ==
    \A m \in vote_requests : LET x == m.candidate_id IN
      (role[x] = Candidate /\ current_term[x] = m.term) =>
        m.last_log_index = Len(log[x]) /\ m.last_log_term = LastTermOf(log[x])

\* What a leader counts for a peer, the peer accepted.
MatchTrue(A) ==
    /\ \A r \in append_replies : r.success =>
         \A k \in 1 .. r.match_index : <<r.peer_id, r.term, k>> \in A
    /\ \A i \in Server : role[i] = Leader =>
         /\ \A k \in 1 .. Len(log[i]) : <<i, current_term[i], k>> \in A
         /\ \A j \in Server :
              /\ \A k \in 1 .. match_index[i][j] : <<j, current_term[i], k>> \in A
              /\ next_index[i][j] <= Len(log[i]) + 1

AcceptInv(H, A) ==
    AcceptsTrue(H, A) /\ Safe(H, A) /\ VotesSafe(H, A) /\ RequestsTrue /\ MatchTrue(A)

-----------------------------------------------------------------------------
(* What a step does.                                                       *)

\* The step, with what is known of the states before and after it.
RaftStep(H, H2) ==
    /\ H \in Histories /\ H2 \in Histories
    /\ ElectionInv /\ ElectionInv' /\ PlainInv /\ PlainInv' /\ NoVoteAhead /\ NothingCompacted
    /\ \A v \in Server : VoteKept(v)
    /\ PlainStep
    /\ LogInv(H) /\ LogInv(H2)' /\ Follows(H, H2)

\* What v accepts in the step: what it merges, and as a leader its own log.
AcceptsNow(v, T, c) ==
    /\ T = current_term'[v]
    /\ \/ \E m \in append_requests : Merges(m) /\ v = m.dest /\ c \in 1 .. MatchReported(m)
       \/ role'[v] = Leader /\ c \in 1 .. Len(log'[v])

Accepts(A, A2) ==
    \A v \in Server : \A T, c \in Nat :
      <<v, T, c>> \in A2 <=> (<<v, T, c>> \in A \/ AcceptsNow(v, T, c))

LEMMA StepTypes ==
    ASSUME NEW H, NEW H2, RaftStep(H, H2)
    PROVE  /\ \A v \in Server : /\ current_term[v] \in Nat /\ current_term'[v] \in Nat
                                /\ current_term[v] <= current_term'[v]
                                /\ log[v] \in Seq(Entry) /\ log'[v] \in Seq(Entry)
                                /\ Len(log[v]) \in Nat /\ Len(log'[v]) \in Nat
           /\ \A t \in Nat : /\ H[t] \in Seq(Entry) /\ H2[t] \in Seq(Entry)
                             /\ Len(H[t]) \in Nat /\ Len(H2[t]) \in Nat
  <1>1. \A v \in Server : current_term[v] \in Nat /\ current_term'[v] \in Nat
                          /\ current_term[v] <= current_term'[v]
    BY DEF RaftStep, ElectionInv, ElectionTypeOK, VoteKept
  <1>2. \A v \in Server : log[v] \in Seq(Entry) /\ log'[v] \in Seq(Entry)
    BY DEF RaftStep, PlainInv
  <1>3. \A t \in Nat : H[t] \in Seq(Entry) /\ H2[t] \in Seq(Entry)
    BY DEF RaftStep, Histories
  <1> QED BY <1>1, <1>2, <1>3, LenProperties

LEMMA StepAssumptions ==
    ASSUME NEW H, NEW H2, RaftStep(H, H2)
    PROVE  /\ H \in Histories /\ H2 \in Histories /\ ElectionTypeOK /\ ElectionTypeOK'
           /\ ElectionSafety' /\ PlainInv /\ PlainInv' /\ NothingCompacted
           /\ LogInv(H) /\ LogInv(H2)' /\ \A v \in Server : VoteKept(v)
  <1>1. ElectionInv' => ElectionSafety'
    BY ElectionInvSafe, PTL
  <1> QED BY <1>1 DEF RaftStep, ElectionInv

\* How the leaders' logs change.
LEMMA HistoryChange ==
    ASSUME NEW H, NEW H2, RaftStep(H, H2)
    PROVE  /\ Continues(H, H2)
           /\ \A t \in Nat : H2[t] # H[t] =>
                \E i \in Server : /\ \E es \in Seq(Entry) : Grows(i, es)
                                  /\ t = current_term'[i] /\ H2[t] = log'[i] /\ H2 = Grown(H, i)
  <1>1. CASE H2 = H
    <2>1. \A t \in Nat : H[t] \in Seq(Entry) /\ Len(H[t]) \in Nat
      BY StepTypes
    <2>2. \A t \in Nat : Agree(H[t], H[t], Len(H[t]))
      BY <2>1, AgreeFacts
    <2> QED BY <1>1, <2>2 DEF Continues
  <1>2. ASSUME NEW i \in Server, NEW es \in Seq(Entry), Grows(i, es), H2 = Grown(H, i)
        PROVE  /\ Continues(H, H2)
               /\ \A t \in Nat : H2[t] # H[t] => t = current_term'[i] /\ H2[t] = log'[i]
    <2>1. /\ Continues(H, Grown(H, i))
          /\ Grown(H, i)[current_term'[i]] = log'[i]
          /\ \A t \in Nat \ {current_term'[i]} : Grown(H, i)[t] = H[t]
      BY <1>2, StepAssumptions, GrowthFacts
    <2> QED BY <1>2, <2>1
  <1> QED BY <1>1, <1>2 DEF RaftStep, Follows

\* How a log changes: nothing is removed, or a request is merged into it and what the
\* log had in common with the sender stays.
MergedFrom(H, v) ==
    \E m \in append_requests :
      /\ Merges(m) /\ v = m.dest /\ m.term \in Nat
      /\ current_term'[v] = m.term /\ H[m.term] # <<>>
      /\ Agree(log'[v], H[m.term], MatchReported(m))
      /\ \A c \in Nat : Agree(log[v], H[m.term], c) => Agree(log'[v], H[m.term], c)

LEMMA MergeIsMergedFrom ==
    ASSUME NEW H, NEW H2, RaftStep(H, H2), NEW m \in append_requests, Merges(m)
    PROVE  /\ MergedFrom(H, m.dest) /\ m.dest \in Server /\ m.term \in Nat
           /\ MatchReported(m) \in Nat
           /\ current_term'[m.dest] = m.term /\ role'[m.dest] = Follower
           /\ Agree(log'[m.dest], H[m.term], MatchReported(m))
  <1>1. m.dest \in Server /\ m.term \in Nat /\ m \in AppendRequest
    BY DEF RaftStep, ElectionInv, ElectionTypeOK, PlainInv
  <1>2. PieceOf(m, H[m.term]) /\ LogsRooted(H)
    BY DEF RaftStep, LogInv, RequestsRooted
  <1>3. log'[m.dest] = MergedLog(m.dest, m)
    BY <1>1 DEF RaftStep, PlainInv, Merges
  <1>4. current_term'[m.dest] = m.term /\ role'[m.dest] = Follower
    BY <1>1 DEF RaftStep, ElectionInv, ElectionTypeOK, Merges
  <1>5. /\ MatchReported(m) \in Nat
        /\ Agree(MergedLog(m.dest, m), H[m.term], MatchReported(m))
        /\ \A c \in Nat : Agree(log[m.dest], H[m.term], c) =>
                          Agree(MergedLog(m.dest, m), H[m.term], c)
    BY <1>1, <1>2, MergeOutcome, StepAssumptions DEF Merges
  <1>6. H[m.term] # <<>>
    <2>1. H[m.term] \in Seq(Entry) /\ Len(H[m.term]) \in Nat
      BY <1>1, StepTypes
    <2>2. Len(H[m.term]) # 0
      BY <1>2, <1>5, <2>1 DEF PieceOf
    <2> QED BY <2>1, <2>2, EmptySeq
  <1> QED BY <1>1, <1>3, <1>4, <1>5, <1>6 DEF MergedFrom

LEMMA LogChange ==
    ASSUME NEW H, NEW H2, RaftStep(H, H2), NEW v \in Server
    PROVE  Agree(log'[v], log[v], Len(log[v])) \/ MergedFrom(H, v)
  <1>1. log[v] \in Seq(Entry) /\ Len(log[v]) \in Nat
    BY StepTypes
  <1>2. Agree(log[v], log[v], Len(log[v]))
    BY <1>1, AgreeFacts
  <1>3. CASE LogKept
    BY <1>2, <1>3 DEF LogKept
  <1>4. ASSUME NEW i \in Server, NEW es \in Seq(Entry), Grows(i, es)
        PROVE  Agree(log'[v], log[v], Len(log[v]))
    <2>1. /\ Len(log'[i]) = Len(log[i]) + Len(es) /\ Len(es) >= 1
          /\ \A k \in 1 .. Len(log[i]) : log'[i][k] = log[i][k]
          /\ \A j \in Server \ {i} : log'[j] = log[j]
      BY <1>4, StepAssumptions, GrowthFacts
    <2>2. CASE v = i
      <3>1. Len(log[v]) <= Len(log'[v])
        <4>1. Len(es) \in Nat
          BY <1>4
        <4> QED BY <1>1, <2>1, <2>2, <4>1
      <3> QED BY <1>1, <2>1, <2>2, <3>1 DEF Agree
    <2>3. CASE v # i
      BY <1>2, <2>1, <2>3
    <2> QED BY <2>2, <2>3
  <1>5. ASSUME NEW m \in append_requests, Merges(m)
        PROVE  Agree(log'[v], log[v], Len(log[v])) \/ MergedFrom(H, v)
    <2>1. CASE v = m.dest
      BY <1>5, <2>1, MergeIsMergedFrom
    <2>2. CASE v # m.dest
      <3>1. log'[v] = log[v]
        BY <1>5, <2>2 DEF Merges, RaftStep, PlainInv
      <3> QED BY <1>2, <3>1
    <2> QED BY <2>1, <2>2
  <1> QED BY <1>3, <1>4, <1>5 DEF RaftStep, PlainStep, LogStep

\* Candidates keep their logs, leaders their terms and what is in their logs.
LEMMA RolesKept ==
    ASSUME NEW H, NEW H2, RaftStep(H, H2), NEW x \in Server
    PROVE  /\ role'[x] = Candidate =>
                /\ log'[x] = log[x]
                /\ \/ role[x] = Candidate /\ current_term'[x] = current_term[x]
                   \/ current_term'[x] > current_term[x]
           /\ (role[x] = Leader /\ role'[x] = Leader) =>
                /\ current_term'[x] = current_term[x]
                /\ Agree(log'[x], log[x], Len(log[x]))
  <1>1. CASE LogKept
    <2>1. log[x] \in Seq(Entry) /\ Len(log[x]) \in Nat
      BY StepTypes
    <2>2. Agree(log[x], log[x], Len(log[x]))
      BY <2>1, AgreeFacts
    <2> QED BY <1>1, <2>2 DEF LogKept
  <1>2. ASSUME NEW i \in Server, NEW es \in Seq(Entry), Grows(i, es)
        PROVE  /\ role'[x] = Candidate => /\ log'[x] = log[x] /\ role[x] = Candidate
                                          /\ current_term'[x] = current_term[x]
               /\ role[x] = Leader => /\ current_term'[x] = current_term[x]
    <2>1. /\ \A j \in Server \ {i} : log'[j] = log[j] /\ role'[j] = role[j]
                                     /\ current_term'[j] = current_term[j]
          /\ role'[i] = Leader
          /\ role[i] = Leader => current_term'[i] = current_term[i]
      BY <1>2, StepAssumptions, GrowthFacts
    <2> QED BY <2>1 DEF Leader, Candidate
  <1>3. ASSUME NEW m \in append_requests, Merges(m)
        PROVE  (role'[x] = Candidate \/ role'[x] = Leader) =>
                 log'[x] = log[x] /\ role[x] = role'[x] /\ current_term'[x] = current_term[x]
    <2>1. role'[m.dest] = Follower
      BY <1>3, MergeIsMergedFrom
    <2>2. x # m.dest => log'[x] = log[x]
      BY <1>3 DEF Merges, RaftStep, PlainInv
    <2>3. x # m.dest => role[x] = role'[x]
      BY <1>3 DEF Merges, RaftStep, ElectionInv, ElectionTypeOK
    <2>4. x # m.dest => current_term'[x] = current_term[x]
      BY <1>3 DEF Merges, RaftStep, ElectionInv, ElectionTypeOK
    <2> QED BY <2>1, <2>2, <2>3, <2>4 DEF Follower, Candidate, Leader
  <1>4. (role[x] = Leader /\ role'[x] = Leader) => Agree(log'[x], log[x], Len(log[x]))
    <2>1. ~MergedFrom(H, x) \/ role'[x] = Follower
      BY MergeIsMergedFrom DEF MergedFrom
    <2> QED BY <2>1, LogChange DEF Follower, Leader
  <1>5. CASE ~LogKept
    BY <1>2, <1>3, <1>4, <1>5 DEF RaftStep, PlainStep, LogStep
  <1> QED BY <1>1, <1>5

-----------------------------------------------------------------------------
(* Acceptances only grow, and lost entries stay lost.                      *)

\* Who accepts something now is in the term it accepts it in.
LEMMA LostStays ==
    ASSUME NEW H, NEW H2, RaftStep(H, H2), NEW A, NEW A2, Accepts(A, A2),
           NEW T \in Nat, NEW c \in Nat, Lost(A, T, c)
    PROVE  Lost(A2, T, c)'
  <1>1. PICK Q \in SUBSET Server :
          HasMajority(Q) /\ \A v \in Q : current_term[v] > T /\ <<v, T, c>> \notin A
    BY DEF Lost
  <1>2. ASSUME NEW v \in Q PROVE current_term'[v] > T /\ <<v, T, c>> \notin A2
    <2>1. v \in Server /\ current_term[v] \in Nat /\ current_term'[v] \in Nat
          /\ current_term[v] <= current_term'[v]
      BY <1>1, StepTypes
    <2>2. current_term'[v] > T
      <3>1. current_term[v] > T
        BY <1>1
      <3> QED BY <2>1, <3>1
    <2>3. ~AcceptsNow(v, T, c)
      BY <2>1, <2>2 DEF AcceptsNow
    <2> QED BY <1>1, <2>1, <2>2, <2>3 DEF Accepts
  <1>3. HasMajority(Q)'
    BY <1>1 DEF HasMajority
  <1> QED BY <1>2, <1>3 DEF Lost

LEMMA OwnBefore ==
    ASSUME NEW H, NEW H2, RaftStep(H, H2), NEW T \in Nat, NEW c \in Nat
    PROVE  /\ Own(H, T, c) => Own(H2, T, c)
           /\ (Own(H2, T, c) /\ c <= Len(H[T])) => Own(H, T, c)
  <1>1. Agree(H[T], H2[T], Len(H[T])) /\ Len(H[T]) \in Nat /\ Len(H2[T]) \in Nat
    BY HistoryChange, StepTypes DEF Continues
  <1> QED BY <1>1 DEF Own, Agree

\* Entries of the leader of T that a log or a later leader has, it has after the step.
LEMMA AgreeAfter ==
    ASSUME NEW H, NEW H2, RaftStep(H, H2), NEW L \in Seq(Entry), NEW T \in Nat, NEW c \in Nat,
           Agree(L, H[T], c)
    PROVE  Agree(L, H2[T], c)
  BY HistoryChange, AgreeContinued DEF RaftStep

\* A log that has what the leader of T had has it after the step, unless a later leader
\* overwrites it.
LEMMA LogAfter ==
    ASSUME NEW H, NEW H2, RaftStep(H, H2), NEW v \in Server, NEW T \in Nat, NEW c \in Nat,
           Agree(log[v], H[T], c), T <= current_term[v],
           \A U \in Nat : (T < U /\ H[U] # <<>>) => Agree(H[U], H[T], c)
    PROVE  Agree(log'[v], H[T], c)
  <1>1. /\ log[v] \in Seq(Entry) /\ log'[v] \in Seq(Entry) /\ H[T] \in Seq(Entry)
        /\ Len(log[v]) \in Nat /\ current_term[v] \in Nat /\ current_term[v] <= current_term'[v]
    BY StepTypes
  <1>2. CASE Agree(log'[v], log[v], Len(log[v]))
    <2>1. c \in 0 .. Len(log[v])
      BY <1>1 DEF Agree
    <2>2. Agree(log'[v], log[v], c)
      BY <1>1, <1>2, <2>1, AgreeFacts
    <2> QED BY <1>1, <2>2, AgreeFacts
  <1>3. CASE MergedFrom(H, v)
    <2>1. PICK m \in append_requests :
            /\ m.term \in Nat /\ current_term'[v] = m.term /\ H[m.term] # <<>>
            /\ \A d \in Nat : Agree(log[v], H[m.term], d) => Agree(log'[v], H[m.term], d)
      BY <1>3 DEF MergedFrom
    <2>2. H[m.term] \in Seq(Entry)
      BY <2>1, StepTypes
    <2>3. CASE T = m.term
      BY <2>1, <2>3
    <2>4. CASE T # m.term
      <3>1. T < m.term
        BY <1>1, <2>1, <2>4
      <3>2. Agree(H[m.term], H[T], c)
        BY <2>1, <3>1
      <3>3. Agree(log[v], H[m.term], c)
        BY <1>1, <2>2, <3>2, AgreeFacts
      <3>4. Agree(log'[v], H[m.term], c)
        BY <2>1, <3>3
      <3> QED BY <1>1, <2>2, <3>2, <3>4, AgreeFacts
    <2> QED BY <2>3, <2>4
  <1> QED BY <1>2, <1>3, LogChange

LEMMA AcceptsStay ==
    ASSUME NEW H, NEW H2, RaftStep(H, H2), NEW A, NEW A2, Accepts(A, A2),
           AcceptsTrue(H, A), Safe(H, A)
    PROVE  AcceptsTrue(H2, A2)'
  <1> SUFFICES ASSUME NEW v \in Server, NEW T \in Nat, NEW c \in Nat, <<v, T, c>> \in A2
               PROVE  /\ T <= current_term'[v] /\ c \in 1 .. Len(H2[T])
                      /\ T = current_term'[v] => Agree(log'[v], H2[T], c)
                      /\ Own(H2, T, c) => Agree(log'[v], H2[T], c) \/ Lost(A2, T, c)'
    BY DEF AcceptsTrue, HasOrLost, Agree, Own
  <1>1. /\ current_term[v] \in Nat /\ current_term'[v] \in Nat /\ current_term[v] <= current_term'[v]
        /\ log[v] \in Seq(Entry) /\ log'[v] \in Seq(Entry) /\ H[T] \in Seq(Entry) /\ H2[T] \in Seq(Entry)
        /\ Len(H[T]) \in Nat /\ Len(H2[T]) \in Nat
    BY StepTypes
  <1>2. CASE AcceptsNow(v, T, c)
    <2>1. T = current_term'[v]
      BY <1>2 DEF AcceptsNow
    <2>2. ASSUME NEW m \in append_requests, Merges(m), v = m.dest, c \in 1 .. MatchReported(m)
          PROVE  Agree(log'[v], H2[T], c)
      <3>1. /\ MatchReported(m) \in Nat /\ current_term'[m.dest] = m.term
            /\ Agree(log'[m.dest], H[m.term], MatchReported(m))
        BY <2>2, MergeIsMergedFrom
      <3>2. m.term = T /\ c \in 0 .. MatchReported(m)
        BY <2>1, <2>2, <3>1
      <3>3. Agree(log'[v], H[T], c)
        BY <1>1, <2>2, <3>1, <3>2, AgreeFacts
      <3> QED BY <1>1, <3>3, AgreeAfter
    <2>3. ASSUME role'[v] = Leader, c \in 1 .. Len(log'[v])
          PROVE  Agree(log'[v], H2[T], c)
      <3>1. log'[v] = H2[T]
        BY <2>1, <2>3 DEF RaftStep, LogInv, LeadersKnown
      <3>2. c <= Len(log'[v])
        BY <2>3
      <3>3. Agree(log'[v], log'[v], c)
        BY <1>1, <3>2, AgreeFacts
      <3> QED BY <3>1, <3>3
    <2>4. Agree(log'[v], H2[T], c) /\ c >= 1
      BY <1>2, <2>2, <2>3 DEF AcceptsNow
    <2>5. c \in 1 .. Len(H2[T])
      BY <1>1, <2>4 DEF Agree
    <2> QED BY <1>1, <2>1, <2>4, <2>5
  <1>3. CASE <<v, T, c>> \in A
    <2>1. /\ T <= current_term[v] /\ c \in 1 .. Len(H[T])
          /\ T = current_term[v] => Agree(log[v], H[T], c)
          /\ Own(H, T, c) => Agree(log[v], H[T], c) \/ Lost(A, T, c)
      BY <1>3 DEF AcceptsTrue, HasOrLost
    <2>2. c \in 1 .. Len(H2[T])
      <3>1. Len(H[T]) <= Len(H2[T])
        BY HistoryChange DEF Continues, Agree
      <3> QED BY <1>1, <2>1, <3>1
    <2>3. ASSUME T = current_term'[v] PROVE Agree(log'[v], H2[T], c)
      <3>1. T = current_term[v]
        BY <1>1, <2>1, <2>3
      <3>2. Agree(log[v], H[T], c)
        BY <2>1, <3>1
      <3>3. Agree(log'[v], H[T], c)
        <4>1. CASE Agree(log'[v], log[v], Len(log[v]))
          <5>1. c \in 0 .. Len(log[v]) /\ Len(log[v]) \in Nat
            BY <1>1, <3>2 DEF Agree
          <5>2. Agree(log'[v], log[v], c)
            BY <1>1, <4>1, <5>1, AgreeFacts
          <5> QED BY <1>1, <3>2, <5>2, AgreeFacts
        <4>2. CASE MergedFrom(H, v)
          BY <2>3, <3>2, <4>2 DEF MergedFrom
        <4> QED BY <4>1, <4>2, LogChange
      <3> QED BY <1>1, <3>3, AgreeAfter
    <2>4. ASSUME Own(H2, T, c) PROVE Agree(log'[v], H2[T], c) \/ Lost(A2, T, c)'
      <3>1. Own(H, T, c)
        BY <2>1, <2>4, OwnBefore
      <3>2. CASE Lost(A, T, c)
        BY <3>2, LostStays
      <3>3. CASE Agree(log[v], H[T], c) /\ ~Lost(A, T, c)
        <4>1. \A U \in Nat : (T < U /\ H[U] # <<>>) => Agree(H[U], H[T], c)
          BY <3>1, <3>3 DEF Safe, HasOrLost
        <4>2. Agree(log'[v], H[T], c)
          BY <2>1, <3>3, <4>1, LogAfter
        <4> QED BY <1>1, <4>2, AgreeAfter
      <3> QED BY <2>1, <3>1, <3>2, <3>3
    <2> QED BY <1>1, <2>1, <2>2, <2>3, <2>4
  <1> QED BY <1>2, <1>3 DEF Accepts

-----------------------------------------------------------------------------
(* Elections.                                                              *)

\* A vote granted now goes to a log that has what the voter accepted.
LEMMA FreshVote ==
    ASSUME NEW H, NEW H2, RaftStep(H, H2), NEW A, AcceptsTrue(H, A), Safe(H, A), RequestsTrue,
           NEW x \in Server, NEW v \in Server, NEW m \in vote_requests, GrantedNow(v, x, m)
    PROVE  VoterSafe(H, A, x, v)
  <1> SUFFICES ASSUME NEW T \in Nat, NEW c \in Nat, <<v, T, c>> \in A, Own(H, T, c),
                      ~Lost(A, T, c)
               PROVE  Agree(log[x], H[T], c)
    BY DEF VoterSafe, HasOrLost
  <1> DEFINE V == log[v]
             X == log[x]
             tv == LastTermOf(V)
             tx == LastTermOf(X)
  <1>1. /\ V \in Seq(Entry) /\ X \in Seq(Entry) /\ Len(V) \in Nat /\ Len(X) \in Nat
        /\ H[T] \in Seq(Entry)
    BY StepTypes
  <1>2. /\ Rooted(V, H) /\ Ordered(V, current_term[v]) /\ Rooted(X, H)
        /\ \A t \in Nat : Ordered(H[t], t)
    BY DEF RaftStep, LogInv, LogsRooted
  <1>3. Agree(V, H[T], c) /\ c \in 1 .. Len(H[T]) /\ H[T][c].term = T
    BY DEF AcceptsTrue, HasOrLost, Own
  <1>4. c \in 1 .. Len(V) /\ V[c] = H[T][c]
    BY <1>1, <1>3 DEF Agree
  <1>5. tx > tv \/ (tx = tv /\ Len(X) >= Len(V))
    BY DEF GrantedNow, RequestsTrue
  <1>6. V # <<>> /\ tv = V[Len(V)].term /\ Len(V) \in 1 .. Len(V)
    <2>1. Len(V) # 0 /\ Len(V) \in 1 .. Len(V)
      BY <1>1, <1>4
    <2>2. V # <<>>
      BY <1>1, <2>1, EmptySeq
    <2> QED BY <2>1, <2>2 DEF LastTermOf
  <1>7. tv \in Nat /\ T <= tv
    <2>1. V[Len(V)].term \in Nat
      BY <1>1, <1>6, EntryTerm
    <2>2. V[c].term <= V[Len(V)].term
      BY <1>2, <1>4, <1>6 DEF Ordered
    <2> QED BY <1>3, <1>4, <1>6, <2>1, <2>2
  <1>8. tx \in Nat /\ (X # <<>> => tx = X[Len(X)].term /\ Len(X) \in 1 .. Len(X))
    <2>1. CASE X = <<>>
      BY <2>1 DEF LastTermOf
    <2>2. CASE X # <<>>
      <3>1. Len(X) \in 1 .. Len(X)
        BY <1>1, <2>2, EmptySeq
      <3> QED BY <1>1, <2>2, <3>1, EntryTerm DEF LastTermOf
    <2> QED BY <2>1, <2>2
  <1> HIDE DEF tv, tx
  <1>9. CASE tx = tv /\ Len(X) >= Len(V)
    <2>1. X # <<>>
      <3>1. Len(X) # 0
        BY <1>1, <1>4, <1>9
      <3> QED BY <3>1, EmptySeq
    <2>2. H[tv] \in Seq(Entry)
      BY <1>7, StepTypes
    <2>3. Agree(V, H[tv], Len(V)) /\ Agree(X, H[tv], Len(X))
      BY <1>2, <1>6, <1>8, <1>9, <2>1 DEF Rooted
    <2>4. c \in Nat /\ c \in 0 .. Len(V) /\ c \in 0 .. Len(X)
      BY <1>1, <1>4, <1>9
    <2>5. Agree(V, H[tv], c) /\ Agree(X, H[tv], c)
      BY <1>1, <2>2, <2>3, <2>4, AgreeFacts
    <2>6. Agree(X, V, c)
      BY <1>1, <2>2, <2>5, AgreeFacts
    <2> QED BY <1>1, <1>3, <2>6, AgreeFacts
  <1>10. CASE tx > tv
    <2>1. X # <<>>
      <3>1. tx # 0
        BY <1>7, <1>8, <1>10
      <3> QED BY <3>1 DEF LastTermOf, tx
    <2>2. H[tx] \in Seq(Entry) /\ T < tx /\ Len(H[tx]) \in Nat
      BY <1>7, <1>8, <1>10, StepTypes
    <2>3. Agree(X, H[tx], Len(X)) /\ X[Len(X)].term = tx /\ Len(X) \in 1 .. Len(X)
      BY <1>2, <1>8, <2>1 DEF Rooted
    <2>4. H[tx] # <<>>
      <3>1. Len(H[tx]) # 0
        BY <1>1, <2>2, <2>3 DEF Agree
      <3> QED BY <3>1, EmptySeq
    <2>5. Agree(H[tx], H[T], c)
      BY <1>8, <2>2, <2>4 DEF Safe, HasOrLost
    <2>6. c <= Len(X)
      <3> SUFFICES ASSUME Len(X) < c PROVE FALSE
        BY <1>1, <1>4
      <3>1. c \in 1 .. Len(H[tx]) /\ Len(X) \in 1 .. c
        BY <1>1, <1>4, <2>2, <2>3, <2>5 DEF Agree
      <3>2. H[tx][Len(X)].term <= H[tx][c].term
        BY <1>2, <1>8, <3>1 DEF Ordered
      <3>3. H[tx][c].term = T
        BY <1>3, <2>5, <3>1 DEF Agree
      <3>4. H[tx][Len(X)].term = tx
        BY <2>3 DEF Agree
      <3> QED BY <1>8, <2>2, <3>2, <3>3, <3>4
    <2>7. c \in 0 .. Len(X)
      BY <1>1, <2>6
    <2>8. Agree(X, H[tx], c)
      BY <1>1, <2>2, <2>3, <2>7, AgreeFacts
    <2> QED BY <1>1, <2>2, <2>5, <2>8, AgreeFacts
  <1> QED BY <1>5, <1>9, <1>10

\* Whoever counts for a candidate or elected a leader has reached that term.
LEMMA VoterReached ==
    ASSUME NEW H, NEW H2, RaftStep(H, H2)
    PROVE  /\ \A x, v \in Server : (role'[x] = Candidate /\ Counted(v, x)') =>
                current_term'[v] >= current_term'[x]
           /\ \A e \in elected : \A v \in e.voters : v \in Server /\ current_term[v] >= e.term
           /\ \A e \in elected' : \A v \in e.voters : v \in Server /\ current_term'[v] >= e.term
  <1>1. VotesHonest /\ VotesHonest' /\ ElectionTypeOK /\ ElectionTypeOK'
    BY DEF RaftStep, ElectionInv
  <1>2. ASSUME NEW x \in Server, NEW v \in Server, role'[x] = Candidate, Counted(v, x)'
        PROVE  current_term'[v] >= current_term'[x]
    <2>1. PICK t \in Nat : t = current_term'[x]
      BY StepTypes
    <2>2. Cast(v, t, x)'
      BY <1>2, <2>1 DEF Counted, Cast
    <2>3. current_term'[v] > t \/ current_term'[v] = t
      BY <1>1, <2>2 DEF VotesHonest
    <2>4. current_term'[v] \in Nat
      BY StepTypes
    <2> QED BY <2>1, <2>3, <2>4
  <1>3. ASSUME NEW e \in elected, NEW v \in e.voters
        PROVE  v \in Server /\ current_term[v] >= e.term
    <2>1. v \in Server /\ e.leader \in Server /\ e.term \in Nat /\ current_term[v] \in Nat
      BY <1>1 DEF ElectionTypeOK
    <2>2. Cast(v, e.term, e.leader)
      BY DEF Cast
    <2>3. current_term[v] > e.term \/ current_term[v] = e.term
      BY <1>1, <2>1, <2>2 DEF VotesHonest
    <2> QED BY <2>1, <2>3
  <1>4. ASSUME NEW e \in elected', NEW v \in e.voters
        PROVE  v \in Server /\ current_term'[v] >= e.term
    <2>1. v \in Server /\ e.leader \in Server /\ e.term \in Nat /\ current_term'[v] \in Nat
      BY <1>1 DEF ElectionTypeOK
    <2>2. Cast(v, e.term, e.leader)'
      BY DEF Cast
    <2>3. current_term'[v] > e.term \/ current_term'[v] = e.term
      BY <1>1, <2>1, <2>2 DEF VotesHonest
    <2> QED BY <2>1, <2>3
  <1> QED BY <1>2, <1>3, <1>4

LEMMA VotesStaySafe ==
    ASSUME NEW H, NEW H2, RaftStep(H, H2), NEW A, NEW A2, Accepts(A, A2),
           AcceptInv(H, A), AcceptsTrue(H2, A2)'
    PROVE  VotesSafe(H2, A2)'
  <1> SUFFICES ASSUME NEW x \in Server, NEW v \in Server, role'[x] = Candidate, Counted(v, x)',
                      NEW T \in Nat, NEW c \in Nat, <<v, T, c>> \in A2, T < current_term'[x],
                      Own(H2, T, c)
               PROVE  Agree(log'[x], H2[T], c) \/ Lost(A2, T, c)'
    BY DEF VotesSafe, VoterSafe, HasOrLost, Own, Agree
  <1>1. /\ current_term'[x] \in Nat /\ current_term'[v] \in Nat /\ log[x] \in Seq(Entry)
        /\ current_term'[v] >= current_term'[x]
    BY StepTypes, VoterReached
  <1>2. <<v, T, c>> \in A
    <2>1. ~AcceptsNow(v, T, c)
      BY <1>1 DEF AcceptsNow
    <2> QED BY <2>1 DEF Accepts
  <1>3. Own(H, T, c)
    BY <1>2, OwnBefore DEF AcceptInv, AcceptsTrue
  <1>4. CASE v = x
    BY <1>4 DEF AcceptsTrue, HasOrLost, Own, Agree
  <1>5. CASE role[x] = Candidate /\ current_term'[x] = current_term[x] /\ VoterSafe(H, A, x, v)
    <2>1. log'[x] = log[x]
      BY RolesKept
    <2>2. Agree(log[x], H[T], c) \/ Lost(A, T, c)
      BY <1>2, <1>3, <1>5 DEF VoterSafe, HasOrLost
    <2> QED BY <1>1, <2>1, <2>2, AgreeAfter, LostStays
  <1>6. \/ v = x
        \/ role[x] = Candidate /\ current_term'[x] = current_term[x] /\ VoterSafe(H, A, x, v)
    <2>1. \/ role[x] = Candidate /\ current_term'[x] = current_term[x] /\ Counted(v, x)
          \/ v = x
          \/ \E m \in vote_requests : GrantedNow(v, x, m)
      BY DEF RaftStep, PlainStep, CountsTrue
    <2>2. ASSUME NEW m \in vote_requests, GrantedNow(v, x, m)
          PROVE  role[x] = Candidate /\ current_term'[x] = current_term[x] /\ VoterSafe(H, A, x, v)
      BY <2>2, FreshVote DEF GrantedNow, AcceptInv
    <2> QED BY <2>1, <2>2 DEF AcceptInv, VotesSafe
  <1> QED BY <1>4, <1>5, <1>6

LEMMA RequestsStayTrue ==
    ASSUME NEW H, NEW H2, RaftStep(H, H2), RequestsTrue
    PROVE  RequestsTrue'
  <1> SUFFICES ASSUME NEW m \in vote_requests', role'[m.candidate_id] = Candidate,
                      current_term'[m.candidate_id] = m.term
               PROVE  /\ m.last_log_index = Len(log'[m.candidate_id])
                      /\ m.last_log_term = LastTermOf(log'[m.candidate_id])
    BY DEF RequestsTrue, LastTermOf
  <1>1. m.candidate_id \in Server /\ m.term \in Nat
    BY DEF RaftStep, PlainInv, VoteRequest
  <1>2. CASE m \in vote_requests
    <2>1. m.term <= current_term[m.candidate_id] /\ current_term[m.candidate_id] \in Nat
      BY <1>1, <1>2, StepTypes DEF RaftStep, NoVoteAhead
    <2>2. /\ log'[m.candidate_id] = log[m.candidate_id]
          /\ \/ role[m.candidate_id] = Candidate /\ current_term[m.candidate_id] = m.term
             \/ m.term > current_term[m.candidate_id]
      BY <1>1, RolesKept
    <2>3. role[m.candidate_id] = Candidate /\ current_term[m.candidate_id] = m.term
      BY <1>1, <2>1, <2>2
    <2> QED BY <1>2, <2>2, <2>3 DEF RequestsTrue
  <1>3. CASE m \notin vote_requests
    BY <1>3 DEF RaftStep, PlainStep, VoteMsgsTrue
  <1> QED BY <1>2, <1>3

\* Entry c of term T that nobody in an electing majority accepted is lost.
LEMMA LostByElection ==
    ASSUME NEW H, NEW H2, RaftStep(H, H2), NEW A, NEW A2, Accepts(A, A2),
           NEW T \in Nat, NEW c \in Nat, NEW e, e \in elected \/ e \in elected', T < e.term,
           \A v \in e.voters : <<v, T, c>> \notin A
    PROVE  Lost(A2, T, c)'
  <1>1. /\ e.voters \in SUBSET Server /\ HasMajority(e.voters) /\ e.term \in Nat
        /\ \A v \in e.voters : current_term'[v] >= e.term
    <2>1. CASE e \in elected
      <3>1. e.voters \in SUBSET Server /\ HasMajority(e.voters) /\ e.term \in Nat
        BY <2>1 DEF RaftStep, ElectionInv, ElectionTypeOK, ElectedByMajority
      <3>2. ASSUME NEW v \in e.voters PROVE current_term'[v] >= e.term
        <4>1. v \in Server /\ current_term[v] >= e.term
          BY <2>1, VoterReached
        <4>2. current_term[v] \in Nat /\ current_term'[v] \in Nat /\ current_term[v] <= current_term'[v]
          BY <4>1, StepTypes
        <4> QED BY <3>1, <4>1, <4>2
      <3> QED BY <3>1, <3>2
    <2>2. CASE e \in elected'
      <3>1. e.voters \in SUBSET Server /\ e.term \in Nat
        BY <2>2 DEF RaftStep, ElectionInv, ElectionTypeOK
      <3>2. HasMajority(e.voters)
        BY <2>2 DEF RaftStep, ElectionInv, ElectedByMajority, HasMajority
      <3>3. \A v \in e.voters : current_term'[v] >= e.term
        BY <2>2, VoterReached
      <3> QED BY <3>1, <3>2, <3>3
    <2> QED BY <2>1, <2>2
  <1>2. ASSUME NEW v \in e.voters PROVE current_term'[v] > T /\ <<v, T, c>> \notin A2
    <2>1. v \in Server /\ current_term'[v] \in Nat
      BY <1>1, StepTypes
    <2>2. current_term'[v] > T
      <3>1. current_term'[v] >= e.term
        BY <1>1
      <3> QED BY <1>1, <2>1, <3>1
    <2>3. ~AcceptsNow(v, T, c)
      BY <2>1, <2>2 DEF AcceptsNow
    <2> QED BY <2>1, <2>2, <2>3 DEF Accepts
  <1>3. HasMajority(e.voters)'
    BY <1>1 DEF HasMajority
  <1> QED BY <1>1, <1>2, <1>3 DEF Lost

LEMMA SafeStays ==
    ASSUME NEW H, NEW H2, RaftStep(H, H2), NEW A, NEW A2, Accepts(A, A2), AcceptInv(H, A)
    PROVE  Safe(H2, A2)'
  <1> SUFFICES ASSUME NEW T \in Nat, NEW U \in Nat, NEW c \in Nat, T < U, H2[U] # <<>>,
                      Own(H2, T, c)
               PROVE  Agree(H2[U], H2[T], c) \/ Lost(A2, T, c)'
    BY DEF Safe, HasOrLost, Own, Agree
  <1>1. /\ H[T] \in Seq(Entry) /\ H2[T] \in Seq(Entry) /\ H[U] \in Seq(Entry) /\ H2[U] \in Seq(Entry)
        /\ Len(H[T]) \in Nat /\ Len(H2[T]) \in Nat
    BY StepTypes
  <1>2. CASE c <= Len(H[T]) /\ H[U] # <<>>
    <2>1. Agree(H[U], H[T], c) \/ Lost(A, T, c)
      BY <1>2, OwnBefore DEF AcceptInv, Safe, HasOrLost
    <2>2. ASSUME Agree(H[U], H[T], c) PROVE Agree(H2[U], H2[T], c)
      <3>1. Agree(H[U], H2[T], c)
        BY <1>1, <2>2, AgreeAfter
      <3>2. Agree(H2[T], H[U], c)
        BY <1>1, <3>1, AgreeFacts
      <3>3. Agree(H2[T], H2[U], c)
        BY <1>1, <3>2, AgreeAfter
      <3> QED BY <1>1, <3>3, AgreeFacts
    <2> QED BY <2>1, <2>2, LostStays
  <1>3. CASE c <= Len(H[T]) /\ H[U] = <<>>
    <2>1. PICK i \in Server : /\ \E es \in Seq(Entry) : Grows(i, es)
                              /\ U = current_term'[i] /\ H2[U] = log'[i]
      BY <1>3, HistoryChange
    <2>2. PICK es \in Seq(Entry) : Grows(i, es)
      BY <2>1
    <2>3. log[i] \in Seq(Entry) /\ log'[i] \in Seq(Entry) /\ Len(log[i]) \in Nat
          /\ current_term[i] \in Nat
      BY StepTypes
    <2>4. role[i] # Leader
      <3> SUFFICES ASSUME role[i] = Leader PROVE FALSE
        OBVIOUS
      <3>1. H[current_term[i]] # <<>>
        BY DEF RaftStep, LogInv, LeadersKnown
      <3>2. U = current_term[i]
        BY <2>1, <2>2 DEF Grows, Leads, Leader, Candidate
      <3> QED BY <1>3, <3>1, <3>2
    <2>5. /\ [term |-> U, leader |-> i, voters |-> voters'[i]] \in elected'
          /\ \A v \in voters'[i] : v = i \/
               (role[i] = Candidate /\ U = current_term[i] /\ Counted(v, i))
      BY <2>1, <2>2, <2>4 DEF Grows, Leads
    <2>6. Own(H, T, c)
      BY <1>3, OwnBefore
    <2>7. CASE \A v \in voters'[i] : <<v, T, c>> \notin A
      <3> DEFINE e == [term |-> U, leader |-> i, voters |-> voters'[i]]
      <3>1. e \in elected' /\ e.term = U /\ e.voters = voters'[i]
        BY <2>5
      <3> HIDE DEF e
      <3> QED BY <2>7, <3>1, LostByElection
    <2>8. ASSUME NEW v \in voters'[i], <<v, T, c>> \in A
          PROVE  Agree(log[i], H[T], c) \/ Lost(A, T, c)
      <3>1. CASE v = i
        BY <2>6, <2>8, <3>1 DEF AcceptInv, AcceptsTrue, HasOrLost
      <3>2. CASE v # i
        <4>1. role[i] = Candidate /\ U = current_term[i] /\ Counted(v, i)
          BY <2>5, <2>8, <3>2
        <4>2. v \in Server
          BY <2>8 DEF RaftStep, ElectionInv, ElectionTypeOK
        <4> QED BY <2>6, <2>8, <4>1, <4>2 DEF AcceptInv, VotesSafe, VoterSafe, HasOrLost
      <3> QED BY <3>1, <3>2
    <2>9. ASSUME Agree(log[i], H[T], c) PROVE Agree(log'[i], H2[T], c)
      <3>1. Agree(log'[i], log[i], Len(log[i]))
        <4>1. role'[i] = Leader
          BY <2>2, StepAssumptions, GrowthFacts
        <4>2. ~MergedFrom(H, i)
          BY <4>1, MergeIsMergedFrom DEF MergedFrom, Follower, Leader
        <4> QED BY <4>2, LogChange
      <3>2. c \in 0 .. Len(log[i])
        BY <2>3, <2>9 DEF Agree
      <3>3. Agree(log'[i], log[i], c)
        BY <2>3, <3>1, <3>2, AgreeFacts
      <3>4. Agree(log'[i], H[T], c)
        BY <1>1, <2>3, <2>9, <3>3, AgreeFacts
      <3> QED BY <2>3, <3>4, AgreeAfter
    <2> QED BY <2>1, <2>7, <2>8, <2>9, LostStays
  <1>4. CASE ~(c <= Len(H[T]))
    <2>1. H2[T] # H[T]
      BY <1>1, <1>4 DEF Own
    <2>2. PICK i \in Server : /\ \E es \in Seq(Entry) : Grows(i, es)
                              /\ T = current_term'[i] /\ H2 = Grown(H, i)
      BY <2>1, HistoryChange
    <2>3. H2[U] = H[U]
      BY <2>2, StepAssumptions, GrowthFacts
    <2>4. PICK e \in elected : e.term = U
      BY <2>3 DEF RaftStep, LogInv, LeadersKnown
    <2>5. ASSUME NEW v \in e.voters PROVE <<v, T, c>> \notin A
      <3>1. v \in Server
        BY VoterReached
      <3>2. <<v, T, c>> \in A => c \in 1 .. Len(H[T])
        BY <3>1 DEF AcceptInv, AcceptsTrue
      <3> QED BY <1>4, <3>2
    <2> QED BY <2>4, <2>5, LostByElection
  <1> QED BY <1>2, <1>3, <1>4

LEMMA MatchStaysTrue ==
    ASSUME NEW H, NEW H2, RaftStep(H, H2), NEW A, NEW A2, Accepts(A, A2), AcceptInv(H, A)
    PROVE  MatchTrue(A2)'
  <1>1. ASSUME NEW v \in Server, NEW T \in Nat, NEW k \in Nat, <<v, T, k>> \in A
        PROVE  <<v, T, k>> \in A2
    BY <1>1 DEF Accepts
  <1>2. ASSUME NEW r \in append_replies', r.success, NEW k \in 1 .. r.match_index
        PROVE  <<r.peer_id, r.term, k>> \in A2
    <2>1. r.peer_id \in Server /\ r.term \in Nat /\ r.match_index \in Nat
      BY DEF RaftStep, PlainInv, AppendReply
    <2>2. k \in Nat
      BY <2>1
    <2>3. CASE r \in append_replies
      BY <1>1, <1>2, <2>1, <2>2, <2>3 DEF AcceptInv, MatchTrue
    <2>4. CASE r \notin append_replies
      <3>1. PICK m \in append_requests : /\ Merges(m) /\ r.peer_id = m.dest /\ r.term = m.term
                                         /\ r.match_index = MatchReported(m)
        BY <1>2, <2>4 DEF RaftStep, PlainStep, AcksTrue
      <3>2. AcceptsNow(r.peer_id, r.term, k)
        BY <3>1, MergeIsMergedFrom DEF AcceptsNow
      <3> QED BY <2>1, <2>2, <3>2 DEF Accepts
    <2> QED BY <2>3, <2>4
  <1>3. ASSUME NEW i \in Server, role'[i] = Leader
        PROVE  /\ \A k \in 1 .. Len(log'[i]) : <<i, current_term'[i], k>> \in A2
               /\ \A j \in Server :
                    /\ \A k \in 1 .. match_index'[i][j] : <<j, current_term'[i], k>> \in A2
                    /\ next_index'[i][j] <= Len(log'[i]) + 1
    <2>1. /\ current_term'[i] \in Nat /\ current_term[i] \in Nat
          /\ Len(log'[i]) \in Nat /\ Len(log[i]) \in Nat /\ log[i] \in Seq(Entry)
      BY StepTypes
    <2>2. ASSUME NEW k \in 1 .. Len(log'[i]) PROVE <<i, current_term'[i], k>> \in A2
      <3>1. k \in Nat /\ AcceptsNow(i, current_term'[i], k)
        BY <1>3, <2>1 DEF AcceptsNow
      <3> QED BY <2>1, <3>1 DEF Accepts
    <2>3. ASSUME NEW j \in Server
          PROVE  /\ \A k \in 1 .. match_index'[i][j] : <<j, current_term'[i], k>> \in A2
                 /\ next_index'[i][j] <= Len(log'[i]) + 1
      <3>1. /\ match_index[i][j] \in Nat /\ match_index'[i][j] \in Nat
            /\ next_index[i][j] \in Nat /\ next_index'[i][j] \in Nat
        BY DEF RaftStep, PlainInv
      <3>2. ASSUME role[i] = Leader
            PROVE  /\ current_term'[i] = current_term[i] /\ Len(log[i]) <= Len(log'[i])
                   /\ log[i] = H[current_term[i]]
                   /\ \A k \in 1 .. match_index[i][j] : <<j, current_term[i], k>> \in A
                   /\ next_index[i][j] <= Len(log[i]) + 1
        <4>1. current_term'[i] = current_term[i] /\ Agree(log'[i], log[i], Len(log[i]))
          BY <1>3, <3>2, RolesKept
        <4>2. log[i] = H[current_term[i]]
          BY <3>2 DEF RaftStep, LogInv, LeadersKnown
        <4>3. /\ \A k \in 1 .. match_index[i][j] : <<j, current_term[i], k>> \in A
              /\ next_index[i][j] <= Len(log[i]) + 1
          BY <3>2 DEF AcceptInv, MatchTrue
        <4> QED BY <4>1, <4>2, <4>3 DEF Agree
      <3>3. CASE /\ role[i] = Leader /\ match_index'[i][j] = match_index[i][j]
                 /\ next_index'[i][j] <= next_index[i][j]
        <4>1. \A k \in 1 .. match_index'[i][j] : k \in Nat
          BY <3>1
        <4>2. next_index'[i][j] <= Len(log'[i]) + 1
          BY <2>1, <3>1, <3>2, <3>3
        <4> QED BY <1>1, <2>1, <3>2, <3>3, <4>1, <4>2
      <3>4. CASE match_index'[i][j] = 0 /\ next_index'[i][j] = Len(log'[i]) + 1
        BY <2>1, <3>4
      <3>5. ASSUME role[i] = Leader, NEW r \in append_replies, Reported(i, j, r)
            PROVE  /\ \A k \in 1 .. match_index'[i][j] : <<j, current_term'[i], k>> \in A2
                   /\ next_index'[i][j] <= Len(log'[i]) + 1
        <4>1. /\ r.match_index \in Nat /\ r.term = current_term[i] /\ r.peer_id = j
              /\ match_index'[i][j] = r.match_index /\ next_index'[i][j] = r.match_index + 1
          BY <3>5 DEF Reported, RaftStep, PlainInv, AppendReply
        <4>2. \A k \in 1 .. r.match_index : <<j, current_term[i], k>> \in A /\ k \in Nat
          BY <3>5, <4>1 DEF Reported, AcceptInv, MatchTrue
        <4>3. r.match_index <= Len(log[i])
          <5>1. CASE r.match_index = 0
            BY <2>1, <5>1
          <5>2. CASE r.match_index # 0
            <6>1. r.match_index \in 1 .. r.match_index
              BY <4>1, <5>2
            <6>2. r.match_index \in 1 .. Len(H[current_term[i]])
              BY <2>1, <4>1, <4>2, <6>1 DEF AcceptInv, AcceptsTrue
            <6> QED BY <3>2, <3>5, <6>2
          <5> QED BY <5>1, <5>2
        <4>4. next_index'[i][j] <= Len(log'[i]) + 1
          BY <2>1, <3>2, <3>5, <4>1, <4>3
        <4> QED BY <1>1, <2>1, <3>2, <3>5, <4>1, <4>2, <4>4
      <3>6. \/ /\ role[i] = Leader /\ match_index'[i][j] = match_index[i][j]
               /\ next_index'[i][j] <= next_index[i][j]
            \/ match_index'[i][j] = 0 /\ next_index'[i][j] = Len(log'[i]) + 1
            \/ role[i] = Leader /\ \E r \in append_replies : Reported(i, j, r)
        BY <1>3 DEF RaftStep, PlainStep, PeersTrue
      <3> QED BY <3>3, <3>4, <3>5, <3>6
    <2> QED BY <2>2, <2>3
  <1> QED BY <1>2, <1>3 DEF MatchTrue

LEMMA AcceptInvStep ==
    ASSUME NEW H, NEW H2, RaftStep(H, H2), NEW A, NEW A2, Accepts(A, A2), AcceptInv(H, A)
    PROVE  AcceptInv(H2, A2)'
  <1>1. AcceptsTrue(H2, A2)'
    BY AcceptsStay DEF AcceptInv
  <1>2. RequestsTrue'
    BY RequestsStayTrue DEF AcceptInv
  <1> QED BY <1>1, <1>2, SafeStays, VotesStaySafe, MatchStaysTrue DEF AcceptInv

-----------------------------------------------------------------------------
(* What a step commits, applies and acknowledges.                          *)

CommitTypes ==
    /\ app_state \in [Server -> Seq(Command \cup {NoOp})]
    /\ pending_replies \in [Server -> SUBSET Write]
    /\ chosen \in Seq([entry : Entry, at : Nat])
    /\ acked \subseteq Write

\* Only leaders have clients waiting, each for an entry of the leader's log.
PendingTrue ==
    \A i \in Server : \A w \in pending_replies[i] :
      /\ role[i] = Leader
      /\ w.index \in 1 .. Len(log[i]) /\ log[i][w.index].command = w.command

\* Server i applies its log up to c.
Applies(i, c) ==
    /\ commit_index' = [commit_index EXCEPT ![i] = c]
    /\ app_state' = [app_state EXCEPT ![i] = @ \o Commands(SubSeq(log'[i], commit_index[i] + 1, c))]
    /\ c <= Len(log'[i])

LeaderCommits(i, c) ==
    /\ Applies(i, c) /\ commit_index[i] < c
    /\ role'[i] = Leader /\ log'[i][c].term = current_term'[i]
    /\ HasMajority({j \in Server : j = i \/ c <= match_index'[i][j]})
    /\ chosen' = chosen \o [k \in 1 .. (c - Len(chosen)) |->
                              [entry |-> log'[i][Len(chosen) + k], at |-> current_term'[i]]]
    /\ acked \subseteq acked'
    /\ \A w \in acked' \ acked : w.index \in 1 .. c /\ log'[i][w.index].command = w.command

FollowerCommits(m, c) ==
    /\ Merges(m) /\ Applies(m.dest, c) /\ commit_index[m.dest] < m.leader_commit
    /\ c = IF m.leader_commit <= Len(log'[m.dest]) THEN m.leader_commit ELSE Len(log'[m.dest])
    /\ UNCHANGED <<chosen, acked>>

\* A restart: commit_index and the state machine are not in the database.
Forgets(i) ==
    /\ commit_index' = [commit_index EXCEPT ![i] = 0]
    /\ app_state' = [app_state EXCEPT ![i] = <<>>]
    /\ UNCHANGED <<chosen, acked>>

CommitStep ==
    \/ UNCHANGED <<commit_index, app_state, chosen, acked>>
    \/ \E i \in Server : Forgets(i)
    \/ \E i \in Server, c \in Nat : LeaderCommits(i, c)
    \/ \E m \in append_requests, c \in Nat : FollowerCommits(m, c)

\* Who waits after the step waited at the same leader before, or asked it now.
PendingStep ==
    \A i \in Server : \A w \in pending_replies'[i] :
      /\ role'[i] = Leader
      /\ \/ role[i] = Leader /\ w \in pending_replies[i]
         \/ w.index \in 1 .. Len(log'[i]) /\ log'[i][w.index].command = w.command

CommittingStep ==
    /\ pending_replies' \in [Server -> SUBSET Write] /\ acked' \subseteq Write
    /\ CommitStep /\ PendingStep

\* What the lemmas below assume of the state before the step and of the step.
Committing ==
    /\ ElectionTypeOK /\ PlainInv /\ PlainInv' /\ NothingCompacted /\ NothingCompacted'
    /\ CommitTypes /\ PendingTrue /\ \A i \in Server : commit_index[i] <= Len(log[i])

\* Nothing is committed, and whoever stops leading lets its clients go.
LEMMA QuietCommit ==
    ASSUME Committing, UNCHANGED <<commit_index, app_state, chosen, acked>>,
           pending_replies' \in [Server -> SUBSET Write],
           \A i \in Server : \/ pending_replies'[i] = {}
                             \/ pending_replies'[i] = pending_replies[i] /\ role'[i] = role[i]
    PROVE  CommittingStep
  <1>1. PendingStep
    BY DEF PendingStep, PendingTrue, Committing
  <1> QED BY <1>1 DEF CommittingStep, CommitStep, CommitTypes, Committing

LEMMA SteppedDownCommit ==
    ASSUME Committing, NEW i \in Server,
           \/ \E t \in Nat : StepDownOnReply(i, t)
           \/ UNCHANGED <<termVars, diskVars, role, log, applyVars, voters, leaderVars,
                          clientVars, ghostVars, counterVars>>
    PROVE  CommittingStep
  <1>1. UNCHANGED <<commit_index, app_state, chosen, acked>>
    BY DEF StepDownOnReply, applyVars, ghostVars
  <1>2. \/ UNCHANGED <<pending_replies, role>>
        \/ /\ role' = [role EXCEPT ![i] = Follower]
           /\ pending_replies' = [pending_replies EXCEPT ![i] =
                                    IF role[i] = Leader THEN {} ELSE pending_replies[i]]
    BY DEF StepDownOnReply, StepDown, clientVars
  <1>3. role[i] # Leader => pending_replies[i] = {}
    BY DEF Committing, PendingTrue
  <1> QED BY <1>1, <1>2, <1>3, QuietCommit DEF Committing, CommitTypes, ElectionTypeOK

LEMMA TickCommit ==
    ASSUME Committing, NEW i \in Server,
           ElectionTimeout(i) \/ QuietTick(i) \/ LeaderTick(i) \/ GetReadIndex(i)
    PROVE  CommittingStep
  <1>1. UNCHANGED <<commit_index, app_state, chosen, acked, pending_replies>>
    BY DEF ElectionTimeout, QuietTick, LeaderTick, GetReadIndex, applyVars, ghostVars, clientVars
  <1>2. CASE ElectionTimeout(i)
    <2>1. role[i] # Leader /\ role' = [role EXCEPT ![i] = Candidate]
      BY <1>2 DEF ElectionTimeout, Follower, Candidate, Leader
    <2>2. pending_replies[i] = {}
      BY <2>1 DEF Committing, PendingTrue
    <2>3. \A x \in Server : pending_replies'[x] = {} \/ role'[x] = role[x]
      BY <1>1, <2>1, <2>2 DEF Committing, ElectionTypeOK
    <2> QED BY <1>1, <2>3, QuietCommit DEF Committing, CommitTypes
  <1>3. CASE ~ElectionTimeout(i)
    <2>1. role' = role
      BY <1>3 DEF QuietTick, LeaderTick, GetReadIndex
    <2> QED BY <1>1, <2>1, QuietCommit DEF Committing, CommitTypes
  <1> QED BY <1>2, <1>3

LEMMA VoteCommit ==
    ASSUME Committing,
           \/ \E m \in vote_requests, lost \in BOOLEAN : HandleRequestVote(m, lost)
           \/ \E m \in vote_replies : HandleRequestVoteResponse(m)
           \/ LoseExchange
    PROVE  CommittingStep
  <1>1. ASSUME NEW m \in vote_requests, NEW lost \in BOOLEAN, HandleRequestVote(m, lost)
        PROVE  CommittingStep
    <2> DEFINE i == m.dest
    <2>1. i \in Server
      BY DEF Committing, ElectionTypeOK
    <2>2. UNCHANGED <<commit_index, app_state, chosen, acked>>
      BY <1>1 DEF HandleRequestVote, applyVars, ghostVars
    <2>3. \/ UNCHANGED <<pending_replies, role>>
          \/ /\ role' = [role EXCEPT ![i] = Follower]
             /\ pending_replies' = [pending_replies EXCEPT ![i] =
                                      IF role[i] = Leader THEN {} ELSE pending_replies[i]]
      BY <1>1 DEF HandleRequestVote, StepDown, clientVars
    <2>4. role[i] # Leader => pending_replies[i] = {}
      BY <2>1 DEF Committing, PendingTrue
    <2> QED BY <2>1, <2>2, <2>3, <2>4, QuietCommit DEF Committing, CommitTypes, ElectionTypeOK
  <1>2. ASSUME NEW m \in vote_replies, HandleRequestVoteResponse(m) PROVE CommittingStep
    <2> DEFINE i == m.dest
               counts == role[i] = Candidate /\ m.term = current_term[i] /\ m.vote_granted
    <2>1. i \in Server /\ m.term \in Nat
      BY DEF Committing, ElectionTypeOK
    <2>2. CASE counts
      <3>1. UNCHANGED <<commit_index, app_state, chosen, acked, pending_replies>>
        BY <1>2, <2>2 DEF HandleRequestVoteResponse, applyVars, clientVars
      <3>2. role' = [role EXCEPT ![i] = Leader] \/ role' = role
        BY <1>2, <2>2 DEF HandleRequestVoteResponse, BecomeLeader
      <3>3. pending_replies[i] = {}
        BY <2>1, <2>2 DEF Committing, PendingTrue, Candidate, Leader
      <3>4. \A x \in Server : pending_replies'[x] = {} \/ role'[x] = role[x]
        BY <2>1, <3>1, <3>2, <3>3 DEF Committing, ElectionTypeOK
      <3> QED BY <3>1, <3>4, QuietCommit DEF Committing, CommitTypes
    <2>3. CASE ~counts
      <3>1. \/ StepDownOnReply(i, m.term)
            \/ UNCHANGED <<termVars, diskVars, role, log, applyVars, voters, leaderVars,
                           clientVars, ghostVars, counterVars>>
        BY <1>2, <2>3 DEF HandleRequestVoteResponse
      <3> QED BY <2>1, <3>1, SteppedDownCommit
    <2> QED BY <2>2, <2>3
  <1>3. CASE LoseExchange
    <2>1. UNCHANGED <<commit_index, app_state, chosen, acked, pending_replies, role>>
      BY <1>3 DEF LoseExchange, applyVars, ghostVars, clientVars
    <2> QED BY <2>1, QuietCommit DEF Committing, CommitTypes
  <1> QED BY <1>1, <1>2, <1>3

LEMMA RebootCommit ==
    ASSUME Committing, NEW i \in Server, NEW t, NEW v,
           Reboot(i, t, v, db_log[i], last_included_index[i], last_included_term[i], snapshot_data[i])
    PROVE  CommittingStep
  <1>1. last_included_index[i] = 0 /\ snapshot_data[i] = <<>>
    BY PlainFacts DEF Committing, PlainInv
  <1>2. Forgets(i)
    BY <1>1 DEF Reboot, Forgets, ghostVars
  <1>3. /\ pending_replies' = [pending_replies EXCEPT ![i] = {}]
        /\ role' = [role EXCEPT ![i] = Follower] /\ acked' = acked
    BY DEF Reboot, ghostVars
  <1>4. PendingStep
    BY <1>3 DEF PendingStep, PendingTrue, Committing, CommitTypes, ElectionTypeOK
  <1>5. pending_replies' \in [Server -> SUBSET Write] /\ acked' \subseteq Write
    BY <1>3 DEF Committing, CommitTypes
  <1> QED BY <1>2, <1>4, <1>5 DEF CommittingStep, CommitStep

\* apply_logs and the history of what leaders commit, when nothing is compacted.
LEMMA ApplyFacts ==
    ASSUME Committing, NEW i \in Server, NEW c \in Nat, ApplyLogs(i, log'[i], c), c <= Len(log'[i])
    PROVE  Applies(i, c)
  <1>1. last_included_index[i] = 0 /\ last_applied[i] = commit_index[i] /\ commit_index[i] \in Nat
    BY PlainFacts DEF Committing, PlainInv
  <1>2. last_applied[i] - last_included_index[i] + 1 = commit_index[i] + 1
        /\ c - last_included_index[i] = c
    BY <1>1
  <1> QED BY <1>2 DEF ApplyLogs, Applies

LEMMA ChooseFacts ==
    ASSUME Committing, NEW i \in Server, NEW t, NEW L, NEW c \in Nat, Choose(i, t, L, c)
    PROVE  chosen' = chosen \o [k \in 1 .. (c - Len(chosen)) |->
                                  [entry |-> L[Len(chosen) + k], at |-> t]]
  <1>1. last_included_index[i] = 0 /\ Len(chosen) \in Nat
    BY PlainFacts DEF Committing, CommitTypes
  <1>2. \A k \in 1 .. (c - Len(chosen)) : Len(chosen) + k - last_included_index[i] = Len(chosen) + k
    BY <1>1
  <1> QED BY <1>2 DEF Choose

LEMMA SoleMajority ==
    ASSUME NEW i \in Server, Peers(i) = {}, NEW S \in SUBSET Server, i \in S
    PROVE  HasMajority(S)
  <1>1. Server = {i} /\ S = {i}
    BY DEF Peers
  <1>2. Cardinality({i}) = 1
    BY FS_Singleton
  <1> QED BY <1>1, <1>2 DEF HasMajority

LEMMA SoleElectionCommit ==
    ASSUME Committing, NEW i \in Server, SoleMemberElection(i)
    PROVE  CommittingStep
  <1> DEFINE t == current_term[i] + 1
             e == [term |-> t, command |-> NoOp]
             c == SoleCommit(i)
             L == LogWithNoOp(i, t)
  <1>1. /\ role[i] # Leader /\ Peers(i) = {} /\ role' = [role EXCEPT ![i] = Leader]
        /\ current_term' = [current_term EXCEPT ![i] = t]
        /\ ApplyLogs(i, L, c) /\ Choose(i, t, L, c)
        /\ UNCHANGED <<pending_replies, acked>>
    BY DEF SoleMemberElection, BecomeLeader, clientVars, Follower, Candidate, Leader
  <1>2. /\ t \in Nat /\ log[i] \in Seq(Entry) /\ Len(log[i]) \in Nat /\ c = Len(log[i]) + 1
        /\ commit_index[i] \in Nat /\ commit_index[i] <= Len(log[i])
    BY PlainFacts DEF Committing, ElectionTypeOK, SoleCommit, PlainInv
  <1>3. log'[i] = L
    <2> DEFINE D == SaveEntries(db_log[i], LastIndex(i) + 1, <<L[Len(L)]>>)
    <2>1. Compact(i, L, D, SoleCommit(i), app_state'[i])
      BY DEF SoleMemberElection
    <2>2. c \in Nat
      BY <1>2
    <2> HIDE DEF L, D
    <2>3. log' = [log EXCEPT ![i] = L]
      BY <2>1, <2>2, NoCompaction DEF Committing
    <2> QED BY <2>3 DEF Committing, PlainInv
  <1>4. L = Append(log[i], e) /\ e \in Entry /\ e.term = t
    BY <1>2 DEF LogWithNoOp, Entry
  <1> HIDE DEF L, e, c, t
  <1>5. Len(L) = c /\ L[c] = e
    BY <1>2, <1>4, AppendProperties
  <1>6. c \in Nat /\ commit_index[i] < c /\ c <= Len(log'[i])
    BY <1>2, <1>3, <1>5
  <1>7. role'[i] = Leader /\ current_term'[i] = t
    BY <1>1 DEF Committing, ElectionTypeOK
  <1>8. LeaderCommits(i, c)
    <2>1. Applies(i, c)
      BY <1>1, <1>3, <1>6, ApplyFacts
    <2>2. HasMajority({j \in Server : j = i \/ c <= match_index'[i][j]})
      BY <1>1, SoleMajority
    <2>3. chosen' = chosen \o [k \in 1 .. (c - Len(chosen)) |->
                              [entry |-> log'[i][Len(chosen) + k], at |-> current_term'[i]]]
      BY <1>1, <1>3, <1>6, <1>7, ChooseFacts
    <2> QED BY <1>1, <1>3, <1>4, <1>5, <1>6, <1>7, <2>1, <2>2, <2>3 DEF LeaderCommits
  <1>9. PendingStep
    <2>1. pending_replies[i] = {}
      BY <1>1 DEF Committing, PendingTrue
    <2>2. \A x \in Server : x # i => role'[x] = role[x]
      BY <1>1 DEF Committing, ElectionTypeOK
    <2> QED BY <1>1, <2>1, <2>2 DEF PendingStep, PendingTrue, Committing
  <1>10. pending_replies' \in [Server -> SUBSET Write] /\ acked' \subseteq Write
    BY <1>1 DEF Committing, CommitTypes
  <1> QED BY <1>6, <1>8, <1>9, <1>10 DEF CommittingStep, CommitStep

LEMMA ClientCommit ==
    ASSUME Committing, NEW i \in Server, NEW b \in Batches, ClientRequest(i, b)
    PROVE  CommittingStep
  <1> DEFINE es == [k \in 1 .. Len(b) |-> [term |-> current_term[i], command |-> b[k]]]
             from == LastIndex(i) + 1
             last == LastIndex(i) + Len(b)
             mine == {[index |-> from + k - 1, command |-> b[k]] : k \in 1 .. Len(b)}
  <1>1. /\ Len(b) \in Nat \ {0} /\ es \in Seq(Entry) /\ es # <<>> /\ Len(es) = Len(b)
        /\ \A k \in 1 .. Len(b) : es[k].term = current_term[i] /\ es[k].command = b[k] /\ b[k] \in Command
    BY BatchFacts DEF Committing, ElectionTypeOK
  <1>2. /\ role[i] = Leader
        /\ log' = [log EXCEPT ![i] = log[i] \o es]
        /\ UNCHANGED <<current_term, role>>
    BY DEF ClientRequest, termVars
  <1>3. IF Peers(i) = {}
        THEN /\ ApplyLogs(i, log[i] \o es, last) /\ acked' = acked \cup mine
             /\ Choose(i, current_term[i], log[i] \o es, last)
             /\ UNCHANGED pending_replies
        ELSE /\ pending_replies' = [pending_replies EXCEPT ![i] = pending_replies[i] \cup mine]
             /\ UNCHANGED <<commit_index, app_state, acked, chosen>>
    BY DEF ClientRequest, applyVars
  <1>4. /\ log[i] \in Seq(Entry) /\ Len(log[i]) \in Nat /\ LastIndex(i) = Len(log[i])
        /\ commit_index[i] \in Nat /\ commit_index[i] <= Len(log[i])
    BY PlainFacts DEF Committing, PlainInv
  <1> HIDE DEF es
  <1>5. log'[i] = log[i] \o es
    BY <1>2 DEF Committing, PlainInv
  <1>6. /\ Len(log'[i]) = Len(log[i]) + Len(b)
        /\ \A k \in 1 .. (Len(log[i]) + Len(b)) :
             log'[i][k] = IF k <= Len(log[i]) THEN log[i][k] ELSE es[k - Len(log[i])]
    <2>1. es \in Seq(Entry) /\ log[i] \in Seq(Entry) /\ Len(es) = Len(b)
      BY <1>1, <1>4
    <2>2. /\ Len(log[i] \o es) = Len(log[i]) + Len(es)
          /\ \A k \in 1 .. (Len(log[i]) + Len(es)) :
               (log[i] \o es)[k] = IF k <= Len(log[i]) THEN log[i][k] ELSE es[k - Len(log[i])]
      BY <2>1, ConcatProperties
    <2> QED BY <1>5, <2>1, <2>2
  <1>7. last \in Nat /\ last = Len(log'[i]) /\ commit_index[i] < last
    BY <1>1, <1>4, <1>6
  <1>8. ASSUME NEW k \in 1 .. Len(b)
        PROVE  /\ from + k - 1 \in 1 .. last /\ from + k - 1 \in Nat
               /\ log'[i][from + k - 1] = es[k]
    <2> DEFINE q == from + k - 1
    <2>1. q = Len(log[i]) + k
      BY <1>4
    <2>2. q \in 1 .. (Len(log[i]) + Len(b)) /\ ~(q <= Len(log[i])) /\ q - Len(log[i]) = k
      BY <1>1, <1>4, <2>1
    <2> HIDE DEF q
    <2>3. log'[i][q] = es[k]
      BY <1>6, <2>2
    <2> QED BY <1>4, <2>2, <2>3 DEF q
  <1>9. ASSUME NEW w \in mine
        PROVE  w \in Write /\ w.index \in 1 .. last /\ log'[i][w.index].command = w.command
    <2>1. PICK k \in 1 .. Len(b) : w = [index |-> from + k - 1, command |-> b[k]]
      BY <1>9
    <2>2. w.index = from + k - 1 /\ w.command = b[k]
      BY <2>1
    <2> HIDE DEF from, mine, last
    <2>3. w \in Write
      BY <1>1, <1>8, <2>1 DEF Write
    <2> QED BY <1>1, <1>8, <2>2, <2>3
  <1> HIDE DEF mine, last
  <1>10. CASE Peers(i) = {}
    <2>1. /\ ApplyLogs(i, log'[i], last) /\ acked' = acked \cup mine
          /\ Choose(i, current_term'[i], log'[i], last) /\ UNCHANGED pending_replies
      BY <1>2, <1>3, <1>5, <1>10
    <2>2. log'[i][last].term = current_term'[i]
      <3>1. last \in 1 .. (Len(log[i]) + Len(b)) /\ ~(last <= Len(log[i]))
            /\ last - Len(log[i]) \in 1 .. Len(b)
        BY <1>1, <1>4, <1>6, <1>7
      <3> QED BY <1>1, <1>2, <1>6, <3>1
    <2>3. LeaderCommits(i, last)
      <3>1. Applies(i, last)
        BY <1>7, <2>1, ApplyFacts
      <3>2. HasMajority({j \in Server : j = i \/ last <= match_index'[i][j]})
        BY <1>10, SoleMajority
      <3>3. chosen' = chosen \o [k \in 1 .. (last - Len(chosen)) |->
                                [entry |-> log'[i][Len(chosen) + k], at |-> current_term'[i]]]
        BY <1>7, <2>1, ChooseFacts
      <3> QED BY <1>2, <1>7, <1>9, <2>1, <2>2, <3>1, <3>2, <3>3 DEF LeaderCommits
    <2>4. PendingStep
      BY <1>2, <2>1 DEF PendingStep, PendingTrue, Committing
    <2>5. pending_replies' \in [Server -> SUBSET Write] /\ acked' \subseteq Write
      BY <1>9, <2>1 DEF Committing, CommitTypes
    <2> QED BY <1>7, <2>3, <2>4, <2>5 DEF CommittingStep, CommitStep
  <1>11. CASE Peers(i) # {}
    <2>1. /\ pending_replies' = [pending_replies EXCEPT ![i] = pending_replies[i] \cup mine]
          /\ UNCHANGED <<commit_index, app_state, acked, chosen>>
      BY <1>3, <1>11
    <2>2. PendingStep
      <3> SUFFICES ASSUME NEW x \in Server, NEW w \in pending_replies'[x]
                   PROVE  /\ role'[x] = Leader
                          /\ \/ role[x] = Leader /\ w \in pending_replies[x]
                             \/ w.index \in 1 .. Len(log'[x]) /\ log'[x][w.index].command = w.command
        BY DEF PendingStep
      <3>1. w \in pending_replies[x] \/ (x = i /\ w \in mine)
        BY <2>1 DEF Committing, CommitTypes
      <3> QED BY <1>2, <1>7, <1>9, <3>1 DEF Committing, PendingTrue
    <2>3. pending_replies' \in [Server -> SUBSET Write] /\ acked' \subseteq Write
      BY <1>9, <2>1 DEF Committing, CommitTypes
    <2> QED BY <2>1, <2>2, <2>3 DEF CommittingStep, CommitStep
  <1> QED BY <1>10, <1>11

LEMMA AppendCommit ==
    ASSUME Committing, NEW m \in append_requests, NEW lost \in BOOLEAN, HandleAppendEntries(m, lost)
    PROVE  CommittingStep
  <1> DEFINE i == m.dest
             success == m.term >= current_term[i] /\ Matches(i, m)
             commits == success /\ m.leader_commit > commit_index[i]
             M == MergedLog(i, m)
             c == FollowerCommit(i, m)
  <1>1. /\ i \in Server /\ m.term \in Nat /\ current_term[i] \in Nat /\ m.leader_commit \in Nat
    BY DEF Committing, ElectionTypeOK, PlainInv, AppendRequest
  <1>2. UNCHANGED <<chosen, acked, elected>> /\ append_requests' \subseteq append_requests
    BY DEF HandleAppendEntries, ghostVars, Consume
  <1>3. IF m.term >= current_term[i]
        THEN /\ role' = [role EXCEPT ![i] = Follower]
             /\ current_term' = [current_term EXCEPT ![i] = m.term]
             /\ pending_replies' = [pending_replies EXCEPT ![i] =
                                      IF role[i] = Leader THEN {} ELSE pending_replies[i]]
        ELSE UNCHANGED <<role, current_term, pending_replies>>
    BY <1>1 DEF HandleAppendEntries, StepDown, termVars, clientVars, Committing, ElectionTypeOK
  <1>4. success => log' = [log EXCEPT ![i] = M]
    BY DEF HandleAppendEntries
  <1>5. IF commits THEN ApplyLogs(i, M, c) ELSE UNCHANGED <<commit_index, app_state>>
    BY DEF HandleAppendEntries, applyVars
  <1>6. role[i] # Leader => pending_replies[i] = {}
    BY <1>1 DEF Committing, PendingTrue
  <1>7. /\ \A x \in Server : \/ pending_replies'[x] = {}
                             \/ pending_replies'[x] = pending_replies[x] /\ role'[x] = role[x]
        /\ pending_replies' \in [Server -> SUBSET Write]
    BY <1>1, <1>3, <1>6 DEF Committing, CommitTypes, ElectionTypeOK
  <1>8. CASE ~commits
    <2> HIDE DEF commits
    <2> QED BY <1>2, <1>5, <1>7, <1>8, QuietCommit
  <1>9. CASE commits
    <2>1. Merges(m)
      BY <1>2, <1>3, <1>4, <1>9 DEF Merges
    <2>2. log'[i] = M
      BY <1>1, <1>4, <1>9 DEF Committing, PlainInv
    <2>3. Len(log'[i]) \in Nat /\ last_included_index[i] = 0
      BY <1>1, PlainFacts DEF Committing, PlainInv
    <2>4. c = IF m.leader_commit <= Len(log'[i]) THEN m.leader_commit ELSE Len(log'[i])
      BY <2>2, <2>3 DEF FollowerCommit
    <2>5. c \in Nat /\ c <= Len(log'[i])
      BY <1>1, <2>3, <2>4
    <2>6. ApplyLogs(i, log'[i], c)
      BY <1>5, <1>9, <2>2
    <2> HIDE DEF c, M
    <2>7. Applies(i, c)
      BY <1>1, <2>5, <2>6, ApplyFacts
    <2>8. FollowerCommits(m, c)
      BY <1>1, <1>2, <1>9, <2>1, <2>4, <2>7 DEF FollowerCommits, Committing, PlainInv
    <2>9. PendingStep
      BY <1>7 DEF PendingStep, PendingTrue, Committing
    <2> QED BY <1>2, <1>7, <2>5, <2>8, <2>9 DEF CommittingStep, CommitStep, Committing, CommitTypes
  <1> QED BY <1>8, <1>9

LEMMA MajorityGrows ==
    ASSUME NEW S \in SUBSET Server, NEW T \in SUBSET Server, S \subseteq T, HasMajority(S)
    PROVE  HasMajority(T)
  <1>1. IsFiniteSet(Server) /\ IsFiniteSet(T) /\ IsFiniteSet(S)
    BY ServerAssumption, FS_Subset
  <1>2. /\ Cardinality(S) <= Cardinality(T)
        /\ Cardinality(S) \in Nat /\ Cardinality(T) \in Nat /\ Cardinality(Server) \in Nat
    BY <1>1, FS_Subset, FS_CardinalityType
  <1> QED BY <1>2 DEF HasMajority

LEMMA AppendReplyCommit ==
    ASSUME Committing, NEW m \in append_replies, HandleAppendEntriesResponse(m)
    PROVE  CommittingStep
  <1> DEFINE i == m.dest
             mine == role[i] = Leader /\ m.term = current_term[i]
             mi == match_index'[i]
             new == {k \in AgreedIndices(i, mi) : Committable(i, mi, k)}
             c == CHOOSE k \in new : TRUE
  <1>1. i \in Server /\ m.term \in Nat /\ current_term[i] \in Nat
    BY DEF Committing, ElectionTypeOK
  <1>2. CASE ~mine
    <2>1. \/ StepDownOnReply(i, m.term)
          \/ UNCHANGED <<termVars, diskVars, role, log, applyVars, voters, leaderVars,
                         clientVars, ghostVars, counterVars>>
      BY <1>2 DEF HandleAppendEntriesResponse
    <2> QED BY <1>1, <2>1, SteppedDownCommit
  <1>3. CASE mine /\ new = {}
    <2>1. UNCHANGED <<commit_index, app_state, pending_replies, acked, chosen, role>>
      BY <1>3 DEF HandleAppendEntriesResponse, AdvanceCommit, applyVars
    <2> QED BY <2>1, QuietCommit DEF Committing, CommitTypes
  <1>4. CASE mine /\ new # {}
    <2>1. /\ role[i] = Leader /\ UNCHANGED <<role, current_term, log>>
          /\ ApplyLogs(i, log[i], c) /\ AnswerWrites(i, c) /\ Choose(i, current_term[i], log[i], c)
      BY <1>4 DEF HandleAppendEntriesResponse, AdvanceCommit, termVars
    <2>2. c \in AgreedIndices(i, mi) /\ Committable(i, mi, c)
      <3>1. c \in new
        <4> HIDE DEF new
        <4> QED BY <1>4
      <3> QED BY <3>1
    <2> HIDE DEF c, new
    <2>3. mi \in [Server -> Nat]
      BY <1>1 DEF Committing, PlainInv
    <2>4. /\ LastIndex(i) = Len(log[i]) /\ Len(log[i]) \in Nat /\ commit_index[i] \in Nat
          /\ \A k \in 1 .. Len(log[i]) : TermAt(i, k) = log[i][k].term
      BY <1>1, PlainFacts DEF Committing, PlainInv
    <2> HIDE DEF mi
    <2>5. PICK Q \in SUBSET Server : HasMajority(Q) /\ \A p \in Q :
                c <= IF p = i THEN LastIndex(i) ELSE mi[p]
      BY <1>1, <2>2, <2>3, <2>4, AgreedFacts
    <2>6. c \in Nat
      BY <1>1, <2>2, <2>3, <2>4, AgreedFacts
    <2>7. commit_index[i] < c /\ c <= Len(log[i]) /\ log[i][c].term = current_term[i]
      <3>1. c > commit_index[i] /\ c <= LastIndex(i) /\ TermAt(i, c) = current_term[i]
        BY <2>2 DEF Committable
      <3>2. c \in 1 .. Len(log[i])
        BY <2>4, <2>6, <3>1
      <3> QED BY <2>4, <2>6, <3>1, <3>2
    <2>8. HasMajority({j \in Server : j = i \/ c <= match_index'[i][j]})
      <3> DEFINE S == {j \in Server : j = i \/ c <= mi[j]}
      <3>1. S \in SUBSET Server /\ Q \subseteq S
        BY <2>5
      <3> HIDE DEF S
      <3>2. HasMajority(S)
        BY <2>5, <3>1, MajorityGrows
      <3> QED BY <3>2 DEF S, mi
    <2>9. Applies(i, c)
      BY <1>1, <2>1, <2>6, <2>7, ApplyFacts
    <2>10. chosen' = chosen \o [k \in 1 .. (c - Len(chosen)) |->
                              [entry |-> log'[i][Len(chosen) + k], at |-> current_term'[i]]]
      BY <1>1, <2>1, <2>6, ChooseFacts
    <2>11. /\ acked' = acked \cup {w \in pending_replies[i] : w.index <= c}
           /\ pending_replies' = [pending_replies EXCEPT ![i] =
                                    pending_replies[i] \ {w \in pending_replies[i] : w.index <= c}]
      BY <2>1 DEF AnswerWrites
    <2>12. \A w \in acked' \ acked : w.index \in 1 .. c /\ log'[i][w.index].command = w.command
      <3> SUFFICES ASSUME NEW w \in acked' \ acked
                   PROVE  w.index \in 1 .. c /\ log'[i][w.index].command = w.command
        OBVIOUS
      <3>1. w \in pending_replies[i] /\ w.index <= c
        BY <2>11
      <3>2. w.index \in 1 .. Len(log[i]) /\ log[i][w.index].command = w.command
        BY <1>1, <3>1 DEF Committing, PendingTrue
      <3>3. w.index \in 1 .. c
        BY <2>4, <2>6, <3>1, <3>2
      <3> QED BY <2>1, <3>2, <3>3
    <2>13. LeaderCommits(i, c)
      BY <2>1, <2>7, <2>8, <2>9, <2>10, <2>11, <2>12 DEF LeaderCommits
    <2>14. PendingStep
      <3>1. \A x \in Server : pending_replies'[x] \subseteq pending_replies[x]
        BY <2>11 DEF Committing, CommitTypes
      <3> QED BY <2>1, <3>1 DEF PendingStep, PendingTrue, Committing
    <2>15. pending_replies' \in [Server -> SUBSET Write] /\ acked' \subseteq Write
      BY <1>1, <2>11 DEF Committing, CommitTypes
    <2> QED BY <1>1, <2>6, <2>13, <2>14, <2>15 DEF CommittingStep, CommitStep
  <1> QED BY <1>2, <1>3, <1>4

LEMMA CommitNext ==
    ASSUME Committing, [Next]_vars
    PROVE  CommittingStep
  <1>1. snap_requests = {} /\ snap_replies = {}
    BY DEF Committing, PlainInv
  <1>2. ASSUME NEW i \in Server, Restart(i) \/ CrashInStartElection(i) PROVE CommittingStep
    BY <1>2, RebootCommit DEF Restart, CrashInStartElection
  <1>3. ASSUME NEW i \in Server, CrashInCreateSnapshot(i) PROVE FALSE
    <2>1. last_included_index' = [last_included_index EXCEPT ![i] = last_applied[i]]
      BY <1>3 DEF CrashInCreateSnapshot, Reboot
    <2>2. last_applied[i] > 0 /\ last_applied[i] \in Nat
      BY <1>3 DEF CrashInCreateSnapshot, NeedsSnapshot, NothingCompacted, PlainInv, Committing
    <2>3. last_included_index'[i] = last_applied[i]
      BY <2>1 DEF NothingCompacted, Committing
    <2>4. last_included_index'[i] = 0
      BY DEF NothingCompacted, Committing
    <2> QED BY <2>2, <2>3, <2>4
  <1>4. ASSUME NEW m \in vote_requests \cup append_requests \cup snap_requests
                     \cup vote_replies \cup append_replies \cup snap_replies, CrashInStepDown(m)
        PROVE  CommittingStep
    <2>1. m.dest \in Server
      BY DEF Committing, ElectionTypeOK
    <2>2. PICK v \in {voted_for[m.dest], Nil} :
            Reboot(m.dest, m.term, v, db_log[m.dest], last_included_index[m.dest],
                   last_included_term[m.dest], snapshot_data[m.dest])
      BY <1>4 DEF CrashInStepDown
    <2> QED BY <2>1, <2>2, RebootCommit
  <1>5. ASSUME NEW m \in append_requests, CrashInTruncate(m) PROVE FALSE
    BY <1>5 DEF CrashInTruncate, NothingCompacted, Committing
  <1>6. ASSUME NEW i \in Server,
               \/ ElectionTimeout(i) \/ SoleMemberElection(i) \/ QuietTick(i) \/ LeaderTick(i)
               \/ \E b \in Batches : ClientRequest(i, b)
               \/ GetReadIndex(i)
        PROVE  CommittingStep
    BY <1>6, TickCommit, SoleElectionCommit, ClientCommit
  <1>7. ASSUME NEW lost \in BOOLEAN,
               \/ \E m \in vote_requests : HandleRequestVote(m, lost)
               \/ \E m \in append_requests : HandleAppendEntries(m, lost)
        PROVE  CommittingStep
    BY <1>7, VoteCommit, AppendCommit
  <1>8. ASSUME \/ \E m \in vote_replies : HandleRequestVoteResponse(m)
               \/ \E m \in append_replies : HandleAppendEntriesResponse(m)
               \/ LoseExchange
        PROVE  CommittingStep
    BY <1>8, VoteCommit, AppendReplyCommit
  <1>9. CASE UNCHANGED vars
    <2>1. UNCHANGED <<commit_index, app_state, chosen, acked, pending_replies, role>>
      BY <1>9 DEF vars, applyVars, ghostVars, clientVars
    <2> QED BY <2>1, QuietCommit DEF Committing, CommitTypes
  <1> QED BY <1>1, <1>2, <1>3, <1>4, <1>5, <1>6, <1>7, <1>8, <1>9 DEF Next
=============================================================================

-------------------------- MODULE SimpleRaftProofs --------------------------
(***************************************************************************)
(* Proofs about SimpleRaft, for every number of servers, every bound and    *)
(* every choice of crash windows, with compaction: no term has two leaders, *)
(* and the whole state keeps its types while no node counts an index as     *)
(* committed that its log does not reach.                                   *)
(*                                                                         *)
(* The argument is about votes.  A vote for c in term t by v is Cast if it *)
(* can still be counted, has been counted or is v's vote now.  A vote that *)
(* is cast is never contradicted (VotesHonest), because a server's term    *)
(* only rises and its vote within a term is never changed (VoteKept); so   *)
(* no server has cast two votes in a term (OneVoteEach), and two leaders   *)
(* of one term would need a common voter.                                  *)
(***************************************************************************)
EXTENDS SimpleRaft, FiniteSetTheorems, SequenceTheorems, WellFoundedInduction, TLAPS

Cast(v, t, c) ==
    \/ current_term[v] = t /\ voted_for[v] = c
    \/ \E m \in vote_replies : m.vote_granted /\ m.peer_id = v /\ m.term = t /\ m.dest = c
    \/ role[c] = Candidate /\ current_term[c] = t /\ v \in voters[c]
    \/ \E e \in elected : e.term = t /\ e.leader = c /\ v \in e.voters

\* A vote that was cast is the vote its server still has, or of an earlier term.
VotesHonest ==
    \A v, c \in Server : \A t \in Nat : Cast(v, t, c) =>
      current_term[v] > t \/ (current_term[v] = t /\ voted_for[v] = c)

\* A server casts one vote in a term.
OneVoteEach ==
    \A v, c, d \in Server : \A t \in Nat : (Cast(v, t, c) /\ Cast(v, t, d)) => c = d

\* A leader was elected by a majority.
ElectedByMajority == \A e \in elected : HasMajority(e.voters)

ElectionInv == ElectionTypeOK /\ VotesHonest /\ OneVoteEach /\ ElectedByMajority

-----------------------------------------------------------------------------
(* What a step may do to the votes.                                        *)

\* Terms only rise, and a vote is only changed by a new term.
VoteKept(v) ==
    /\ current_term[v] <= current_term'[v]
    /\ (current_term'[v] = current_term[v] /\ voted_for[v] # Nil) => voted_for'[v] = voted_for[v]

\* Server v has, after the step, the vote c in term t.
Votes(v, t, c) == current_term'[v] = t /\ voted_for'[v] = c

\* Votes granted, counted and recorded by the step are cast.
RepliesTrue ==
    \A m \in vote_replies' : m.vote_granted =>
      m \in vote_replies \/ Votes(m.peer_id, m.term, m.dest)

VotersTrue ==
    \A c \in Server : role'[c] = Candidate => \A v \in voters'[c] :
      Cast(v, current_term'[c], c) \/ Votes(v, current_term'[c], c)

LeadersTrue ==
    \A e \in elected' : e \in elected \/
      (HasMajority(e.voters) /\ \A v \in e.voters : Cast(v, e.term, e.leader) \/ Votes(v, e.term, e.leader))

VoteStep == (\A v \in Server : VoteKept(v)) /\ RepliesTrue /\ VotersTrue /\ LeadersTrue

-----------------------------------------------------------------------------
(* One lemma per kind of step: it keeps the types and it is a VoteStep.    *)

\* A step in which nobody becomes candidate or leader.
LEMMA NoCandidacyStep ==
    ASSUME ElectionTypeOK,
           \A v \in Server : VoteKept(v),
           \A c \in Server : role'[c] = Candidate =>
             role[c] = Candidate /\ current_term'[c] = current_term[c],
           UNCHANGED <<voters, elected>>,
           RepliesTrue
    PROVE  VoteStep
  <1>1. VotersTrue
    BY DEF VotersTrue, Cast
  <1>2. LeadersTrue
    BY DEF LeadersTrue
  <1> QED BY <1>1, <1>2 DEF VoteStep

\* A step that leaves votes and roles alone and sends no vote.
LEMMA QuietStep ==
    ASSUME ElectionTypeOK,
           UNCHANGED <<current_term, voted_for, role, voters, elected>>,
           vote_replies' \subseteq vote_replies
    PROVE  VoteStep
  <1>1. \A v \in Server : VoteKept(v)
    BY DEF ElectionTypeOK, VoteKept
  <1>2. RepliesTrue
    BY DEF RepliesTrue
  <1> QED BY <1>1, <1>2, NoCandidacyStep

\* What send_heartbeats adds to the network.
LEMMA SendHeartbeatsTypes ==
    ASSUME ElectionTypeOK, NEW i \in Server, NEW L, NEW c, SendHeartbeats(i, L, c)
    PROVE  /\ \A m \in append_requests' \cup snap_requests' :
                m.term \in Nat /\ m.dest \in Server /\ m.leader_id \in Server
           /\ UNCHANGED <<append_replies, snap_replies>>
  <1>1. \A j \in Server : LET m == SnapshotArgs(i, j) IN
          m.term \in Nat /\ m.dest \in Server /\ m.leader_id \in Server
    BY DEF ElectionTypeOK, SnapshotArgs
  <1>2. \A j \in Server : LET m == AppendArgs(i, j, L, c) IN
          m.term \in Nat /\ m.dest \in Server /\ m.leader_id \in Server
    BY DEF ElectionTypeOK, AppendArgs
  <1> QED BY <1>1, <1>2 DEF SendHeartbeats, ElectionTypeOK, Peers

\* Ticks and client requests that leave the votes alone.
LEMMA LocalStep ==
    ASSUME ElectionTypeOK, NEW i \in Server,
           QuietTick(i) \/ LeaderTick(i) \/ (\E b \in Batches : ClientRequest(i, b)) \/ GetReadIndex(i)
    PROVE  ElectionTypeOK' /\ VoteStep
  <1>1. UNCHANGED <<current_term, voted_for, role, voters, elected, vote_requests, vote_replies>>
    BY DEF QuietTick, LeaderTick, ClientRequest, GetReadIndex, ServeReads, termVars, voteMsgs,
           ghostVars
  <1>2. /\ \A m \in append_requests' \cup snap_requests' :
             m.term \in Nat /\ m.dest \in Server /\ m.leader_id \in Server
        /\ UNCHANGED <<append_replies, snap_replies>>
    <2>1. CASE QuietTick(i)
      BY <2>1 DEF QuietTick, appendMsgs, snapMsgs, ElectionTypeOK
    <2>2. CASE LeaderTick(i)
      BY <2>2, SendHeartbeatsTypes DEF LeaderTick
    <2>3. ASSUME NEW b \in Batches, ClientRequest(i, b) PROVE <1>2
      <3>1. CASE Peers(i) = {}
        BY <2>3, <3>1 DEF ClientRequest, appendMsgs, snapMsgs, ElectionTypeOK
      <3>2. CASE Peers(i) # {}
        BY <2>3, <3>2, SendHeartbeatsTypes DEF ClientRequest
      <3> QED BY <3>1, <3>2
    <2>4. CASE GetReadIndex(i)
      BY <2>4, SendHeartbeatsTypes DEF GetReadIndex
    <2> QED BY <2>1, <2>2, <2>3, <2>4
  <1>3. ElectionTypeOK'
    BY <1>1, <1>2 DEF ElectionTypeOK
  <1> QED BY <1>1, <1>3, QuietStep

LEMMA ElectionTimeoutStep ==
    ASSUME ElectionTypeOK, NEW i \in Server, ElectionTimeout(i)
    PROVE  ElectionTypeOK' /\ VoteStep
  <1>1. /\ current_term' = [current_term EXCEPT ![i] = @ + 1]
        /\ voted_for' = [voted_for EXCEPT ![i] = i]
        /\ role' = [role EXCEPT ![i] = Candidate]
        /\ voters' = [voters EXCEPT ![i] = {i}]
        /\ UNCHANGED <<elected, vote_replies, append_requests, append_replies, snap_requests,
                       snap_replies>>
    BY DEF ElectionTimeout, appendMsgs, snapMsgs, ghostVars
  <1>2. \A m \in vote_requests' : m.term \in Nat /\ m.dest \in Server /\ m.candidate_id \in Server
    BY DEF ElectionTimeout, ElectionTypeOK, Peers
  <1>3. ElectionTypeOK'
    BY <1>1, <1>2 DEF ElectionTypeOK
  <1>4. \A v \in Server : VoteKept(v)
    BY <1>1 DEF ElectionTypeOK, VoteKept
  <1>5. VotersTrue
    BY <1>1 DEF ElectionTypeOK, VotersTrue, Cast, Votes
  <1>6. RepliesTrue /\ LeadersTrue
    BY <1>1 DEF RepliesTrue, LeadersTrue
  <1> QED BY <1>3, <1>4, <1>5, <1>6 DEF VoteStep

LEMMA SoleMemberElectionStep ==
    ASSUME ElectionTypeOK, NEW i \in Server, SoleMemberElection(i)
    PROVE  ElectionTypeOK' /\ VoteStep
  <1> DEFINE e == [term |-> current_term[i] + 1, leader |-> i, voters |-> voters'[i]]
  <1>1. /\ current_term' = [current_term EXCEPT ![i] = current_term[i] + 1]
        /\ voted_for' = [voted_for EXCEPT ![i] = i]
        /\ role' = [role EXCEPT ![i] = Leader]
        /\ voters' = [voters EXCEPT ![i] = {i}]
        /\ elected' = elected \cup {e}
        /\ UNCHANGED <<vote_requests, vote_replies, append_requests, append_replies, snap_requests,
                       snap_replies>>
    BY DEF SoleMemberElection, BecomeLeader, voteMsgs, appendMsgs, snapMsgs
  <1>2. ElectionTypeOK'
    BY <1>1 DEF ElectionTypeOK
  <1>3. \A v \in Server : VoteKept(v)
    BY <1>1 DEF ElectionTypeOK, VoteKept
  <1>4. RepliesTrue /\ VotersTrue
    BY <1>1 DEF ElectionTypeOK, RepliesTrue, VotersTrue, Cast, Leader, Candidate
  <1>5. HasMajority({i})
    <2>1. Server = {i}
      BY DEF SoleMemberElection, Peers
    <2>2. Cardinality({i}) = 1
      BY FS_Singleton
    <2> QED BY <2>1, <2>2 DEF HasMajority
  <1>6. LeadersTrue
    <2>1. e.voters = {i}
      BY <1>1 DEF ElectionTypeOK
    <2>2. HasMajority(e.voters)
      BY <1>5, <2>1
    <2>3. \A v \in e.voters : Votes(v, e.term, e.leader)
      BY <1>1, <2>1 DEF ElectionTypeOK, Votes
    <2> HIDE DEF e
    <2> QED BY <1>1, <2>2, <2>3 DEF LeadersTrue
  <1> QED BY <1>2, <1>3, <1>4, <1>6 DEF VoteStep

LEMMA RequestVoteStep ==
    ASSUME ElectionTypeOK, NEW m \in vote_requests, NEW lost \in BOOLEAN,
           HandleRequestVote(m, lost)
    PROVE  ElectionTypeOK' /\ VoteStep
  <1> DEFINE i == m.dest
  <1> DEFINE r == [term |-> current_term'[i], vote_granted |-> GrantsVote(i, m), peer_id |-> i,
                   dest |-> m.candidate_id]
  <1>1. i \in Server /\ m.term \in Nat /\ m.candidate_id \in Server
    BY DEF ElectionTypeOK
  <1>2. /\ current_term' = [current_term EXCEPT ![i] = IF m.term > @ THEN m.term ELSE @]
        /\ role' = [role EXCEPT ![i] = IF m.term > current_term[i] THEN Follower ELSE @]
        /\ UNCHANGED <<voters, elected, append_requests, append_replies, snap_requests,
                       snap_replies>>
    BY <1>1 DEF HandleRequestVote, StepDown, ElectionTypeOK, ghostVars, appendMsgs, snapMsgs
  <1>3. voted_for' = [voted_for EXCEPT ![i] =
          IF GrantsVote(i, m) THEN m.candidate_id ELSE VoteAfter(i, m.term)]
    BY DEF HandleRequestVote
  <1>4. GrantsVote(i, m) \in BOOLEAN
    BY DEF GrantsVote
  <1>5. vote_requests' \subseteq vote_requests /\ vote_replies' \subseteq vote_replies \cup {r}
    BY DEF HandleRequestVote, Consume, Answer
  <1>6. ElectionTypeOK'
    <2>1. voted_for' \in [Server -> Server \cup {Nil}]
      BY <1>1, <1>3 DEF ElectionTypeOK, VoteAfter
    <2>2. r.term \in Nat /\ r.dest \in Server /\ r.peer_id \in Server /\ r.vote_granted \in BOOLEAN
      BY <1>1, <1>2, <1>4 DEF ElectionTypeOK
    <2>3. role' \in [Server -> {Follower, Candidate, Leader}]
      BY <1>1, <1>2 DEF ElectionTypeOK
    <2> HIDE DEF r
    <2> QED BY <1>1, <1>2, <1>5, <2>1, <2>2, <2>3 DEF ElectionTypeOK
  <1>7. \A v \in Server : VoteKept(v)
    BY <1>1, <1>2, <1>3 DEF ElectionTypeOK, VoteKept, GrantsVote, VoteAfter
  <1>8. RepliesTrue
    BY <1>1, <1>2, <1>3, <1>5 DEF ElectionTypeOK, RepliesTrue, Votes, GrantsVote
  <1>9. \A c \in Server : role'[c] = Candidate =>
          role[c] = Candidate /\ current_term'[c] = current_term[c]
    BY <1>1, <1>2 DEF ElectionTypeOK, Follower, Candidate
  <1> QED BY <1>2, <1>6, <1>7, <1>8, <1>9, NoCandidacyStep

\* A server that may adopt a higher term and stays, or becomes, a follower.
LEMMA ReceiverStep ==
    ASSUME ElectionTypeOK, NEW i \in Server, NEW t \in Nat,
           role' = [role EXCEPT ![i] = Follower],
           current_term' = [current_term EXCEPT ![i] = IF t > @ THEN t ELSE @],
           voted_for' = [voted_for EXCEPT ![i] = VoteAfter(i, t)],
           UNCHANGED <<voters, elected>>,
           vote_replies' \subseteq vote_replies
    PROVE  /\ VoteStep
           /\ current_term' \in [Server -> Nat]
           /\ voted_for' \in [Server -> Server \cup {Nil}]
           /\ role' \in [Server -> {Follower, Candidate, Leader}]
  <1>1. \A v \in Server : VoteKept(v)
    BY DEF ElectionTypeOK, VoteKept, VoteAfter
  <1>2. RepliesTrue
    BY DEF RepliesTrue
  <1>3. \A c \in Server : role'[c] = Candidate =>
          role[c] = Candidate /\ current_term'[c] = current_term[c]
    BY DEF ElectionTypeOK, Follower, Candidate
  <1>4. VoteStep
    BY <1>1, <1>2, <1>3, NoCandidacyStep
  <1> QED BY <1>4 DEF ElectionTypeOK, VoteAfter

LEMMA AppendEntriesStep ==
    ASSUME ElectionTypeOK, NEW m \in append_requests, NEW lost \in BOOLEAN,
           HandleAppendEntries(m, lost)
    PROVE  ElectionTypeOK' /\ VoteStep
  <1> DEFINE i == m.dest
  <1>1. i \in Server /\ m.term \in Nat /\ m.leader_id \in Server
    BY DEF ElectionTypeOK
  <1>2. /\ UNCHANGED <<voters, elected, vote_requests, vote_replies, snap_requests, snap_replies>>
        /\ append_requests' \subseteq append_requests
    BY DEF HandleAppendEntries, ghostVars, voteMsgs, snapMsgs, Consume
  <1>3. /\ VoteStep
        /\ current_term' \in [Server -> Nat]
        /\ voted_for' \in [Server -> Server \cup {Nil}]
        /\ role' \in [Server -> {Follower, Candidate, Leader}]
    <2>1. CASE m.term >= current_term[i]
      <3>1. /\ role' = [role EXCEPT ![i] = Follower]
            /\ current_term' = [current_term EXCEPT ![i] = IF m.term > @ THEN m.term ELSE @]
            /\ voted_for' = [voted_for EXCEPT ![i] = VoteAfter(i, m.term)]
        BY <2>1 DEF HandleAppendEntries, StepDown
      <3> QED BY <1>1, <1>2, <3>1, ReceiverStep
    <2>2. CASE ~(m.term >= current_term[i])
      <3>1. UNCHANGED <<role, current_term, voted_for>>
        BY <2>2 DEF HandleAppendEntries, termVars
      <3> QED BY <1>2, <3>1, QuietStep DEF ElectionTypeOK
    <2> QED BY <2>1, <2>2
  <1>4. \A r \in append_replies' : r.term \in Nat /\ r.dest \in Server
    BY <1>1, <1>3 DEF HandleAppendEntries, Answer, ElectionTypeOK
  <1>5. ElectionTypeOK'
    BY <1>2, <1>3, <1>4 DEF ElectionTypeOK
  <1> QED BY <1>3, <1>5

LEMMA InstallSnapshotStep ==
    ASSUME ElectionTypeOK, NEW m \in snap_requests, NEW lost \in BOOLEAN,
           HandleInstallSnapshot(m, lost)
    PROVE  ElectionTypeOK' /\ VoteStep
  <1> DEFINE i == m.dest
  <1>1. i \in Server /\ m.term \in Nat /\ m.leader_id \in Server
    BY DEF ElectionTypeOK
  <1>2. /\ UNCHANGED <<voters, elected, vote_requests, vote_replies, append_requests,
                       append_replies>>
        /\ snap_requests' \subseteq snap_requests
    BY DEF HandleInstallSnapshot, ghostVars, voteMsgs, appendMsgs, Consume
  <1>3. /\ VoteStep
        /\ current_term' \in [Server -> Nat]
        /\ voted_for' \in [Server -> Server \cup {Nil}]
        /\ role' \in [Server -> {Follower, Candidate, Leader}]
    <2>1. CASE m.term >= current_term[i]
      <3>1. /\ role' = [role EXCEPT ![i] = Follower]
            /\ current_term' = [current_term EXCEPT ![i] = IF m.term > @ THEN m.term ELSE @]
            /\ voted_for' = [voted_for EXCEPT ![i] = VoteAfter(i, m.term)]
        BY <2>1 DEF HandleInstallSnapshot, StepDown
      <3> QED BY <1>1, <1>2, <3>1, ReceiverStep
    <2>2. CASE ~(m.term >= current_term[i])
      <3>1. UNCHANGED <<role, current_term, voted_for>>
        BY <2>2 DEF HandleInstallSnapshot, termVars
      <3> QED BY <1>2, <3>1, QuietStep DEF ElectionTypeOK
    <2> QED BY <2>1, <2>2
  <1>4. \A r \in snap_replies' : r.term \in Nat /\ r.dest \in Server
    BY <1>1, <1>3 DEF HandleInstallSnapshot, Answer, ElectionTypeOK
  <1>5. ElectionTypeOK'
    BY <1>2, <1>3, <1>4 DEF ElectionTypeOK
  <1> QED BY <1>3, <1>5

\* A vote is counted; the one that completes a majority makes a leader.
LEMMA RequestVoteResponseStep ==
    ASSUME ElectionTypeOK, NEW m \in vote_replies, HandleRequestVoteResponse(m)
    PROVE  ElectionTypeOK' /\ VoteStep
  <1> DEFINE i == m.dest
             all == voters[i] \cup {m.peer_id}
             counts == role[i] = Candidate /\ m.term = current_term[i] /\ m.vote_granted
  <1>1. /\ i \in Server /\ m.term \in Nat /\ m.peer_id \in Server
        /\ all \subseteq Server
    BY DEF ElectionTypeOK
  <1>2. /\ vote_replies' \subseteq vote_replies
        /\ UNCHANGED <<vote_requests, append_requests, append_replies, snap_requests, snap_replies>>
    BY DEF HandleRequestVoteResponse, appendMsgs, snapMsgs
  <1>3. CASE counts
    <2>1. /\ UNCHANGED <<current_term, voted_for>>
          /\ voters' = [voters EXCEPT ![i] = all]
      BY <1>3 DEF HandleRequestVoteResponse, termVars, StepDownOnReply
    <2>2. \A v \in all : Cast(v, current_term[i], i)
      BY <1>3 DEF Cast
    <2>3. (\A v \in Server : VoteKept(v)) /\ RepliesTrue
      BY <1>2, <2>1 DEF ElectionTypeOK, VoteKept, RepliesTrue
    <2>4. CASE HasMajority(all)
      <3> DEFINE e == [term |-> current_term[i], leader |-> i, voters |-> all]
      <3>1. role' = [role EXCEPT ![i] = Leader] /\ elected' = elected \cup {e}
        BY <1>1, <1>3, <2>1, <2>4 DEF HandleRequestVoteResponse, BecomeLeader, ElectionTypeOK
      <3>2. ElectionTypeOK'
        BY <1>1, <1>2, <2>1, <3>1 DEF ElectionTypeOK
      <3>3. VotersTrue
        BY <1>1, <2>1, <3>1 DEF ElectionTypeOK, VotersTrue, Cast, Leader, Candidate
      <3>4. LeadersTrue
        <4>1. HasMajority(e.voters) /\ \A v \in e.voters : Cast(v, e.term, e.leader)
          BY <2>2, <2>4
        <4> HIDE DEF e
        <4> QED BY <3>1, <4>1 DEF LeadersTrue
      <3> QED BY <2>3, <3>2, <3>3, <3>4 DEF VoteStep
    <2>5. CASE ~HasMajority(all)
      <3>1. UNCHANGED <<role, elected>>
        BY <1>3, <2>5 DEF HandleRequestVoteResponse
      <3>2. ElectionTypeOK'
        BY <1>1, <1>2, <2>1, <3>1 DEF ElectionTypeOK
      <3>3. VotersTrue
        <4> SUFFICES ASSUME NEW c \in Server, role'[c] = Candidate, NEW v \in voters'[c]
                     PROVE  Cast(v, current_term'[c], c)
          BY DEF VotersTrue
        <4>1. CASE c = i
          BY <1>1, <2>1, <2>2, <4>1 DEF ElectionTypeOK
        <4>2. CASE c # i
          BY <1>1, <2>1, <3>1, <4>2 DEF ElectionTypeOK, Cast
        <4> QED BY <4>1, <4>2
      <3>4. LeadersTrue
        BY <3>1 DEF LeadersTrue
      <3> QED BY <2>3, <3>2, <3>3, <3>4 DEF VoteStep
    <2> QED BY <2>4, <2>5
  <1>4. CASE ~counts /\ m.term > current_term[i]
    <2>1. StepDownOnReply(i, m.term)
      BY <1>1, <1>4 DEF HandleRequestVoteResponse, ElectionTypeOK
    <2>2. /\ role' = [role EXCEPT ![i] = Follower]
          /\ current_term' = [current_term EXCEPT ![i] = IF m.term > @ THEN m.term ELSE @]
          /\ voted_for' = [voted_for EXCEPT ![i] = VoteAfter(i, m.term)]
          /\ UNCHANGED <<voters, elected>>
      BY <2>1 DEF StepDownOnReply, StepDown, ghostVars
    <2> QED BY <1>1, <1>2, <2>2, ReceiverStep DEF ElectionTypeOK
  <1>5. CASE ~counts /\ ~(m.term > current_term[i])
    <2>1. UNCHANGED <<current_term, voted_for, role, voters, elected>>
      BY <1>1, <1>5 DEF HandleRequestVoteResponse, termVars, ghostVars
    <2> QED BY <1>2, <2>1, QuietStep DEF ElectionTypeOK
  <1> QED BY <1>3, <1>4, <1>5

\* The replies of AppendEntries and InstallSnapshot: a higher term, or no vote.
LEMMA OtherReplyStep ==
    ASSUME ElectionTypeOK,
           \/ \E m \in append_replies : HandleAppendEntriesResponse(m)
           \/ \E m \in snap_replies : HandleInstallSnapshotResponse(m)
    PROVE  ElectionTypeOK' /\ VoteStep
  <1>1. PICK m \in append_replies \cup snap_replies :
          HandleAppendEntriesResponse(m) \/ HandleInstallSnapshotResponse(m)
    OBVIOUS
  <1> DEFINE i == m.dest
  <1>2. i \in Server /\ m.term \in Nat
    BY DEF ElectionTypeOK
  <1>3. /\ UNCHANGED <<vote_requests, vote_replies, append_requests, snap_requests>>
        /\ append_replies' \subseteq append_replies /\ snap_replies' \subseteq snap_replies
    BY <1>1 DEF HandleAppendEntriesResponse, HandleInstallSnapshotResponse, voteMsgs, snapMsgs,
                appendMsgs
  <1>4. CASE StepDownOnReply(i, m.term)
    <2>1. /\ role' = [role EXCEPT ![i] = Follower]
          /\ current_term' = [current_term EXCEPT ![i] = IF m.term > @ THEN m.term ELSE @]
          /\ voted_for' = [voted_for EXCEPT ![i] = VoteAfter(i, m.term)]
          /\ UNCHANGED <<voters, elected>>
      BY <1>4 DEF StepDownOnReply, StepDown, ghostVars
    <2> QED BY <1>2, <1>3, <2>1, ReceiverStep DEF ElectionTypeOK
  <1>5. CASE ~StepDownOnReply(i, m.term)
    <2>1. UNCHANGED <<current_term, voted_for, role, voters, elected>>
      BY <1>1, <1>5 DEF HandleAppendEntriesResponse, HandleInstallSnapshotResponse, termVars, ghostVars
    <2> QED BY <1>3, <2>1, QuietStep DEF ElectionTypeOK
  <1> QED BY <1>4, <1>5

LEMMA LoseExchangeStep ==
    ASSUME ElectionTypeOK, LoseExchange
    PROVE  ElectionTypeOK' /\ VoteStep
  <1>1. UNCHANGED <<current_term, voted_for, role, voters, elected>>
    BY DEF LoseExchange, termVars, ghostVars
  <1>2. /\ vote_requests' \subseteq vote_requests /\ vote_replies' \subseteq vote_replies
        /\ append_requests' \subseteq append_requests /\ append_replies' \subseteq append_replies
        /\ snap_requests' \subseteq snap_requests /\ snap_replies' \subseteq snap_replies
    BY DEF LoseExchange, voteMsgs, appendMsgs, snapMsgs
  <1> QED BY <1>1, <1>2, QuietStep DEF ElectionTypeOK

\* A restart from a database whose term is no older and whose vote is the last one
\* of that term, if there was one.
LEMMA RebootStep ==
    ASSUME ElectionTypeOK, NEW i \in Server, NEW t \in Nat, NEW v \in Server \cup {Nil},
           NEW D, NEW lii, NEW lit, NEW data, Reboot(i, t, v, D, lii, lit, data),
           t >= current_term[i],
           (t = current_term[i] /\ voted_for[i] # Nil) => v = voted_for[i]
    PROVE  ElectionTypeOK' /\ VoteStep
  <1>1. /\ current_term' = [current_term EXCEPT ![i] = t]
        /\ voted_for' = [voted_for EXCEPT ![i] = v]
        /\ role' = [role EXCEPT ![i] = Follower]
        /\ voters' = [voters EXCEPT ![i] = {}]
        /\ UNCHANGED <<elected, vote_requests, append_requests, snap_requests>>
        /\ vote_replies' \subseteq vote_replies
        /\ append_replies' \subseteq append_replies
        /\ snap_replies' \subseteq snap_replies
    BY DEF Reboot, ghostVars
  <1>2. ElectionTypeOK'
    BY <1>1 DEF ElectionTypeOK
  <1>3. \A u \in Server : VoteKept(u)
    BY <1>1 DEF ElectionTypeOK, VoteKept
  <1>4. RepliesTrue /\ LeadersTrue
    BY <1>1 DEF RepliesTrue, LeadersTrue
  <1>5. VotersTrue
    BY <1>1 DEF ElectionTypeOK, VotersTrue, Cast, Follower, Candidate
  <1> QED BY <1>2, <1>3, <1>4, <1>5 DEF VoteStep

\* A crash between two events or within one.
LEMMA CrashStep ==
    ASSUME ElectionTypeOK,
           \/ \E i \in Server : Restart(i) \/ CrashInStartElection(i) \/ CrashInCreateSnapshot(i)
           \/ \E m \in vote_requests \cup append_requests \cup snap_requests
                   \cup vote_replies \cup append_replies \cup snap_replies : CrashInStepDown(m)
           \/ \E m \in append_requests : CrashInTruncate(m)
           \/ \E m \in snap_requests : CrashInInstallSnapshot(m)
    PROVE  ElectionTypeOK' /\ VoteStep
  <1>1. ASSUME NEW i \in Server, Restart(i) PROVE ElectionTypeOK' /\ VoteStep
    BY <1>1, RebootStep DEF Restart, ElectionTypeOK
  <1>2. ASSUME NEW i \in Server, CrashInStartElection(i) PROVE ElectionTypeOK' /\ VoteStep
    <2>1. /\ current_term[i] + 1 \in Nat /\ current_term[i] + 1 >= current_term[i]
          /\ current_term[i] + 1 # current_term[i]
          /\ voted_for[i] \in Server \cup {Nil}
      BY DEF ElectionTypeOK
    <2>2. Reboot(i, current_term[i] + 1, voted_for[i], db_log[i], last_included_index[i],
                 last_included_term[i], snapshot_data[i])
      BY <1>2 DEF CrashInStartElection
    <2> QED BY <2>1, <2>2, RebootStep
  <1>3. ASSUME NEW i \in Server, CrashInCreateSnapshot(i) PROVE ElectionTypeOK' /\ VoteStep
    <2>1. /\ current_term[i] \in Nat /\ current_term[i] >= current_term[i]
          /\ voted_for[i] \in Server \cup {Nil}
      BY DEF ElectionTypeOK
    <2>2. Reboot(i, current_term[i], voted_for[i], db_log[i], last_applied[i],
                 TermAt(i, last_applied[i]), snapshot_data[i])
      BY <1>3 DEF CrashInCreateSnapshot
    <2> QED BY <2>1, <2>2, RebootStep
  <1>4. ASSUME NEW m \in vote_requests \cup append_requests \cup snap_requests
                     \cup vote_replies \cup append_replies \cup snap_replies, CrashInStepDown(m)
        PROVE  ElectionTypeOK' /\ VoteStep
    <2>1. /\ m.term \in Nat /\ m.dest \in Server
          /\ m.term >= current_term[m.dest] /\ m.term # current_term[m.dest]
      BY <1>4 DEF ElectionTypeOK, CrashInStepDown
    <2>2. PICK v \in {voted_for[m.dest], Nil} :
            Reboot(m.dest, m.term, v, db_log[m.dest], last_included_index[m.dest],
                   last_included_term[m.dest], snapshot_data[m.dest])
      BY <1>4 DEF CrashInStepDown
    <2>3. v \in Server \cup {Nil}
      BY <2>1 DEF ElectionTypeOK
    <2> QED BY <2>1, <2>2, <2>3, RebootStep
  <1>5. ASSUME NEW m \in append_requests, CrashInTruncate(m) PROVE ElectionTypeOK' /\ VoteStep
    <2>1. m.term \in Nat /\ m.dest \in Server /\ m.term >= current_term[m.dest]
      BY <1>5 DEF ElectionTypeOK, CrashInTruncate
    <2>2. PICK k \in ConflictKeys(m.dest, m) :
            Reboot(m.dest, m.term, VoteAfter(m.dest, m.term),
                   DeleteKeys(db_log[m.dest], {j \in ConflictKeys(m.dest, m) : j <= k}),
                   last_included_index[m.dest], last_included_term[m.dest], snapshot_data[m.dest])
      BY <1>5 DEF CrashInTruncate
    <2>3. VoteAfter(m.dest, m.term) \in Server \cup {Nil}
      BY <2>1 DEF ElectionTypeOK, VoteAfter
    <2>4. m.term = current_term[m.dest] => VoteAfter(m.dest, m.term) = voted_for[m.dest]
      BY <2>1 DEF ElectionTypeOK, VoteAfter
    <2> QED BY <2>1, <2>2, <2>3, <2>4, RebootStep
  <1>6. ASSUME NEW m \in snap_requests, CrashInInstallSnapshot(m)
        PROVE  ElectionTypeOK' /\ VoteStep
    <2>1. m.term \in Nat /\ m.dest \in Server /\ m.term >= current_term[m.dest]
      BY <1>6 DEF ElectionTypeOK, CrashInInstallSnapshot, Installs
    <2>2. Reboot(m.dest, m.term, VoteAfter(m.dest, m.term), db_log[m.dest],
                 m.last_included_index, m.last_included_term, snapshot_data[m.dest])
      BY <1>6 DEF CrashInInstallSnapshot
    <2>3. VoteAfter(m.dest, m.term) \in Server \cup {Nil}
      BY <2>1 DEF ElectionTypeOK, VoteAfter
    <2>4. m.term = current_term[m.dest] => VoteAfter(m.dest, m.term) = voted_for[m.dest]
      BY <2>1 DEF ElectionTypeOK, VoteAfter
    <2> QED BY <2>1, <2>2, <2>3, <2>4, RebootStep
  <1> QED BY <1>1, <1>2, <1>3, <1>4, <1>5, <1>6

\* Every step keeps the types and is a VoteStep.
LEMMA NextStep ==
    ASSUME ElectionTypeOK, [Next]_vars
    PROVE  ElectionTypeOK' /\ VoteStep
  <1>1. CASE UNCHANGED vars
    <2>1. /\ UNCHANGED <<current_term, voted_for, role, voters, elected>>
          /\ UNCHANGED <<vote_requests, vote_replies, append_requests, append_replies,
                         snap_requests, snap_replies>>
      BY <1>1 DEF vars, termVars, ghostVars, voteMsgs, appendMsgs, snapMsgs
    <2> QED BY <2>1, QuietStep DEF ElectionTypeOK
  <1>2. CASE Next
    BY <1>2, LocalStep, ElectionTimeoutStep, SoleMemberElectionStep, RequestVoteStep,
       AppendEntriesStep, InstallSnapshotStep, RequestVoteResponseStep, OtherReplyStep,
       LoseExchangeStep, CrashStep DEF Next
  <1> QED BY <1>1, <1>2

-----------------------------------------------------------------------------
(* The invariant.                                                          *)

\* A vote cast after a step was cast before it, or is the server's vote now.
LEMMA CastBefore ==
    ASSUME VoteStep, NEW v \in Server, NEW c \in Server, NEW t \in Nat, Cast(v, t, c)'
    PROVE  Cast(v, t, c) \/ Votes(v, t, c)
  <1>1. CASE current_term'[v] = t /\ voted_for'[v] = c
    BY <1>1 DEF Votes
  <1>2. ASSUME NEW m \in vote_replies',
               m.vote_granted /\ m.peer_id = v /\ m.term = t /\ m.dest = c
        PROVE  Cast(v, t, c) \/ Votes(v, t, c)
    BY <1>2 DEF VoteStep, RepliesTrue, Cast
  <1>3. CASE role'[c] = Candidate /\ current_term'[c] = t /\ v \in voters'[c]
    BY <1>3 DEF VoteStep, VotersTrue
  <1>4. ASSUME NEW e \in elected', e.term = t /\ e.leader = c /\ v \in e.voters
        PROVE  Cast(v, t, c) \/ Votes(v, t, c)
    <2>1. CASE e \in elected
      BY <1>4, <2>1 DEF Cast
    <2>2. CASE e \notin elected
      BY <1>4, <2>2 DEF VoteStep, LeadersTrue
    <2> QED BY <2>1, <2>2
  <1> QED BY <1>1, <1>2, <1>3, <1>4 DEF Cast

LEMMA ElectionInvInit == Init => ElectionInv
  <1> SUFFICES ASSUME Init PROVE ElectionInv
    OBVIOUS
  <1>1. ElectionTypeOK
    BY DEF Init, ElectionTypeOK
  <1>2. \A v, c \in Server : \A t : ~Cast(v, t, c)
    BY ServerAssumption DEF Init, Cast, Follower, Candidate
  <1> QED BY <1>1, <1>2 DEF ElectionInv, VotesHonest, OneVoteEach, ElectedByMajority, Init

LEMMA ElectionInvStep == ElectionInv /\ [Next]_vars => ElectionInv'
  <1> SUFFICES ASSUME ElectionInv, [Next]_vars PROVE ElectionInv'
    OBVIOUS
  <1>1. ElectionTypeOK' /\ VoteStep
    BY NextStep DEF ElectionInv
  <1>2. \A v \in Server : /\ current_term[v] \in Nat /\ current_term'[v] \in Nat
                          /\ VoteKept(v)
    BY <1>1 DEF ElectionInv, ElectionTypeOK, VoteStep
  <1>3. ASSUME NEW v \in Server, NEW c \in Server, NEW t \in Nat, Cast(v, t, c)
        PROVE  current_term'[v] > t \/ Votes(v, t, c)
    <2>1. current_term[v] > t \/ (current_term[v] = t /\ voted_for[v] = c)
      BY <1>3 DEF ElectionInv, VotesHonest
    <2> QED BY <1>2, <2>1, ServerAssumption DEF VoteKept, Votes
  <1>4. VotesHonest'
    <2> SUFFICES ASSUME NEW v \in Server, NEW c \in Server, NEW t \in Nat, Cast(v, t, c)'
                 PROVE  current_term'[v] > t \/ Votes(v, t, c)
      BY DEF VotesHonest, Votes
    <2> QED BY <1>1, <1>3, CastBefore
  <1>5. OneVoteEach'
    <2> SUFFICES ASSUME NEW v \in Server, NEW c \in Server, NEW d \in Server, NEW t \in Nat,
                        Cast(v, t, c)', Cast(v, t, d)'
                 PROVE  c = d
      BY DEF OneVoteEach
    <2>1. /\ Cast(v, t, c) \/ Votes(v, t, c)
          /\ Cast(v, t, d) \/ Votes(v, t, d)
      BY <1>1, CastBefore
    <2>2. CASE Cast(v, t, c) /\ Cast(v, t, d)
      BY <2>2 DEF ElectionInv, OneVoteEach
    <2>3. CASE Votes(v, t, c) /\ (Votes(v, t, d) \/ Cast(v, t, d))
      BY <1>2, <1>3, <2>3 DEF Votes
    <2>4. CASE Votes(v, t, d) /\ Cast(v, t, c)
      BY <1>2, <1>3, <2>4 DEF Votes
    <2> QED BY <2>1, <2>2, <2>3, <2>4
  <1>6. ElectedByMajority'
    BY <1>1 DEF ElectionInv, ElectedByMajority, VoteStep, LeadersTrue, HasMajority
  <1> QED BY <1>1, <1>4, <1>5, <1>6 DEF ElectionInv

\* Two majorities of the members have a member in common.
LEMMA MajoritiesMeet ==
    ASSUME NEW S \in SUBSET Server, NEW T \in SUBSET Server, HasMajority(S), HasMajority(T)
    PROVE  S \cap T # {}
  <1>1. /\ IsFiniteSet(Server) /\ IsFiniteSet(S) /\ IsFiniteSet(T)
    BY ServerAssumption, FS_Subset
  <1>2. Cardinality(Server) \in Nat /\ Cardinality(S) \in Nat /\ Cardinality(T) \in Nat
    BY <1>1, FS_CardinalityType
  <1>3. Cardinality(S) + Cardinality(T) > Cardinality(Server)
    BY <1>2 DEF HasMajority
  <1> QED BY <1>1, <1>3, FS_MajoritiesIntersect

LEMMA ElectionInvSafe == ElectionInv => ElectionSafety
  <1> SUFFICES ASSUME ElectionInv, NEW x \in elected, NEW y \in elected, x.term = y.term
               PROVE  x.leader = y.leader
    BY DEF ElectionSafety
  <1>1. /\ x.term \in Nat /\ x.leader \in Server /\ y.leader \in Server
        /\ x.voters \in SUBSET Server /\ y.voters \in SUBSET Server
    BY DEF ElectionInv, ElectionTypeOK
  <1>2. HasMajority(x.voters) /\ HasMajority(y.voters)
    BY DEF ElectionInv, ElectedByMajority
  <1>3. PICK v \in Server : v \in x.voters /\ v \in y.voters
    BY <1>1, <1>2, MajoritiesMeet
  <1>4. Cast(v, x.term, x.leader) /\ Cast(v, x.term, y.leader)
    BY <1>3 DEF Cast
  <1> QED BY <1>1, <1>4 DEF ElectionInv, OneVoteEach

\* The inductive invariant holds of every behaviour: terms, votes, roles and message
\* headers keep their types, and a vote once cast is never contradicted.
THEOREM ElectionInvariant == Spec => []ElectionInv
  BY ElectionInvInit, ElectionInvStep, PTL DEF Spec

\* No term has two leaders (start_election, RequestVote, become_leader), for any
\* number of servers and whatever is lost, repeated, delayed or cut short by a crash
\* between save_term and save_vote.
THEOREM NoTwoLeaders == Spec => []ElectionSafety
  BY ElectionInvariant, ElectionInvSafe, PTL

-----------------------------------------------------------------------------
(* Naturals and sequences.                                                 *)

\* A set of indices that is not empty has a least one.
LEMMA LeastNatural ==
    ASSUME NEW T \in SUBSET Nat, T # {}
    PROVE  \E k \in T : \A j \in T : k <= j
  <1> DEFINE R == {ss \in Nat \X Nat : ss[1] < ss[2]}
  <1>1. IsWellFoundedOn(R, Nat)
    BY NatLessThanWellFounded DEF OpToRel
  <1>2. PICK x \in T : \A y \in T : <<y, x>> \notin R
    <2> HIDE DEF R
    <2> QED BY <1>1, WFMin
  <1>3. ASSUME NEW y \in T PROVE x <= y
    <2>1. x \in Nat /\ y \in Nat /\ <<y, x>> \notin R
      BY <1>2
    <2>2. ~(y < x)
      BY <2>1
    <2> QED BY <2>1, <2>2
  <1> QED BY <1>3

\* A sequence is the function that lists it.
LEMMA SeqAsFunction ==
    ASSUME NEW S, NEW L \in Seq(S)
    PROVE  /\ Len(L) \in Nat /\ DOMAIN L = 1 .. Len(L)
           /\ L = [k \in 1 .. Len(L) |-> L[k]]
  BY LenProperties

\* A function on 1 .. n is a sequence of length n.
LEMMA FunctionIsSeq ==
    ASSUME NEW S, NEW n \in Nat, NEW f \in [1 .. n -> S]
    PROVE  f \in Seq(S) /\ Len(f) = n
  OBVIOUS

-----------------------------------------------------------------------------
(* Types of the whole state.                                               *)

\* What a log entry or a state machine can hold.
LogCommand == Command \cup {NoOp}

\* The keys of the database are finitely many indices, each with an entry.
IsDatabase(D) == IsFiniteSet(DOMAIN D) /\ \A k \in DOMAIN D : k \in Nat /\ D[k] \in Entry

\* What the database and the log in memory hold.
DiskTypes ==
    /\ db_log = [i \in Server |-> db_log[i]]
    /\ \A i \in Server : IsDatabase(db_log[i])
    /\ last_included_index \in [Server -> Nat]
    /\ last_included_term \in [Server -> Nat]
    /\ snapshot_data \in [Server -> Seq(LogCommand)]
    /\ log \in [Server -> Seq(Entry)]

\* A snapshot covers what is applied, and only what leaders committed is applied.
ApplyTypes ==
    /\ commit_index \in [Server -> Nat] /\ last_applied = commit_index
    /\ app_state \in [Server -> Seq(LogCommand)]
    /\ chosen \in Seq([entry : Entry, at : Nat])
    /\ \A i \in Server : /\ last_included_index[i] <= commit_index[i]
                         /\ commit_index[i] <= Len(chosen)

\* What a leader keeps of its peers.
PeerTypes ==
    /\ next_index \in [Server -> [Server -> Nat]]
    /\ match_index \in [Server -> [Server -> Nat]]

\* What clients wait for and were told; an acknowledged index was committed.
ClientTypes ==
    /\ pending_replies \in [Server -> SUBSET Write]
    /\ pending_read_indices \in [Server -> SUBSET ReadRequest]
    /\ acked \subseteq Write
    /\ \A w \in acked : w.index <= Len(chosen)
    /\ issued \subseteq Command
    /\ reads \in Nat

\* Messages; a leader announces, and puts in a snapshot, only what was committed.
MessageTypes ==
    /\ vote_requests \subseteq VoteRequest /\ vote_replies \subseteq VoteReply
    /\ append_requests \subseteq AppendRequest /\ append_replies \subseteq AppendReply
    /\ snap_requests \subseteq SnapRequest /\ snap_replies \subseteq SnapReply
    /\ \A m \in append_requests : m.leader_commit <= Len(chosen)
    /\ \A m \in snap_requests : m.last_included_index <= Len(chosen)

\* The inductive invariant of TypeOK.
TypesInv ==
    ElectionTypeOK /\ DiskTypes /\ ApplyTypes /\ PeerTypes /\ ClientTypes /\ MessageTypes

-----------------------------------------------------------------------------
\* Types of what one node keeps, and of the operators on its log.
LEMMA NodeTypes ==
    ASSUME DiskTypes, NEW i \in Server
    PROVE  /\ IsDatabase(db_log[i]) /\ last_included_index[i] \in Nat
           /\ last_included_term[i] \in Nat /\ snapshot_data[i] \in Seq(LogCommand)
           /\ log[i] \in Seq(Entry) /\ Len(log[i]) \in Nat
           /\ LastIndex(i) \in Nat /\ LastIndex(i) = last_included_index[i] + Len(log[i])
           /\ last_included_index[i] <= LastIndex(i)
           /\ \A k \in Int : (last_included_index[i] <= k /\ k <= LastIndex(i)) =>
                TermAt(i, k) \in Nat
           /\ LastTerm(i) \in Nat
  <1>1. /\ IsDatabase(db_log[i]) /\ last_included_index[i] \in Nat
        /\ last_included_term[i] \in Nat /\ snapshot_data[i] \in Seq(LogCommand)
        /\ log[i] \in Seq(Entry) /\ Len(log[i]) \in Nat
    BY DEF DiskTypes
  <1>2. /\ LastIndex(i) \in Nat /\ LastIndex(i) = last_included_index[i] + Len(log[i])
        /\ last_included_index[i] <= LastIndex(i)
    BY <1>1 DEF LastIndex
  <1>3. ASSUME NEW k \in Int, last_included_index[i] <= k, k <= LastIndex(i)
        PROVE  TermAt(i, k) \in Nat
    <2>1. CASE k = last_included_index[i]
      BY <1>1, <2>1 DEF TermAt
    <2>2. CASE k # last_included_index[i]
      <3>1. k - last_included_index[i] \in 1 .. Len(log[i])
        BY <1>1, <1>2, <1>3, <2>2
      <3>2. log[i][k - last_included_index[i]] \in Entry
        BY <1>1, <3>1, ElementOfSeq
      <3> QED BY <2>2, <3>2 DEF TermAt, Entry
    <2> QED BY <2>1, <2>2
  <1>4. LastTerm(i) \in Nat
    BY <1>2, <1>3 DEF LastTerm
  <1> QED BY <1>1, <1>2, <1>3, <1>4

\* save_log_entry keeps the database well formed.
LEMMA SavedTypes ==
    ASSUME NEW D, IsDatabase(D), NEW from \in Nat, NEW es \in Seq(Entry)
    PROVE  IsDatabase(SaveEntries(D, from, es))
  <1> DEFINE new == from .. (from + Len(es) - 1)
             S == SaveEntries(D, from, es)
  <1>1. Len(es) \in Nat
    OBVIOUS
  <1>2. DOMAIN S = DOMAIN D \cup new
    BY DEF SaveEntries
  <1>3. IsFiniteSet(new)
    BY <1>1, FS_Interval
  <1>4. IsFiniteSet(DOMAIN S)
    BY <1>2, <1>3, FS_Union DEF IsDatabase
  <1>5. ASSUME NEW k \in DOMAIN S PROVE k \in Nat /\ S[k] \in Entry
    <2>1. CASE k \in new
      <3>1. k \in Nat /\ k - from + 1 \in 1 .. Len(es)
        BY <1>1, <2>1
      <3>2. es[k - from + 1] \in Entry
        BY <3>1, ElementOfSeq
      <3>3. S[k] = es[k - from + 1]
        BY <1>2, <2>1 DEF SaveEntries
      <3> QED BY <3>1, <3>2, <3>3
    <2>2. CASE k \notin new
      <3>1. k \in DOMAIN D /\ S[k] = D[k]
        BY <1>2, <2>2 DEF SaveEntries
      <3> QED BY <3>1 DEF IsDatabase
    <2> QED BY <2>1, <2>2
  <1> QED BY <1>4, <1>5 DEF IsDatabase

\* So does deleting keys.
LEMMA DeletedTypes ==
    ASSUME NEW D, IsDatabase(D), NEW keys
    PROVE  IsDatabase(DeleteKeys(D, keys))
  <1>1. DOMAIN DeleteKeys(D, keys) = DOMAIN D \ keys
    BY DEF DeleteKeys
  <1>2. IsFiniteSet(DOMAIN D \ keys)
    BY FS_Difference, FS_Subset DEF IsDatabase
  <1>3. \A k \in DOMAIN D \ keys : DeleteKeys(D, keys)[k] = D[k]
    BY DEF DeleteKeys
  <1> QED BY <1>1, <1>2, <1>3 DEF IsDatabase

\* load_state ends at the first gap, and there is one.
LEMMA LoadedTypes ==
    ASSUME NEW D, IsDatabase(D), NEW lii \in Nat
    PROVE  LoadedLog(D, lii) \in Seq(Entry)
  <1> DEFINE N == Cardinality(DOMAIN D)
             Fits(n) == /\ (lii + 1) .. (lii + n) \subseteq DOMAIN D
                        /\ lii + n + 1 \notin DOMAIN D
             gaps == {k \in Nat : lii + k + 1 \notin DOMAIN D}
             n == CHOOSE k \in 0 .. N : Fits(k)
  <1>1. IsFiniteSet(DOMAIN D) /\ N \in Nat
    BY FS_CardinalityType DEF IsDatabase
  <1>2. ASSUME NEW k \in Nat, (lii + 1) .. (lii + k) \subseteq DOMAIN D PROVE k <= N
    <2>1. Cardinality((lii + 1) .. (lii + k)) = IF lii + 1 > lii + k THEN 0 ELSE (lii + k) - (lii + 1) + 1
      BY FS_Interval
    <2>2. Cardinality((lii + 1) .. (lii + k)) <= N
      BY <1>1, <1>2, FS_Subset
    <2> QED BY <1>1, <2>1, <2>2
  <1>3. gaps # {}
    <2> SUFFICES ASSUME gaps = {} PROVE FALSE
      OBVIOUS
    <2>1. \A k \in Nat : lii + k + 1 \in DOMAIN D
      OBVIOUS
    <2>2. ASSUME NEW j \in (lii + 1) .. (lii + (N + 1)) PROVE j \in DOMAIN D
      <3>1. j - lii - 1 \in Nat /\ lii + (j - lii - 1) + 1 = j
        BY <1>1
      <3> QED BY <2>1, <3>1
    <2>3. N + 1 \in Nat /\ ~(N + 1 <= N)
      BY <1>1
    <2> QED BY <1>2, <2>2, <2>3
  <1>4. PICK g \in gaps : \A j \in gaps : g <= j
    <2>1. gaps \in SUBSET Nat
      OBVIOUS
    <2> HIDE DEF gaps
    <2> QED BY <1>3, <2>1, LeastNatural
  <1>5. (lii + 1) .. (lii + g) \subseteq DOMAIN D
    <2> SUFFICES ASSUME NEW j \in (lii + 1) .. (lii + g) PROVE j \in DOMAIN D
      OBVIOUS
    <2>1. g \in Nat /\ j - lii - 1 \in Nat /\ lii + (j - lii - 1) + 1 = j /\ ~(g <= j - lii - 1)
      BY <1>4
    <2>2. j - lii - 1 \notin gaps
      BY <1>4, <2>1
    <2> QED BY <2>1, <2>2
  <1>6. g \in 0 .. N /\ Fits(g)
    <2>1. g \in Nat /\ lii + g + 1 \notin DOMAIN D
      BY <1>4
    <2>2. g <= N
      BY <1>2, <1>5, <2>1
    <2> QED BY <1>1, <1>5, <2>1, <2>2
  <1>7. n \in 0 .. N /\ Fits(n)
    <2> HIDE DEF Fits
    <2> QED BY <1>6, Zenon
  <1>8. LoadedLog(D, lii) = [k \in 1 .. n |-> D[lii + k]]
    BY DEF LoadedLog
  <1> HIDE DEF n
  <1>9. n \in Nat /\ \A k \in 1 .. n : D[lii + k] \in Entry
    <2>1. n \in Nat
      BY <1>1, <1>7
    <2>2. \A k \in 1 .. n : lii + k \in (lii + 1) .. (lii + n)
      BY <2>1
    <2> QED BY <1>7, <2>1, <2>2 DEF IsDatabase
  <1> HIDE DEF N
  <1>10. [k \in 1 .. n |-> D[lii + k]] \in [1 .. n -> Entry]
    BY <1>9
  <1> QED BY <1>8, <1>9, <1>10, FunctionIsSeq

\* What survives of log[i] reaches from the previous entry of m to the end at most.
LEMMA KeptRange ==
    ASSUME DiskTypes, NEW i \in Server, NEW m \in AppendRequest, Matches(i, m)
    PROVE  /\ m.prev_log_index - last_included_index[i] \in Nat
           /\ Kept(i, m) \in (m.prev_log_index - last_included_index[i]) .. Len(log[i])
  <1> DEFINE L == log[i]
             es == m.entries
             from == m.prev_log_index - last_included_index[i]
             bad == {k \in 1 .. Len(es) : /\ from + k <= Len(L)
                                          /\ L[from + k].term # es[k].term}
             least == CHOOSE k \in bad : \A j \in bad : k <= j
  <1>1. m.prev_log_index \in Nat /\ es \in Seq(Entry) /\ Len(es) \in Nat
    BY DEF AppendRequest
  <1>2. from \in Nat /\ from <= Len(L) /\ Len(L) \in Nat
    BY <1>1, NodeTypes DEF Matches
  <1>3. Kept(i, m) = IF bad = {} THEN Len(L) ELSE from + least - 1
    BY DEF Kept
  <1>4. CASE bad = {}
    BY <1>2, <1>3, <1>4
  <1>5. CASE bad # {}
    <2>1. least \in bad
      <3>1. bad \in SUBSET Nat
        BY <1>1
      <3> HIDE DEF bad
      <3>2. \E k \in bad : \A j \in bad : k <= j
        BY <1>5, <3>1, LeastNatural
      <3> QED BY <3>2
    <2> HIDE DEF least, from
    <2>2. least \in Nat \ {0} /\ from + least <= Len(L)
      BY <1>1, <2>1
    <2>3. Kept(i, m) = from + least - 1
      BY <1>3, <1>5
    <2> QED BY <1>2, <2>2, <2>3 DEF from
  <1> QED BY <1>4, <1>5

\* The log that AppendEntries leaves.
LEMMA MergedTypes ==
    ASSUME DiskTypes, NEW i \in Server, NEW m \in AppendRequest, Matches(i, m)
    PROVE  MergedLog(i, m) \in Seq(Entry) /\ IsDatabase(MergedDb(i, m))
  <1> DEFINE from == m.prev_log_index - last_included_index[i]
             K == Kept(i, m)
  <1>1. /\ m.entries \in Seq(Entry) /\ Len(m.entries) \in Nat
        /\ log[i] \in Seq(Entry) /\ Len(log[i]) \in Nat /\ last_included_index[i] \in Nat
    BY NodeTypes DEF AppendRequest
  <1>2. from \in Nat /\ K \in from .. Len(log[i])
    BY KeptRange
  <1>3. NewEntries(i, m) = SubSeq(m.entries, K - from + 1, Len(m.entries))
    BY DEF NewEntries
  <1> HIDE DEF K, from
  <1>4. K \in Nat /\ K <= Len(log[i]) /\ K - from + 1 \in Nat \ {0}
    BY <1>1, <1>2
  <1>5. SubSeq(log[i], 1, K) \in Seq(Entry)
    <2>1. \A k \in 1 .. K : log[i][k] \in Entry
      BY <1>1, <1>4, ElementOfSeq
    <2> QED BY <1>4, <2>1, SubSeqProperties
  <1>6. NewEntries(i, m) \in Seq(Entry)
    <2>1. \A k \in (K - from + 1) .. Len(m.entries) : m.entries[k] \in Entry
      BY <1>1, <1>4, ElementOfSeq
    <2> QED BY <1>1, <1>3, <1>4, <2>1, SubSeqProperties
  <1>7. MergedLog(i, m) \in Seq(Entry)
    BY <1>5, <1>6, ConcatProperties DEF MergedLog, K
  <1>8. IsDatabase(MergedDb(i, m))
    <2>1. IsDatabase(DeleteKeys(db_log[i], ConflictKeys(i, m)))
      BY NodeTypes, DeletedTypes
    <2>2. last_included_index[i] + K + 1 \in Nat
      BY <1>1, <1>4
    <2> QED BY <1>6, <2>1, <2>2, SavedTypes DEF MergedDb, K
  <1> QED BY <1>7, <1>8

\* The commands of entries.
LEMMA CommandsTypes ==
    ASSUME NEW L \in Seq(Entry), NEW a \in Int, NEW b \in Int, 1 <= a, b <= Len(L)
    PROVE  Commands(SubSeq(L, a, b)) \in Seq(LogCommand)
  <1> DEFINE es == SubSeq(L, a, b)
  <1>1. es \in Seq(Entry)
    <2>1. \A k \in a .. b : L[k] \in Entry
      <3>1. Len(L) \in Nat /\ \A k \in a .. b : k \in 1 .. Len(L)
        OBVIOUS
      <3> QED BY <3>1, ElementOfSeq
    <2> QED BY <2>1, SubSeqProperties
  <1> HIDE DEF es
  <1>2. Len(es) \in Nat /\ \A k \in 1 .. Len(es) : es[k].command \in LogCommand
    <2>1. \A k \in 1 .. Len(es) : es[k] \in Entry
      BY <1>1, ElementOfSeq
    <2> QED BY <1>1, <2>1 DEF Entry, LogCommand
  <1>3. [k \in 1 .. Len(es) |-> es[k].command] \in [1 .. Len(es) -> LogCommand]
    BY <1>2
  <1> QED BY <1>2, <1>3, FunctionIsSeq DEF Commands, es

\* apply_logs over entries the log has.
LEMMA AppliedTypes ==
    ASSUME DiskTypes, ApplyTypes, NEW i \in Server, NEW L \in Seq(Entry), NEW c \in Nat,
           c <= last_included_index[i] + Len(L), ApplyLogs(i, L, c)
    PROVE  /\ commit_index' = [commit_index EXCEPT ![i] = c]
           /\ commit_index' \in [Server -> Nat] /\ last_applied' = commit_index'
           /\ app_state' \in [Server -> Seq(LogCommand)]
  <1> DEFINE lii == last_included_index[i]
             fresh == SubSeq(L, last_applied[i] - lii + 1, c - lii)
  <1>1. /\ lii \in Nat /\ commit_index[i] \in Nat /\ lii <= commit_index[i]
        /\ last_applied[i] = commit_index[i] /\ Len(L) \in Nat
    BY DEF DiskTypes, ApplyTypes
  <1>2. /\ last_applied[i] - lii + 1 \in Int /\ c - lii \in Int
        /\ 1 <= last_applied[i] - lii + 1 /\ c - lii <= Len(L)
    BY <1>1
  <1>3. Commands(fresh) \in Seq(LogCommand)
    BY <1>2, CommandsTypes
  <1>4. /\ app_state' = [app_state EXCEPT ![i] = @ \o Commands(fresh)]
        /\ commit_index' = [commit_index EXCEPT ![i] = c]
        /\ last_applied' = [last_applied EXCEPT ![i] = c]
    BY DEF ApplyLogs
  <1> HIDE DEF fresh
  <1>5. app_state[i] \o Commands(fresh) \in Seq(LogCommand)
    BY <1>3, ConcatProperties DEF ApplyTypes
  <1>6. app_state' \in [Server -> Seq(LogCommand)]
    <2> DEFINE x == app_state[i] \o Commands(fresh)
    <2>1. app_state' = [app_state EXCEPT ![i] = x]
      BY <1>4
    <2>2. x \in Seq(LogCommand)
      BY <1>5
    <2> HIDE DEF x
    <2> QED BY <2>1, <2>2 DEF ApplyTypes
  <1> QED BY <1>4, <1>6 DEF ApplyTypes

\* A commit extends what is committed up to the commit index.
LEMMA ChosenTypes ==
    ASSUME DiskTypes, ApplyTypes, NEW i \in Server, NEW t \in Nat, NEW L \in Seq(Entry),
           NEW c \in Nat, c <= last_included_index[i] + Len(L), Choose(i, t, L, c)
    PROVE  /\ chosen' \in Seq([entry : Entry, at : Nat])
           /\ Len(chosen) <= Len(chosen') /\ c <= Len(chosen')
  <1> DEFINE C == [entry : Entry, at : Nat]
             lii == last_included_index[i]
             n == c - Len(chosen)
             new == [k \in 1 .. n |-> [entry |-> L[Len(chosen) + k - lii], at |-> t]]
  <1>1. /\ lii \in Nat /\ lii <= Len(chosen) /\ Len(chosen) \in Nat /\ Len(L) \in Nat
        /\ chosen \in Seq(C)
    BY DEF DiskTypes, ApplyTypes
  <1>2. chosen' = chosen \o new
    BY DEF Choose
  <1>3. new \in Seq(C) /\ Len(new) >= n /\ Len(new) \in Nat
    <2>1. CASE n \in Nat
      <3>1. \A k \in 1 .. n : Len(chosen) + k - lii \in 1 .. Len(L)
        BY <1>1, <2>1
      <3>2. \A k \in 1 .. n : L[Len(chosen) + k - lii] \in Entry
        BY <3>1, ElementOfSeq
      <3> HIDE DEF n
      <3>3. new \in [1 .. n -> C]
        BY <3>2
      <3> HIDE DEF new, C
      <3>4. new \in Seq(C) /\ Len(new) = n
        BY <2>1, <3>3, FunctionIsSeq
      <3> QED BY <2>1, <3>4
    <2>2. CASE n \notin Nat
      <3>1. n \in Int /\ n < 0 /\ 1 .. n = 1 .. 0
        BY <1>1, <2>2
      <3> HIDE DEF n
      <3>2. new \in [1 .. 0 -> C]
        BY <3>1
      <3> HIDE DEF new
      <3>3. new \in Seq(C) /\ Len(new) = 0
        BY <3>2, FunctionIsSeq
      <3> QED BY <3>1, <3>3
    <2> QED BY <2>1, <2>2
  <1> HIDE DEF new
  <1>4. chosen \o new \in Seq(C) /\ Len(chosen \o new) = Len(chosen) + Len(new)
    BY <1>1, <1>3, ConcatProperties
  <1> QED BY <1>1, <1>2, <1>3, <1>4

\* create_snapshot.
LEMMA CompactTypes ==
    ASSUME DiskTypes, NEW i \in Server, NEW L \in Seq(Entry), NEW D, IsDatabase(D),
           NEW a \in Nat, a <= last_included_index[i] + Len(L), NEW state \in Seq(LogCommand),
           Compact(i, L, D, a, state)
    PROVE  /\ DiskTypes'
           /\ \A j \in Server : last_included_index'[j] = last_included_index[j]
                                \/ (j = i /\ last_included_index'[j] = a)
  <1> DEFINE lii == last_included_index[i]
  <1>1. lii \in Nat /\ Len(L) \in Nat
    BY DEF DiskTypes
  <1>2. CASE NeedsSnapshot(i, L, a)
    <2>1. a - lii \in 1 .. Len(L) /\ a > lii
      BY <1>1, <1>2 DEF NeedsSnapshot
    <2>2. L[a - lii].term \in Nat
      <3>1. L[a - lii] \in Entry
        BY <2>1, ElementOfSeq
      <3> QED BY <3>1 DEF Entry
    <2>3. SubSeq(L, a - lii + 1, Len(L)) \in Seq(Entry)
      <3>1. \A k \in (a - lii + 1) .. Len(L) : L[k] \in Entry
        BY <1>1, <2>1, ElementOfSeq
      <3> QED BY <1>1, <2>1, <3>1, SubSeqProperties
    <2>4. IsDatabase(DeleteKeys(D, (lii + 1) .. a))
      BY DeletedTypes
    <2>5. /\ log' = [log EXCEPT ![i] = SubSeq(L, a - lii + 1, Len(L))]
          /\ db_log' = [db_log EXCEPT ![i] = DeleteKeys(D, (lii + 1) .. a)]
          /\ last_included_index' = [last_included_index EXCEPT ![i] = a]
          /\ last_included_term' = [last_included_term EXCEPT ![i] = L[a - lii].term]
          /\ snapshot_data' = [snapshot_data EXCEPT ![i] = state]
      BY <1>2 DEF Compact
    <2> DEFINE L2 == SubSeq(L, a - lii + 1, Len(L))
               D2 == DeleteKeys(D, (lii + 1) .. a)
               t2 == L[a - lii].term
    <2> HIDE DEF L2, D2, t2
    <2> QED BY <2>2, <2>3, <2>4, <2>5 DEF DiskTypes, L2, D2, t2
  <1>3. CASE ~NeedsSnapshot(i, L, a)
    <2>1. /\ log' = [log EXCEPT ![i] = L] /\ db_log' = [db_log EXCEPT ![i] = D]
          /\ UNCHANGED <<last_included_index, last_included_term, snapshot_data>>
      BY <1>3 DEF Compact
    <2> QED BY <2>1 DEF DiskTypes
  <1> QED BY <1>2, <1>3

\* send_heartbeats of a leader with log L and commit index c.
LEMMA SentTypes ==
    ASSUME TypesInv, NEW i \in Server, NEW L \in Seq(Entry), NEW c \in Nat, c <= Len(chosen),
           SendHeartbeats(i, L, c)
    PROVE  /\ PeerTypes'
           /\ append_requests' \subseteq AppendRequest /\ snap_requests' \subseteq SnapRequest
           /\ UNCHANGED <<append_replies, snap_replies>>
           /\ \A m \in append_requests' : m.leader_commit <= Len(chosen)
           /\ \A m \in snap_requests' : m.last_included_index <= Len(chosen)
  <1> DEFINE lii == last_included_index[i]
             last == lii + Len(L)
             behind == {j \in Peers(i) : next_index[i][j] <= lii}
             beyond == {j \in Peers(i) : next_index[i][j] > last + 1}
  <1>1. /\ lii \in Nat /\ Len(L) \in Nat /\ current_term[i] \in Nat
        /\ last_included_term[i] \in Nat /\ app_state[i] \in Seq(LogCommand)
        /\ lii <= Len(chosen) /\ Len(chosen) \in Nat
    BY DEF TypesInv, DiskTypes, ApplyTypes, ElectionTypeOK
  <1>2. /\ snap_requests' = snap_requests \cup {SnapshotArgs(i, j) : j \in behind}
        /\ append_requests' = append_requests \cup
             {AppendArgs(i, j, L, c) : j \in Peers(i) \ (behind \cup beyond)}
        /\ next_index' = [next_index EXCEPT ![i] =
             [j \in Server |-> IF j \in beyond THEN last + 1 ELSE @[j]]]
        /\ UNCHANGED <<match_index, snap_replies, append_replies>>
    BY DEF SendHeartbeats
  <1>3. ASSUME NEW j \in Peers(i)
        PROVE  /\ SnapshotArgs(i, j) \in SnapRequest
               /\ SnapshotArgs(i, j).last_included_index = lii
    BY <1>1 DEF SnapshotArgs, SnapRequest, Peers, LogCommand
  <1>4. ASSUME NEW j \in Peers(i), j \notin behind, j \notin beyond
        PROVE  AppendArgs(i, j, L, c) \in AppendRequest /\ AppendArgs(i, j, L, c).leader_commit = c
    <2> DEFINE prev == next_index[i][j] - 1
               pt == IF prev = lii THEN last_included_term[i] ELSE L[prev - lii].term
               es == SubSeq(L, prev - lii + 1, Len(L))
    <2>1. j \in Server /\ next_index[i][j] \in Nat
      BY DEF TypesInv, PeerTypes, Peers
    <2>2. prev \in Nat /\ lii <= prev /\ prev <= last
      BY <1>1, <1>4, <2>1
    <2>3. pt \in Nat
      <3>1. CASE prev = lii
        BY <1>1, <3>1
      <3>2. CASE prev # lii
        <4>1. prev - lii \in 1 .. Len(L)
          BY <1>1, <2>2, <3>2
        <4>2. L[prev - lii] \in Entry
          BY <4>1, ElementOfSeq
        <4>3. L[prev - lii].term \in Nat
          BY <4>2 DEF Entry
        <4> QED BY <3>2, <4>3
      <3> QED BY <3>1, <3>2
    <2>4. es \in Seq(Entry)
      <3>1. prev - lii + 1 \in Nat \ {0}
        BY <1>1, <2>2
      <3>2. \A k \in (prev - lii + 1) .. Len(L) : L[k] \in Entry
        BY <1>1, <3>1, ElementOfSeq
      <3> HIDE DEF prev
      <3> QED BY <1>1, <3>1, <3>2, SubSeqProperties
    <2>5. AppendArgs(i, j, L, c) =
            [term |-> current_term[i], leader_id |-> i, prev_log_index |-> prev,
             prev_log_term |-> pt, entries |-> es, leader_commit |-> c, dest |-> j]
      BY DEF AppendArgs
    <2> HIDE DEF prev, pt, es
    <2> QED BY <1>1, <2>1, <2>2, <2>3, <2>4, <2>5 DEF AppendRequest
  <1>5. PeerTypes'
    <2>1. last + 1 \in Nat /\ next_index[i] \in [Server -> Nat]
      BY <1>1 DEF TypesInv, PeerTypes
    <2> DEFINE ni == [j \in Server |-> IF j \in beyond THEN last + 1 ELSE next_index[i][j]]
    <2>2. ni \in [Server -> Nat]
      BY <2>1
    <2>3. next_index' = [next_index EXCEPT ![i] = ni]
      BY <1>2
    <2> HIDE DEF ni
    <2> QED BY <1>2, <2>2, <2>3 DEF TypesInv, PeerTypes
  <1> HIDE DEF behind, beyond, lii
  <1>6. append_requests' \subseteq AppendRequest /\ \A m \in append_requests' : m.leader_commit <= Len(chosen)
    BY <1>2, <1>4 DEF TypesInv, MessageTypes
  <1>7. /\ snap_requests' \subseteq SnapRequest
        /\ \A m \in snap_requests' : m.last_included_index <= Len(chosen)
    <2>1. behind \subseteq Peers(i)
      BY DEF behind
    <2> QED BY <1>1, <1>2, <1>3, <2>1 DEF TypesInv, MessageTypes
  <1> QED BY <1>2, <1>5, <1>6, <1>7

\* A restart from a database with a snapshot of a committed index.
LEMMA RebootTypes ==
    ASSUME TypesInv, NEW i \in Server, NEW t, NEW v, NEW D, IsDatabase(D), NEW lii \in Nat,
           NEW lit \in Nat, NEW data \in Seq(LogCommand), lii <= Len(chosen),
           Reboot(i, t, v, D, lii, lit, data)
    PROVE  DiskTypes' /\ ApplyTypes' /\ PeerTypes' /\ ClientTypes' /\ MessageTypes'
  <1> DEFINE L == LoadedLog(D, lii)
             ni == [j \in Server |-> lii + Len(L) + 1]
             mi == [j \in Server |-> lii]
  <1>1. L \in Seq(Entry)
    BY LoadedTypes
  <1>2. /\ db_log' = [db_log EXCEPT ![i] = D]
        /\ last_included_index' = [last_included_index EXCEPT ![i] = lii]
        /\ last_included_term' = [last_included_term EXCEPT ![i] = lit]
        /\ snapshot_data' = [snapshot_data EXCEPT ![i] = data]
        /\ log' = [log EXCEPT ![i] = L]
        /\ commit_index' = [commit_index EXCEPT ![i] = lii]
        /\ last_applied' = [last_applied EXCEPT ![i] = lii]
        /\ app_state' = [app_state EXCEPT ![i] = data]
        /\ next_index' = [next_index EXCEPT ![i] = ni]
        /\ match_index' = [match_index EXCEPT ![i] = mi]
        /\ pending_replies' = [pending_replies EXCEPT ![i] = {}]
        /\ pending_read_indices' = [pending_read_indices EXCEPT ![i] = {}]
        /\ vote_replies' \subseteq vote_replies
        /\ append_replies' \subseteq append_replies
        /\ snap_replies' \subseteq snap_replies
        /\ UNCHANGED <<vote_requests, append_requests, snap_requests, chosen, acked, issued, reads>>
    BY DEF Reboot, ghostVars
  <1>3. ni \in [Server -> Nat] /\ mi \in [Server -> Nat]
    <2>1. Len(L) \in Nat
      BY <1>1
    <2> QED BY <2>1
  <1> HIDE DEF L, ni, mi
  <1>4. DiskTypes'
    BY <1>1, <1>2 DEF TypesInv, DiskTypes
  <1>5. ApplyTypes'
    BY <1>1, <1>2 DEF TypesInv, DiskTypes, ApplyTypes
  <1>6. PeerTypes'
    BY <1>2, <1>3 DEF TypesInv, PeerTypes
  <1>7. ClientTypes'
    BY <1>2 DEF TypesInv, ClientTypes
  <1>8. MessageTypes'
    BY <1>2 DEF TypesInv, MessageTypes
  <1> QED BY <1>4, <1>5, <1>6, <1>7, <1>8

\* The newest write a client knows of.
LEMMA NewestAckedType ==
    ASSUME ApplyTypes, ClientTypes
    PROVE  NewestAcked \in Nat /\ NewestAcked <= Len(chosen)
  <1> DEFINE ks == {0} \cup {w.index : w \in acked}
             N == Len(chosen)
             T == {n \in Nat : \A j \in ks : j <= n}
  <1>1. N \in Nat /\ ks \in SUBSET Nat /\ \A j \in ks : j <= N
    BY DEF ApplyTypes, ClientTypes, Write
  <1> HIDE DEF ks
  <1>2. N \in T
    BY <1>1
  <1>3. PICK k \in T : \A j \in T : k <= j
    <2>1. T \in SUBSET Nat /\ T # {}
      BY <1>2
    <2> HIDE DEF T
    <2> QED BY <2>1, LeastNatural
  <1>4. k \in ks
    <2> SUFFICES ASSUME k \notin ks PROVE FALSE
      OBVIOUS
    <2>1. k \in Nat /\ \A j \in ks : j \in Nat /\ j <= k /\ j # k
      BY <1>1, <1>3
    <2>2. 0 \in ks
      BY DEF ks
    <2>3. k - 1 \in Nat /\ \A j \in ks : j <= k - 1
      BY <2>1, <2>2
    <2>4. k - 1 \in T /\ ~(k <= k - 1)
      BY <2>1, <2>3
    <2> QED BY <1>3, <2>4
  <1>5. \E x \in ks : \A j \in ks : j <= x
    BY <1>3, <1>4
  <1>6. NewestAcked = CHOOSE x \in ks : \A j \in ks : j <= x
    BY DEF NewestAcked, ks
  <1> QED BY <1>1, <1>5, <1>6

\* serve_pending_reads.
LEMMA ServedTypes ==
    ASSUME ClientTypes, NEW i \in Server, NEW R \in SUBSET ReadRequest, ServeReads(i, R)
    PROVE  pending_read_indices' \in [Server -> SUBSET ReadRequest]
  BY DEF ServeReads, ClientTypes

\* The reads that heartbeat acknowledgements complete.
LEMMA AckedReadTypes ==
    ASSUME NEW R \in SUBSET ReadRequest, NEW t, NEW p \in Server
    PROVE  AckReads(R, t, p) \in SUBSET ReadRequest
  <1>1. ASSUME NEW r \in R PROVE [r EXCEPT !.acks = @ \cup {p}] \in ReadRequest
    BY DEF ReadRequest
  <1> QED BY <1>1 DEF AckReads

\* What step_down_to_follower drops.
LEMMA SteppedDownTypes ==
    ASSUME ClientTypes, NEW i \in Server, NEW t, StepDown(i, t)
    PROVE  /\ pending_replies' \in [Server -> SUBSET Write]
           /\ pending_read_indices' \in [Server -> SUBSET ReadRequest]
  BY DEF StepDown, ClientTypes

-----------------------------------------------------------------------------
(* One lemma per kind of step: it keeps the types.                         *)

\* TypesInv without the part about elections.
StateTypes == DiskTypes /\ ApplyTypes /\ PeerTypes /\ ClientTypes /\ MessageTypes

\* What IndicesWithinLog says of one node.
LEMMA WithinFacts ==
    ASSUME TypesInv, IndicesWithinLog, NEW i \in Server
    PROVE  /\ current_term[i] \in Nat
           /\ log[i] \in Seq(Entry) /\ Len(log[i]) \in Nat /\ last_included_index[i] \in Nat
           /\ last_included_term[i] \in Nat /\ IsDatabase(db_log[i])
           /\ LastIndex(i) = last_included_index[i] + Len(log[i]) /\ LastIndex(i) \in Nat
           /\ app_state[i] \in Seq(LogCommand) /\ snapshot_data[i] \in Seq(LogCommand)
           /\ commit_index[i] \in Nat /\ last_applied[i] = commit_index[i]
           /\ last_included_index[i] <= commit_index[i] /\ commit_index[i] <= LastIndex(i)
           /\ commit_index[i] <= Len(chosen) /\ Len(chosen) \in Nat
  <1>1. DiskTypes
    BY DEF TypesInv
  <1>2. commit_index[i] <= LastIndex(i)
    BY DEF IndicesWithinLog
  <1>3. /\ app_state[i] \in Seq(LogCommand) /\ commit_index[i] \in Nat
        /\ last_applied[i] = commit_index[i] /\ last_included_index[i] <= commit_index[i]
        /\ commit_index[i] <= Len(chosen) /\ Len(chosen) \in Nat
    BY DEF TypesInv, ApplyTypes
  <1>4. current_term[i] \in Nat
    BY DEF TypesInv, ElectionTypeOK
  <1> QED BY <1>1, <1>2, <1>3, <1>4, NodeTypes

\* Nothing is committed or applied, and a snapshot covers no more than is.
LEMMA SameApplied ==
    ASSUME ApplyTypes, UNCHANGED <<commit_index, last_applied, app_state, chosen>>,
           \A j \in Server : last_included_index'[j] <= commit_index[j]
    PROVE  ApplyTypes'
  BY DEF ApplyTypes

\* apply_logs and the snapshot it may take.
LEMMA CompactedTypes ==
    ASSUME TypesInv, IndicesWithinLog, NEW i \in Server,
           Compact(i, log[i], db_log[i], last_applied[i], app_state[i]),
           UNCHANGED <<commit_index, last_applied, app_state, chosen>>
    PROVE  DiskTypes' /\ ApplyTypes'
  <1>1. /\ DiskTypes'
        /\ \A j \in Server : last_included_index'[j] = last_included_index[j]
                             \/ (j = i /\ last_included_index'[j] = last_applied[i])
    <2>1. DiskTypes /\ last_applied[i] \in Nat /\ last_applied[i] <= last_included_index[i] + Len(log[i])
      BY WithinFacts DEF TypesInv
    <2> QED BY <2>1, WithinFacts, CompactTypes
  <1>2. \A j \in Server : last_included_index'[j] <= commit_index[j]
    BY <1>1, WithinFacts
  <1> QED BY <1>1, <1>2, SameApplied DEF TypesInv

LEMMA TimeoutTypes ==
    ASSUME TypesInv, IndicesWithinLog, NEW i \in Server, ElectionTimeout(i)
    PROVE  StateTypes'
  <1>1. DiskTypes' /\ ApplyTypes'
    BY CompactedTypes DEF ElectionTimeout, applyVars, ghostVars
  <1>2. PeerTypes' /\ ClientTypes'
    BY DEF TypesInv, PeerTypes, ClientTypes, ElectionTimeout, leaderVars, clientVars, ghostVars,
           counterVars
  <1>3. vote_requests' \subseteq VoteRequest
    <2>1. current_term[i] + 1 \in Nat /\ LastIndex(i) \in Nat /\ LastTerm(i) \in Nat
      BY WithinFacts, NodeTypes DEF TypesInv
    <2>2. \A j \in Peers(i) : [term |-> current_term[i] + 1, candidate_id |-> i,
            last_log_index |-> LastIndex(i), last_log_term |-> LastTerm(i), dest |-> j] \in VoteRequest
      BY <2>1 DEF VoteRequest, Peers
    <2> QED BY <2>2 DEF TypesInv, MessageTypes, ElectionTimeout
  <1>4. MessageTypes'
    BY <1>3 DEF TypesInv, MessageTypes, ElectionTimeout, appendMsgs, snapMsgs, ghostVars
  <1> QED BY <1>1, <1>2, <1>4 DEF StateTypes

LEMMA LeadershipTypes ==
    ASSUME TypesInv, NEW i \in Server, NEW t \in Nat, BecomeLeader(i, t)
    PROVE  PeerTypes' /\ LogWithNoOp(i, t) \in Seq(Entry)
           /\ Len(LogWithNoOp(i, t)) = Len(log[i]) + 1
           /\ LogWithNoOp(i, t)[Len(log[i]) + 1] = [term |-> t, command |-> NoOp]
           /\ [term |-> t, command |-> NoOp] \in Entry
  <1> DEFINE ni == [j \in Server |-> LastIndex(i) + 2]
             mi == [j \in Server |-> last_included_index[i]]
  <1>1. LastIndex(i) \in Nat /\ last_included_index[i] \in Nat /\ log[i] \in Seq(Entry)
    BY NodeTypes DEF TypesInv
  <1>2. ni \in [Server -> Nat] /\ mi \in [Server -> Nat]
    BY <1>1
  <1>3. next_index' = [next_index EXCEPT ![i] = ni] /\ match_index' = [match_index EXCEPT ![i] = mi]
    BY DEF BecomeLeader
  <1> HIDE DEF ni, mi
  <1>4. PeerTypes'
    BY <1>2, <1>3 DEF TypesInv, PeerTypes
  <1>5. [term |-> t, command |-> NoOp] \in Entry
    BY DEF Entry
  <1> QED BY <1>1, <1>4, <1>5 DEF LogWithNoOp

LEMMA SoleTypes ==
    ASSUME TypesInv, IndicesWithinLog, NEW i \in Server, SoleMemberElection(i)
    PROVE  StateTypes'
  <1> DEFINE t == current_term[i] + 1
             L == LogWithNoOp(i, t)
             last == LastIndex(i) + 1
             D == SaveEntries(db_log[i], last, <<L[Len(L)]>>)
  <1>1. /\ t \in Nat /\ last \in Nat /\ SoleCommit(i) = last
    BY WithinFacts DEF SoleCommit
  <1>2. /\ BecomeLeader(i, t) /\ ApplyLogs(i, L, last) /\ Choose(i, t, L, last)
        /\ Compact(i, L, D, last, app_state'[i])
        /\ UNCHANGED <<pending_replies, pending_read_indices, vote_requests, vote_replies,
                       append_requests, append_replies, snap_requests, snap_replies, acked,
                       issued, reads>>
    BY <1>1 DEF SoleMemberElection, clientVars, voteMsgs, appendMsgs, snapMsgs, counterVars
  <1>3. /\ PeerTypes' /\ L \in Seq(Entry) /\ Len(L) = Len(log[i]) + 1
        /\ L[Len(L)] \in Entry
    BY <1>1, <1>2, LeadershipTypes
  <1>4. IsDatabase(D)
    <2>1. <<L[Len(L)]>> \in Seq(Entry)
      BY <1>3
    <2> QED BY <1>1, <2>1, SavedTypes, WithinFacts
  <1>5. last <= last_included_index[i] + Len(L) /\ DiskTypes /\ ApplyTypes
    BY <1>3, WithinFacts DEF TypesInv
  <1> HIDE DEF L, D, last, t
  <1>6. /\ commit_index' = [commit_index EXCEPT ![i] = last]
        /\ commit_index' \in [Server -> Nat] /\ last_applied' = commit_index'
        /\ app_state' \in [Server -> Seq(LogCommand)]
    BY <1>1, <1>2, <1>3, <1>5, AppliedTypes
  <1>7. /\ chosen' \in Seq([entry : Entry, at : Nat])
        /\ Len(chosen) <= Len(chosen') /\ last <= Len(chosen')
    BY <1>1, <1>2, <1>3, <1>5, ChosenTypes
  <1>8. /\ DiskTypes'
        /\ \A j \in Server : last_included_index'[j] = last_included_index[j]
                             \/ (j = i /\ last_included_index'[j] = last)
    <2>1. app_state'[i] \in Seq(LogCommand)
      BY <1>6
    <2> QED BY <1>1, <1>2, <1>3, <1>4, <1>5, <2>1, CompactTypes
  <1>9. Len(chosen') \in Nat /\ Len(chosen) \in Nat
    BY <1>7, WithinFacts
  <1>10. ApplyTypes'
    <2>1. ASSUME NEW j \in Server
          PROVE  last_included_index'[j] <= commit_index'[j] /\ commit_index'[j] <= Len(chosen')
      <3>1. /\ last_included_index[j] \in Nat /\ commit_index[j] \in Nat
            /\ last_included_index[j] <= commit_index[j] /\ commit_index[j] <= Len(chosen)
            /\ commit_index[i] <= LastIndex(i) /\ LastIndex(i) \in Nat
        BY WithinFacts
      <3>2. CASE j = i
        <4>1. commit_index'[j] = last /\ last_included_index'[j] \in {last_included_index[j], last}
          BY <1>6, <1>8, <3>2 DEF ApplyTypes
        <4>2. last_included_index[j] <= last
          BY <3>1, <3>2 DEF last
        <4> QED BY <1>1, <1>7, <4>1, <4>2
      <3>3. CASE j # i
        <4>1. commit_index'[j] = commit_index[j] /\ last_included_index'[j] = last_included_index[j]
          BY <1>5, <1>6, <1>8, <3>3 DEF ApplyTypes
        <4> QED BY <1>7, <1>9, <3>1, <4>1
      <3> QED BY <3>2, <3>3
    <2> QED BY <1>6, <1>7, <2>1 DEF ApplyTypes
  <1>11. ClientTypes'
    <2>1. \A w \in acked' : w.index <= Len(chosen')
      BY <1>2, <1>7, <1>9 DEF TypesInv, ClientTypes, Write
    <2> QED BY <1>2, <2>1 DEF TypesInv, ClientTypes
  <1>12. MessageTypes'
    <2>1. /\ \A m \in append_requests' : m.leader_commit <= Len(chosen')
          /\ \A m \in snap_requests' : m.last_included_index <= Len(chosen')
      <3>1. /\ \A m \in append_requests : m.leader_commit \in Nat /\ m.leader_commit <= Len(chosen)
            /\ \A m \in snap_requests :
                 m.last_included_index \in Nat /\ m.last_included_index <= Len(chosen)
        BY DEF TypesInv, MessageTypes, AppendRequest, SnapRequest
      <3> QED BY <1>2, <1>7, <1>9, <3>1
    <2> QED BY <1>2, <2>1 DEF TypesInv, MessageTypes
  <1> QED BY <1>3, <1>8, <1>10, <1>11, <1>12 DEF StateTypes

LEMMA TickTypes ==
    ASSUME TypesInv, IndicesWithinLog, NEW i \in Server, QuietTick(i) \/ LeaderTick(i)
    PROVE  StateTypes'
  <1>1. /\ DiskTypes' /\ ApplyTypes'
        /\ UNCHANGED <<chosen, vote_requests, vote_replies>>
    BY CompactedTypes DEF QuietTick, LeaderTick, applyVars, ghostVars, voteMsgs
  <1>2. ClientTypes'
    BY DEF TypesInv, ClientTypes, QuietTick, LeaderTick, clientVars, ghostVars, counterVars
  <1>3. CASE QuietTick(i)
    BY <1>1, <1>2, <1>3 DEF StateTypes, TypesInv, PeerTypes, MessageTypes, QuietTick, leaderVars,
       voteMsgs, appendMsgs, snapMsgs
  <1>4. CASE LeaderTick(i)
    <2>1. /\ PeerTypes'
          /\ append_requests' \subseteq AppendRequest /\ snap_requests' \subseteq SnapRequest
          /\ UNCHANGED <<append_replies, snap_replies>>
          /\ \A m \in append_requests' : m.leader_commit <= Len(chosen)
          /\ \A m \in snap_requests' : m.last_included_index <= Len(chosen)
      BY <1>4, WithinFacts, SentTypes DEF LeaderTick
    <2> QED BY <1>1, <1>2, <2>1 DEF StateTypes, TypesInv, MessageTypes
  <1> QED BY <1>3, <1>4

\* What is bounded by the committed entries stays so when there are more of them.
LEMMA BoundsStay ==
    ASSUME TypesInv, chosen' \in Seq([entry : Entry, at : Nat]), Len(chosen) <= Len(chosen')
    PROVE  /\ \A m \in append_requests : m.leader_commit <= Len(chosen')
           /\ \A m \in snap_requests : m.last_included_index <= Len(chosen')
           /\ \A w \in acked : w.index <= Len(chosen')
           /\ \A j \in Server : commit_index[j] <= Len(chosen')
  <1>1. Len(chosen) \in Nat /\ Len(chosen') \in Nat
    BY DEF TypesInv, ApplyTypes
  <1>2. /\ \A m \in append_requests : m.leader_commit \in Nat /\ m.leader_commit <= Len(chosen)
        /\ \A m \in snap_requests :
             m.last_included_index \in Nat /\ m.last_included_index <= Len(chosen)
        /\ \A w \in acked : w.index \in Nat /\ w.index <= Len(chosen)
        /\ \A j \in Server : commit_index[j] \in Nat /\ commit_index[j] <= Len(chosen)
    BY DEF TypesInv, MessageTypes, AppendRequest, SnapRequest, ClientTypes, Write, ApplyTypes
  <1> QED BY <1>1, <1>2

\* Leader i commits and applies its log L up to c.
LEMMA CommittedTypes ==
    ASSUME TypesInv, NEW i \in Server, NEW t \in Nat, NEW L \in Seq(Entry), NEW c \in Nat,
           commit_index[i] <= c, c <= last_included_index[i] + Len(L),
           ApplyLogs(i, L, c), Choose(i, t, L, c), UNCHANGED last_included_index
    PROVE  /\ ApplyTypes' /\ Len(chosen) <= Len(chosen') /\ c <= Len(chosen')
           /\ Len(chosen') \in Nat
  <1>1. DiskTypes /\ ApplyTypes
    BY DEF TypesInv
  <1>2. /\ commit_index' = [commit_index EXCEPT ![i] = c]
        /\ commit_index' \in [Server -> Nat] /\ last_applied' = commit_index'
        /\ app_state' \in [Server -> Seq(LogCommand)]
    BY <1>1, AppliedTypes
  <1>3. /\ chosen' \in Seq([entry : Entry, at : Nat])
        /\ Len(chosen) <= Len(chosen') /\ c <= Len(chosen')
    BY <1>1, ChosenTypes
  <1>4. \A j \in Server : commit_index[j] <= Len(chosen')
    BY <1>3, BoundsStay
  <1>5. Len(chosen') \in Nat
    BY <1>3
  <1>6. ASSUME NEW j \in Server
        PROVE  last_included_index'[j] <= commit_index'[j] /\ commit_index'[j] <= Len(chosen')
    <2>1. /\ last_included_index'[j] = last_included_index[j]
          /\ last_included_index[j] \in Nat /\ commit_index[j] \in Nat
          /\ last_included_index[j] <= commit_index[j]
      BY <1>1 DEF DiskTypes, ApplyTypes
    <2>2. commit_index'[j] = IF j = i THEN c ELSE commit_index[j]
      BY <1>1, <1>2 DEF ApplyTypes
    <2> QED BY <1>3, <1>4, <2>1, <2>2
  <1> QED BY <1>2, <1>3, <1>5, <1>6 DEF ApplyTypes

LEMMA BatchTypes ==
    ASSUME NEW b \in Batches, NEW t \in Nat, NEW from \in Nat
    PROVE  LET es == [k \in 1 .. Len(b) |-> [term |-> t, command |-> b[k]]]
           IN  /\ Len(b) \in Nat /\ es \in Seq(Entry) /\ Len(es) = Len(b)
               /\ {[index |-> from + k - 1, command |-> b[k]] : k \in 1 .. Len(b)} \subseteq Write
               /\ {b[k] : k \in 1 .. Len(b)} \subseteq Command
  <1>1. PICK n \in 1 .. MaxBatch : b \in [1 .. n -> Command \ issued]
    BY DEF Batches
  <1>2. n \in Nat /\ 1 <= n
    BY <1>1, BoundAssumption
  <1>3. b \in Seq(Command) /\ Len(b) = n
    <2>1. b \in [1 .. n -> Command]
      BY <1>1
    <2> QED BY <1>2, <2>1, FunctionIsSeq
  <1>4. \A k \in 1 .. n : b[k] \in Command
    BY <1>1
  <1> DEFINE es == [k \in 1 .. n |-> [term |-> t, command |-> b[k]]]
  <1>5. es \in [1 .. n -> Entry]
    BY <1>4 DEF Entry
  <1>6. es \in Seq(Entry) /\ Len(es) = n
    <2> HIDE DEF es
    <2> QED BY <1>2, <1>5, FunctionIsSeq
  <1>7. \A k \in 1 .. n : [index |-> from + k - 1, command |-> b[k]] \in Write
    BY <1>2, <1>4 DEF Write
  <1> QED BY <1>2, <1>3, <1>4, <1>6, <1>7

LEMMA ClientRequestTypes ==
    ASSUME TypesInv, IndicesWithinLog, NEW i \in Server, NEW b \in Batches, ClientRequest(i, b)
    PROVE  StateTypes'
  <1> DEFINE es == [k \in 1 .. Len(b) |-> [term |-> current_term[i], command |-> b[k]]]
             L == log[i] \o es
             from == LastIndex(i) + 1
             last == LastIndex(i) + Len(b)
             mine == {[index |-> from + k - 1, command |-> b[k]] : k \in 1 .. Len(b)}
             D == SaveEntries(db_log[i], from, es)
  <1>0. current_term[i] \in Nat /\ from \in Nat
    BY WithinFacts
  <1>1. /\ Len(b) \in Nat /\ es \in Seq(Entry) /\ Len(es) = Len(b) /\ mine \subseteq Write
        /\ {b[k] : k \in 1 .. Len(b)} \subseteq Command
    BY <1>0, BatchTypes
  <1>2. /\ log' = [log EXCEPT ![i] = L] /\ db_log' = [db_log EXCEPT ![i] = D]
        /\ issued' = issued \cup {b[k] : k \in 1 .. Len(b)}
        /\ UNCHANGED <<last_included_index, last_included_term, snapshot_data,
                       pending_read_indices, vote_requests, vote_replies, reads>>
    BY DEF ClientRequest, voteMsgs, counterVars
  <1>3. \A w \in mine : w.index <= last
    BY <1>0, <1>1, WithinFacts
  <1>4. CASE Peers(i) = {}
    <2>1. /\ ApplyLogs(i, L, last) /\ acked' = acked \cup mine
          /\ Choose(i, current_term[i], L, last)
          /\ UNCHANGED <<pending_replies, append_requests, append_replies, snap_requests,
                         snap_replies, next_index, match_index>>
      BY <1>4 DEF ClientRequest, appendMsgs, snapMsgs, leaderVars
    <2> HIDE DEF es, mine
    <2>2. L \in Seq(Entry) /\ Len(L) = Len(log[i]) + Len(b)
      <3>1. log[i] \in Seq(Entry)
        BY WithinFacts
      <3>2. L \in Seq(Entry) /\ Len(L) = Len(log[i]) + Len(es)
        BY <1>1, <3>1, ConcatProperties
      <3> QED BY <1>1, <3>2
    <2> HIDE DEF L
    <2>3. /\ last \in Nat /\ commit_index[i] <= last
          /\ last <= last_included_index[i] + Len(L)
      BY <1>1, <2>2, WithinFacts
    <2> HIDE DEF last, D, from
    <2>4. /\ ApplyTypes' /\ Len(chosen) <= Len(chosen') /\ last <= Len(chosen')
          /\ Len(chosen') \in Nat
      BY <1>0, <1>2, <2>1, <2>2, <2>3, CommittedTypes
    <2>5. DiskTypes'
      <3>1. IsDatabase(D)
        BY <1>0, <1>1, WithinFacts, SavedTypes DEF D
      <3> QED BY <1>2, <2>2, <3>1 DEF TypesInv, DiskTypes
    <2>6. chosen' \in Seq([entry : Entry, at : Nat])
      BY <2>4 DEF ApplyTypes
    <2>7. ClientTypes'
      <3>1. \A w \in acked : w.index <= Len(chosen')
        BY <2>4, <2>6, BoundsStay
      <3>2. \A w \in mine : w.index <= Len(chosen')
        BY <1>1, <1>3, <2>3, <2>4 DEF Write
      <3> QED BY <1>1, <1>2, <2>1, <3>1, <3>2 DEF TypesInv, ClientTypes
    <2>8. MessageTypes'
      BY <1>2, <2>1, <2>4, <2>6, BoundsStay DEF TypesInv, MessageTypes
    <2>9. PeerTypes'
      BY <2>1 DEF TypesInv, PeerTypes
    <2> QED BY <2>4, <2>5, <2>7, <2>8, <2>9 DEF StateTypes
  <1>5. CASE Peers(i) # {}
    <2>1. /\ pending_replies' = [pending_replies EXCEPT ![i] = @ \cup mine]
          /\ SendHeartbeats(i, L, commit_index[i])
          /\ UNCHANGED <<commit_index, last_applied, app_state, acked, chosen>>
      BY <1>5 DEF ClientRequest, applyVars
    <2> HIDE DEF es, mine
    <2>2. L \in Seq(Entry)
      <3>1. log[i] \in Seq(Entry)
        BY WithinFacts
      <3> QED BY <1>1, <3>1, ConcatProperties
    <2>3. IsDatabase(D)
      BY <1>0, <1>1, WithinFacts, SavedTypes
    <2> HIDE DEF L, D, from
    <2>4. DiskTypes'
      BY <1>2, <2>2, <2>3 DEF TypesInv, DiskTypes
    <2>5. ApplyTypes'
      BY <1>2, <2>1 DEF TypesInv, ApplyTypes
    <2>6. /\ PeerTypes'
          /\ append_requests' \subseteq AppendRequest /\ snap_requests' \subseteq SnapRequest
          /\ UNCHANGED <<append_replies, snap_replies>>
          /\ \A m \in append_requests' : m.leader_commit <= Len(chosen)
          /\ \A m \in snap_requests' : m.last_included_index <= Len(chosen)
      BY <2>1, <2>2, WithinFacts, SentTypes
    <2>7. ClientTypes'
      BY <1>1, <1>2, <2>1 DEF TypesInv, ClientTypes
    <2>8. MessageTypes'
      BY <1>2, <2>1, <2>6 DEF TypesInv, MessageTypes
    <2> QED BY <2>4, <2>5, <2>6, <2>7, <2>8 DEF StateTypes
  <1> QED BY <1>4, <1>5

LEMMA ReadIndexTypes ==
    ASSUME TypesInv, IndicesWithinLog, NEW i \in Server, GetReadIndex(i)
    PROVE  StateTypes'
  <1> DEFINE r == [read_index |-> commit_index[i], term |-> current_term[i], acks |-> {i},
                   required |-> NewestAcked, id |-> reads + 1]
             R == pending_read_indices[i] \cup {r}
  <1>1. /\ ServeReads(i, R) /\ SendHeartbeats(i, log[i], commit_index[i]) /\ reads' = reads + 1
        /\ UNCHANGED <<db_log, last_included_index, last_included_term, snapshot_data, log,
                       commit_index, last_applied, app_state, pending_replies, vote_requests,
                       vote_replies, chosen, acked, issued>>
    BY DEF GetReadIndex, diskVars, applyVars, voteMsgs
  <1>2. r \in ReadRequest
    <2>1. NewestAcked \in Nat /\ reads \in Nat
      BY NewestAckedType DEF TypesInv, ClientTypes
    <2>2. commit_index[i] \in Nat /\ current_term[i] \in Nat
      BY WithinFacts
    <2> QED BY <2>1, <2>2 DEF ReadRequest
  <1> HIDE DEF r
  <1>3. pending_read_indices' \in [Server -> SUBSET ReadRequest]
    <2>1. R \in SUBSET ReadRequest
      BY <1>2 DEF TypesInv, ClientTypes
    <2> HIDE DEF R
    <2> QED BY <1>1, <2>1, ServedTypes DEF TypesInv
  <1>4. /\ PeerTypes'
        /\ append_requests' \subseteq AppendRequest /\ snap_requests' \subseteq SnapRequest
        /\ UNCHANGED <<append_replies, snap_replies>>
        /\ \A m \in append_requests' : m.leader_commit <= Len(chosen)
        /\ \A m \in snap_requests' : m.last_included_index <= Len(chosen)
    BY <1>1, WithinFacts, SentTypes
  <1>5. DiskTypes' /\ ApplyTypes'
    BY <1>1 DEF TypesInv, DiskTypes, ApplyTypes
  <1>6. ClientTypes'
    BY <1>1, <1>3 DEF TypesInv, ClientTypes
  <1>7. MessageTypes'
    BY <1>1, <1>4 DEF TypesInv, MessageTypes
  <1> QED BY <1>4, <1>5, <1>6, <1>7 DEF StateTypes

-----------------------------------------------------------------------------
\* A step that moves nothing but terms, votes, what waits for a leader and messages.
LEMMA OtherwiseSame ==
    ASSUME TypesInv,
           UNCHANGED <<db_log, last_included_index, last_included_term, snapshot_data, log,
                       commit_index, last_applied, app_state, next_index, match_index,
                       chosen, acked, issued, reads>>,
           pending_replies' \in [Server -> SUBSET Write],
           pending_read_indices' \in [Server -> SUBSET ReadRequest]
    PROVE  DiskTypes' /\ ApplyTypes' /\ PeerTypes' /\ ClientTypes'
  BY DEF TypesInv, DiskTypes, ApplyTypes, PeerTypes, ClientTypes

\* The clients of a node that may step down.
LEMMA WaitingTypes ==
    ASSUME TypesInv, NEW i \in Server, NEW t, StepDown(i, t) \/ UNCHANGED clientVars
    PROVE  /\ pending_replies' \in [Server -> SUBSET Write]
           /\ pending_read_indices' \in [Server -> SUBSET ReadRequest]
  <1>1. CASE StepDown(i, t)
    BY <1>1, SteppedDownTypes DEF TypesInv
  <1>2. CASE UNCHANGED clientVars
    BY <1>2 DEF TypesInv, ClientTypes, clientVars
  <1> QED BY <1>1, <1>2

LEMMA RequestVoteTypes ==
    ASSUME TypesInv, ElectionTypeOK', NEW m \in vote_requests, NEW lost \in BOOLEAN,
           HandleRequestVote(m, lost)
    PROVE  StateTypes'
  <1> DEFINE i == m.dest
             r == [term |-> current_term'[i], vote_granted |-> GrantsVote(i, m), peer_id |-> i,
                   dest |-> m.candidate_id]
  <1>1. i \in Server /\ m.candidate_id \in Server /\ current_term'[i] \in Nat
    BY DEF TypesInv, ElectionTypeOK
  <1>2. DiskTypes' /\ ApplyTypes' /\ PeerTypes' /\ ClientTypes'
    <2>1. StepDown(i, m.term) \/ UNCHANGED clientVars
      BY DEF HandleRequestVote
    <2>2. UNCHANGED <<db_log, last_included_index, last_included_term, snapshot_data, log,
                      commit_index, last_applied, app_state, next_index, match_index,
                      chosen, acked, issued, reads>>
      BY DEF HandleRequestVote, diskVars, applyVars, leaderVars, ghostVars
    <2> QED BY <1>1, <2>1, <2>2, WaitingTypes, OtherwiseSame
  <1>3. r \in VoteReply
    <2>1. GrantsVote(i, m) \in BOOLEAN
      BY DEF GrantsVote
    <2> QED BY <1>1, <2>1 DEF VoteReply
  <1>4. vote_requests' \subseteq vote_requests /\ vote_replies' \subseteq vote_replies \cup {r}
    BY DEF HandleRequestVote, Consume, Answer
  <1>5. UNCHANGED <<append_requests, append_replies, snap_requests, snap_replies, chosen>>
    BY DEF HandleRequestVote, appendMsgs, snapMsgs, ghostVars
  <1> HIDE DEF r
  <1>6. MessageTypes'
    BY <1>3, <1>4, <1>5 DEF TypesInv, MessageTypes
  <1> QED BY <1>2, <1>6 DEF StateTypes

LEMMA AppendEntriesTypes ==
    ASSUME TypesInv, ElectionTypeOK', IndicesWithinLog, NEW m \in append_requests,
           NEW lost \in BOOLEAN, HandleAppendEntries(m, lost)
    PROVE  StateTypes'
  <1> DEFINE i == m.dest
             success == m.term >= current_term[i] /\ Matches(i, m)
             commits == success /\ m.leader_commit > commit_index[i]
             M == MergedLog(i, m)
             D == MergedDb(i, m)
             c == FollowerCommit(i, m)
             r == [term |-> current_term'[i], success |-> success,
                   match_index |-> IF success THEN MatchReported(m) ELSE 0,
                   peer_id |-> i, dest |-> m.leader_id]
  <1>1. /\ i \in Server /\ m.leader_id \in Server /\ current_term'[i] \in Nat
        /\ m \in AppendRequest /\ m.leader_commit \in Nat /\ m.leader_commit <= Len(chosen)
    BY DEF TypesInv, ElectionTypeOK, MessageTypes, AppendRequest
  <1>2. /\ pending_replies' \in [Server -> SUBSET Write]
        /\ pending_read_indices' \in [Server -> SUBSET ReadRequest]
    <2>1. StepDown(i, m.term) \/ UNCHANGED clientVars
      BY DEF HandleAppendEntries
    <2> QED BY <1>1, <2>1, WaitingTypes
  <1>3. /\ UNCHANGED <<last_included_index, last_included_term, snapshot_data, next_index,
                       match_index, vote_requests, vote_replies, snap_requests, snap_replies,
                       chosen, acked, issued, reads>>
        /\ append_requests' \subseteq append_requests
        /\ append_replies' \subseteq append_replies \cup {r}
    BY DEF HandleAppendEntries, Consume, Answer, leaderVars, voteMsgs, snapMsgs, ghostVars
  <1>4. PeerTypes' /\ ClientTypes'
    BY <1>2, <1>3 DEF TypesInv, PeerTypes, ClientTypes
  <1>5. success => M \in Seq(Entry) /\ IsDatabase(D)
    BY <1>1, MergedTypes DEF TypesInv
  <1>6. DiskTypes'
    <2>1. CASE success
      <3>1. log' = [log EXCEPT ![i] = M] /\ db_log' = [db_log EXCEPT ![i] = D]
        BY <2>1 DEF HandleAppendEntries
      <3>2. M \in Seq(Entry) /\ IsDatabase(D)
        BY <1>5, <2>1
      <3> HIDE DEF M, D, success
      <3> QED BY <1>1, <1>3, <3>1, <3>2 DEF TypesInv, DiskTypes
    <2>2. CASE ~success
      <3>1. UNCHANGED <<log, db_log>>
        BY <2>2 DEF HandleAppendEntries
      <3> QED BY <1>3, <3>1 DEF TypesInv, DiskTypes
    <2> QED BY <2>1, <2>2
  <1>7. ApplyTypes'
    <2>1. CASE commits
      <3>1. ApplyLogs(i, M, c)
        BY <2>1 DEF HandleAppendEntries
      <3>2. M \in Seq(Entry) /\ Len(M) \in Nat
        BY <1>5, <2>1
      <3>3. c = IF m.leader_commit <= last_included_index[i] + Len(M) THEN m.leader_commit
                ELSE last_included_index[i] + Len(M)
        BY DEF FollowerCommit
      <3>4. /\ last_included_index[i] \in Nat /\ last_included_index[i] <= commit_index[i]
            /\ commit_index[i] \in Nat /\ Len(chosen) \in Nat /\ DiskTypes /\ ApplyTypes
        BY <1>1, WithinFacts DEF TypesInv
      <3>5. m.leader_commit > commit_index[i]
        BY <2>1
      <3> HIDE DEF M, c, success, commits, i
      <3>6. /\ c \in Nat /\ c <= last_included_index[i] + Len(M)
            /\ last_included_index[i] <= c /\ c <= Len(chosen)
        BY <1>1, <3>2, <3>3, <3>4, <3>5
      <3>7. /\ commit_index' = [commit_index EXCEPT ![i] = c]
            /\ commit_index' \in [Server -> Nat] /\ last_applied' = commit_index'
            /\ app_state' \in [Server -> Seq(LogCommand)]
        BY <1>1, <3>1, <3>2, <3>4, <3>6, AppliedTypes
      <3> QED BY <1>1, <1>3, <3>6, <3>7 DEF TypesInv, ApplyTypes
    <2>2. CASE ~commits
      <3>1. UNCHANGED <<commit_index, last_applied, app_state>>
        BY <2>2 DEF HandleAppendEntries, applyVars
      <3> QED BY <1>3, <3>1 DEF TypesInv, ApplyTypes
    <2> QED BY <2>1, <2>2
  <1>8. r \in AppendReply
    <2>1. success \in BOOLEAN
      BY DEF Matches
    <2>2. MatchReported(m) \in Nat
      <3>1. m.prev_log_index \in Nat /\ m.entries \in Seq(Entry)
        BY <1>1 DEF AppendRequest
      <3> QED BY <3>1 DEF MatchReported
    <2> QED BY <1>1, <2>1, <2>2 DEF AppendReply
  <1> HIDE DEF r
  <1>9. MessageTypes'
    BY <1>3, <1>8 DEF TypesInv, MessageTypes
  <1> QED BY <1>4, <1>6, <1>7, <1>9 DEF StateTypes

LEMMA InstallSnapshotTypes ==
    ASSUME TypesInv, ElectionTypeOK', NEW m \in snap_requests, NEW lost \in BOOLEAN,
           HandleInstallSnapshot(m, lost)
    PROVE  StateTypes'
  <1> DEFINE i == m.dest
             D == DeleteKeys(db_log[i], (last_included_index[i] + 1) .. m.last_included_index)
             r == [term |-> current_term'[i], last_included_index |-> last_included_index'[i],
                   peer_id |-> i, dest |-> m.leader_id]
  <1>1. /\ i \in Server /\ m.leader_id \in Server /\ current_term'[i] \in Nat
        /\ m \in SnapRequest /\ m.last_included_index \in Nat /\ m.last_included_term \in Nat
        /\ m.data \in Seq(LogCommand) /\ m.last_included_index <= Len(chosen)
    BY DEF TypesInv, ElectionTypeOK, MessageTypes, SnapRequest, LogCommand
  <1>2. /\ pending_replies' \in [Server -> SUBSET Write]
        /\ pending_read_indices' \in [Server -> SUBSET ReadRequest]
    <2>1. StepDown(i, m.term) \/ UNCHANGED clientVars
      BY DEF HandleInstallSnapshot
    <2> QED BY <1>1, <2>1, WaitingTypes
  <1>3. /\ UNCHANGED <<next_index, match_index, vote_requests, vote_replies, append_requests,
                       append_replies, chosen, acked, issued, reads>>
        /\ snap_requests' \subseteq snap_requests
        /\ snap_replies' \subseteq snap_replies \cup {r}
    BY DEF HandleInstallSnapshot, Consume, Answer, leaderVars, voteMsgs, appendMsgs, ghostVars
  <1>4. PeerTypes' /\ ClientTypes'
    BY <1>2, <1>3 DEF TypesInv, PeerTypes, ClientTypes
  <1>5. DiskTypes' /\ ApplyTypes'
    <2>1. CASE Installs(i, m)
      <3>1. /\ db_log' = [db_log EXCEPT ![i] = D]
            /\ last_included_index' = [last_included_index EXCEPT ![i] = m.last_included_index]
            /\ last_included_term' = [last_included_term EXCEPT ![i] = m.last_included_term]
            /\ snapshot_data' = [snapshot_data EXCEPT ![i] = m.data]
            /\ app_state' = [app_state EXCEPT ![i] = m.data]
            /\ log' = [log EXCEPT ![i] = <<>>]
            /\ commit_index' = [commit_index EXCEPT ![i] = m.last_included_index]
            /\ last_applied' = [last_applied EXCEPT ![i] = m.last_included_index]
        BY <2>1 DEF HandleInstallSnapshot
      <3>2. IsDatabase(D)
        BY <1>1, NodeTypes, DeletedTypes DEF TypesInv
      <3>3. <<>> \in Seq(Entry)
        OBVIOUS
      <3> HIDE DEF D, i
      <3>4. DiskTypes'
        BY <1>1, <3>1, <3>2, <3>3 DEF TypesInv, DiskTypes
      <3>5. ApplyTypes'
        BY <1>1, <1>3, <3>1 DEF TypesInv, DiskTypes, ApplyTypes
      <3> QED BY <3>4, <3>5
    <2>2. CASE ~Installs(i, m)
      <3>1. UNCHANGED <<db_log, last_included_index, last_included_term, snapshot_data, log,
                        commit_index, last_applied, app_state>>
        BY <2>2 DEF HandleInstallSnapshot, diskVars, applyVars
      <3> QED BY <1>3, <3>1 DEF TypesInv, DiskTypes, ApplyTypes
    <2> QED BY <2>1, <2>2
  <1>6. r \in SnapReply
    BY <1>1, <1>5 DEF SnapReply, DiskTypes
  <1> HIDE DEF r
  <1>7. MessageTypes'
    BY <1>3, <1>6 DEF TypesInv, MessageTypes
  <1> QED BY <1>4, <1>5, <1>7 DEF StateTypes

-----------------------------------------------------------------------------
\* A reply that makes its receiver step down, or changes nothing.
LEMMA IdleReplyTypes ==
    ASSUME TypesInv, NEW i \in Server, NEW t,
           \/ StepDownOnReply(i, t)
           \/ UNCHANGED <<termVars, diskVars, role, log, applyVars, voters, leaderVars,
                          clientVars, ghostVars, counterVars>>,
           UNCHANGED <<vote_requests, append_requests, snap_requests>>,
           vote_replies' \subseteq vote_replies, append_replies' \subseteq append_replies,
           snap_replies' \subseteq snap_replies
    PROVE  StateTypes'
  <1>1. StepDown(i, t) \/ UNCHANGED clientVars
    BY DEF StepDownOnReply
  <1>2. UNCHANGED <<db_log, last_included_index, last_included_term, snapshot_data, log,
                    commit_index, last_applied, app_state, next_index, match_index,
                    chosen, acked, issued, reads>>
    BY DEF StepDownOnReply, diskVars, applyVars, leaderVars, ghostVars, counterVars
  <1>3. DiskTypes' /\ ApplyTypes' /\ PeerTypes' /\ ClientTypes'
    BY <1>1, <1>2, WaitingTypes, OtherwiseSame
  <1>4. MessageTypes'
    BY <1>2 DEF TypesInv, MessageTypes
  <1> QED BY <1>3, <1>4 DEF StateTypes

LEMMA VoteResponseTypes ==
    ASSUME TypesInv, NEW m \in vote_replies, HandleRequestVoteResponse(m)
    PROVE  StateTypes'
  <1> DEFINE i == m.dest
             t == current_term[i]
             all == voters[i] \cup {m.peer_id}
             counts == role[i] = Candidate /\ m.term = t /\ m.vote_granted
             e == [term |-> t, command |-> NoOp]
             L == LogWithNoOp(i, t)
             D == SaveEntries(db_log[i], LastIndex(i) + 1, <<e>>)
  <1>1. i \in Server /\ t \in Nat
    BY DEF TypesInv, ElectionTypeOK
  <1>2. /\ vote_replies' \subseteq vote_replies
        /\ UNCHANGED <<vote_requests, append_requests, append_replies, snap_requests, snap_replies>>
    BY DEF HandleRequestVoteResponse, appendMsgs, snapMsgs
  <1>3. CASE counts /\ HasMajority(all)
    <2>1. /\ BecomeLeader(i, t) /\ log' = [log EXCEPT ![i] = L] /\ db_log' = [db_log EXCEPT ![i] = D]
          /\ UNCHANGED <<last_included_index, last_included_term, snapshot_data, commit_index,
                         last_applied, app_state, pending_replies, pending_read_indices,
                         chosen, acked, issued, reads>>
      BY <1>3 DEF HandleRequestVoteResponse, StepDownOnReply, applyVars, clientVars, counterVars
    <2>2. PeerTypes' /\ L \in Seq(Entry) /\ e \in Entry
      BY <1>1, <2>1, LeadershipTypes
    <2>3. IsDatabase(D)
      <3>1. <<e>> \in Seq(Entry)
        BY <2>2
      <3>2. LastIndex(i) + 1 \in Nat /\ IsDatabase(db_log[i])
        BY <1>1, NodeTypes DEF TypesInv
      <3> HIDE DEF e
      <3> QED BY <3>1, <3>2, SavedTypes
    <2> HIDE DEF L, D, i
    <2>4. DiskTypes'
      BY <1>1, <2>1, <2>2, <2>3 DEF TypesInv, DiskTypes
    <2>5. ApplyTypes' /\ ClientTypes'
      BY <2>1 DEF TypesInv, ApplyTypes, ClientTypes
    <2>6. MessageTypes'
      BY <1>2, <2>1 DEF TypesInv, MessageTypes
    <2> QED BY <2>2, <2>4, <2>5, <2>6 DEF StateTypes
  <1>4. CASE counts /\ ~HasMajority(all)
    <2>1. UNCHANGED <<db_log, last_included_index, last_included_term, snapshot_data, log,
                      commit_index, last_applied, app_state, next_index, match_index,
                      pending_replies, pending_read_indices, chosen, acked, issued, reads>>
      BY <1>4 DEF HandleRequestVoteResponse, StepDownOnReply, diskVars, applyVars, leaderVars,
         clientVars, ghostVars, counterVars
    <2>2. DiskTypes' /\ ApplyTypes' /\ PeerTypes' /\ ClientTypes'
      BY <2>1 DEF TypesInv, DiskTypes, ApplyTypes, PeerTypes, ClientTypes
    <2>3. MessageTypes'
      BY <1>2, <2>1 DEF TypesInv, MessageTypes
    <2> QED BY <2>2, <2>3 DEF StateTypes
  <1>5. CASE ~counts
    <2>1. \/ StepDownOnReply(i, m.term)
          \/ UNCHANGED <<termVars, diskVars, role, log, applyVars, voters, leaderVars,
                         clientVars, ghostVars, counterVars>>
      BY <1>5 DEF HandleRequestVoteResponse
    <2>2. append_replies' \subseteq append_replies /\ snap_replies' \subseteq snap_replies
      BY <1>2
    <2> QED BY <1>1, <1>2, <2>1, <2>2, IdleReplyTypes
  <1> QED BY <1>3, <1>4, <1>5

\* What AdvanceCommit of a leader does, its peers matching mi.
LEMMA AdvancedTypes ==
    ASSUME TypesInv, NEW i \in Server, NEW mi \in [Server -> Nat], AdvanceCommit(i, mi),
           UNCHANGED <<last_included_index, issued, reads>>,
           pending_read_indices' \in [Server -> SUBSET ReadRequest]
    PROVE  /\ ApplyTypes' /\ ClientTypes' /\ Len(chosen) <= Len(chosen')
           /\ chosen' \in Seq([entry : Entry, at : Nat])
  <1> DEFINE new == {k \in AgreedIndices(i, mi) : Committable(i, mi, k)}
             c == CHOOSE k \in new : TRUE
             done == {w \in pending_replies[i] : w.index <= c}
  <1>1. CASE new = {}
    <2>1. UNCHANGED <<commit_index, last_applied, app_state, pending_replies, acked, chosen>>
      BY <1>1 DEF AdvanceCommit, applyVars
    <2>2. Len(chosen) \in Nat
      BY DEF TypesInv, ApplyTypes
    <2> QED BY <2>1, <2>2 DEF TypesInv, ApplyTypes, ClientTypes
  <1>2. CASE new # {}
    <2>1. ApplyLogs(i, log[i], c) /\ AnswerWrites(i, c) /\ Choose(i, current_term[i], log[i], c)
      BY <1>2 DEF AdvanceCommit
    <2>2. c \in new
      BY <1>2
    <2> HIDE DEF c
    <2>3. /\ log[i] \in Seq(Entry) /\ LastIndex(i) = last_included_index[i] + Len(log[i])
          /\ LastIndex(i) \in Nat /\ commit_index[i] \in Nat /\ current_term[i] \in Nat
      BY NodeTypes DEF TypesInv, ApplyTypes, ElectionTypeOK
    <2>4. c \in Nat
      <3>1. \A j \in Server : MatchOf(i, mi)[j] \in Nat
        BY <2>3 DEF MatchOf
      <3> QED BY <2>2, <3>1 DEF AgreedIndices
    <2>5. commit_index[i] <= c /\ c <= last_included_index[i] + Len(log[i])
      BY <2>2, <2>3, <2>4 DEF Committable
    <2>6. /\ ApplyTypes' /\ Len(chosen) <= Len(chosen') /\ c <= Len(chosen')
          /\ Len(chosen') \in Nat
      BY <2>1, <2>3, <2>4, <2>5, CommittedTypes
    <2>7. chosen' \in Seq([entry : Entry, at : Nat])
      BY <2>6 DEF ApplyTypes
    <2>8. /\ pending_replies' = [pending_replies EXCEPT ![i] = @ \ done]
          /\ acked' = acked \cup done
      BY <2>1 DEF AnswerWrites
    <2>9. \A w \in acked : w.index <= Len(chosen')
      BY <2>6, <2>7, BoundsStay
    <2>10. done \subseteq Write /\ \A w \in done : w.index <= Len(chosen')
      <3>1. \A w \in done : w \in Write /\ w.index \in Nat /\ w.index <= c
        BY DEF TypesInv, ClientTypes, Write
      <3> QED BY <2>4, <2>6, <3>1
    <2> HIDE DEF done
    <2>11. ClientTypes'
      BY <2>8, <2>9, <2>10 DEF TypesInv, ClientTypes
    <2> QED BY <2>6, <2>7, <2>11
  <1> QED BY <1>1, <1>2

LEMMA AppendResponseTypes ==
    ASSUME TypesInv, NEW m \in append_replies, HandleAppendEntriesResponse(m)
    PROVE  StateTypes'
  <1> DEFINE i == m.dest
             p == m.peer_id
             mine == role[i] = Leader /\ m.term = current_term[i]
  <1>1. i \in Server /\ p \in Server /\ m.match_index \in Nat
    BY DEF TypesInv, ElectionTypeOK, MessageTypes, AppendReply
  <1>2. /\ append_replies' \subseteq append_replies
        /\ UNCHANGED <<append_requests, vote_requests, vote_replies, snap_requests, snap_replies>>
    BY DEF HandleAppendEntriesResponse, voteMsgs, snapMsgs
  <1>3. CASE mine
    <2>1. /\ AdvanceCommit(i, match_index'[i])
          /\ UNCHANGED <<db_log, last_included_index, last_included_term, snapshot_data, log,
                         issued, reads>>
      BY <1>3 DEF HandleAppendEntriesResponse, StepDownOnReply, diskVars, counterVars
    <2>2. PeerTypes' /\ pending_read_indices' \in [Server -> SUBSET ReadRequest]
      <3>1. CASE m.success
        <4>1. /\ next_index' = [next_index EXCEPT ![i][p] = m.match_index + 1]
              /\ match_index' = [match_index EXCEPT ![i][p] = m.match_index]
              /\ ServeReads(i, AckReads(pending_read_indices[i], m.term, p))
          BY <1>3, <3>1 DEF HandleAppendEntriesResponse
        <4>2. AckReads(pending_read_indices[i], m.term, p) \in SUBSET ReadRequest
          BY <1>1, AckedReadTypes DEF TypesInv, ClientTypes
        <4>3. pending_read_indices' \in [Server -> SUBSET ReadRequest]
          BY <1>1, <4>1, <4>2, ServedTypes DEF TypesInv
        <4>4. PeerTypes'
          BY <1>1, <4>1 DEF TypesInv, PeerTypes
        <4> QED BY <4>3, <4>4
      <3>2. CASE ~m.success
        <4>1. /\ next_index' = [next_index EXCEPT ![i][p] = BackOff(i, @)]
              /\ UNCHANGED <<match_index, pending_read_indices>>
          BY <1>3, <3>2 DEF HandleAppendEntriesResponse
        <4>2. BackOff(i, next_index[i][p]) \in Nat
          <5>1. next_index[i][p] \in Nat /\ last_included_index[i] \in Nat
            BY <1>1 DEF TypesInv, PeerTypes, DiskTypes
          <5> QED BY <5>1 DEF BackOff
        <4> QED BY <1>1, <4>1, <4>2 DEF TypesInv, PeerTypes, ClientTypes
      <3> QED BY <3>1, <3>2
    <2>3. match_index'[i] \in [Server -> Nat]
      BY <1>1, <2>2 DEF PeerTypes
    <2>4. /\ ApplyTypes' /\ ClientTypes' /\ Len(chosen) <= Len(chosen')
          /\ chosen' \in Seq([entry : Entry, at : Nat])
      BY <1>1, <2>1, <2>2, <2>3, AdvancedTypes
    <2>5. DiskTypes'
      BY <2>1 DEF TypesInv, DiskTypes
    <2>6. MessageTypes'
      BY <1>2, <2>4, BoundsStay DEF TypesInv, MessageTypes
    <2> QED BY <2>2, <2>4, <2>5, <2>6 DEF StateTypes
  <1>4. CASE ~mine
    <2>1. \/ StepDownOnReply(i, m.term)
          \/ UNCHANGED <<termVars, diskVars, role, log, applyVars, voters, leaderVars,
                         clientVars, ghostVars, counterVars>>
      BY <1>4 DEF HandleAppendEntriesResponse
    <2>2. vote_replies' \subseteq vote_replies /\ snap_replies' \subseteq snap_replies
      BY <1>2
    <2> QED BY <1>1, <1>2, <2>1, <2>2, IdleReplyTypes
  <1> QED BY <1>3, <1>4

LEMMA SnapshotResponseTypes ==
    ASSUME TypesInv, NEW m \in snap_replies, HandleInstallSnapshotResponse(m)
    PROVE  StateTypes'
  <1> DEFINE i == m.dest
             p == PeerOfReply[i][m.peer_id]
             mine == role[i] = Leader /\ m.term = current_term[i]
  <1>1. /\ i \in Server /\ m.peer_id \in Server /\ m.last_included_index \in Nat
        /\ p \in Server \cup {Nil}
    BY PeerAssumption DEF TypesInv, MessageTypes, SnapReply
  <1>2. /\ snap_replies' \subseteq snap_replies
        /\ UNCHANGED <<snap_requests, vote_requests, vote_replies, append_requests, append_replies>>
    BY DEF HandleInstallSnapshotResponse, voteMsgs, appendMsgs
  <1>3. CASE mine /\ p # Nil
    <2>1. /\ next_index' = [next_index EXCEPT ![i][p] = m.last_included_index + 1]
          /\ match_index' = [match_index EXCEPT ![i][p] = m.last_included_index]
          /\ ServeReads(i, AckReads(pending_read_indices[i], m.term, m.peer_id))
          /\ UNCHANGED <<db_log, last_included_index, last_included_term, snapshot_data, log,
                         commit_index, last_applied, app_state, pending_replies, chosen, acked,
                         issued, reads>>
      BY <1>3 DEF HandleInstallSnapshotResponse, StepDownOnReply, diskVars, applyVars, counterVars
    <2>2. AckReads(pending_read_indices[i], m.term, m.peer_id) \in SUBSET ReadRequest
      BY <1>1, AckedReadTypes DEF TypesInv, ClientTypes
    <2>3. pending_read_indices' \in [Server -> SUBSET ReadRequest]
      BY <1>1, <2>1, <2>2, ServedTypes DEF TypesInv
    <2>4. PeerTypes'
      <3>1. p \in Server
        BY <1>1, <1>3
      <3> HIDE DEF p
      <3> QED BY <1>1, <2>1, <3>1 DEF TypesInv, PeerTypes
    <2>5. DiskTypes' /\ ApplyTypes' /\ ClientTypes'
      BY <2>1, <2>3 DEF TypesInv, DiskTypes, ApplyTypes, ClientTypes
    <2>6. MessageTypes'
      BY <1>2, <2>1 DEF TypesInv, MessageTypes
    <2> QED BY <2>4, <2>5, <2>6 DEF StateTypes
  <1>4. CASE ~(mine /\ p # Nil)
    <2>1. \/ StepDownOnReply(i, m.term)
          \/ UNCHANGED <<termVars, diskVars, role, log, applyVars, voters, leaderVars,
                         clientVars, ghostVars, counterVars>>
      BY <1>4 DEF HandleInstallSnapshotResponse
    <2>2. vote_replies' \subseteq vote_replies /\ append_replies' \subseteq append_replies
      BY <1>2
    <2> QED BY <1>1, <1>2, <2>1, <2>2, IdleReplyTypes
  <1> QED BY <1>3, <1>4

LEMMA LossTypes ==
    ASSUME TypesInv, LoseExchange
    PROVE  StateTypes'
  <1>1. /\ vote_requests' \subseteq vote_requests /\ vote_replies' \subseteq vote_replies
        /\ append_requests' \subseteq append_requests /\ append_replies' \subseteq append_replies
        /\ snap_requests' \subseteq snap_requests /\ snap_replies' \subseteq snap_replies
    BY DEF LoseExchange, voteMsgs, appendMsgs, snapMsgs
  <1>2. UNCHANGED <<db_log, last_included_index, last_included_term, snapshot_data, log,
                    commit_index, last_applied, app_state, next_index, match_index,
                    pending_replies, pending_read_indices, chosen, acked, issued, reads>>
    BY DEF LoseExchange, diskVars, applyVars, leaderVars, clientVars, ghostVars, counterVars
  <1>3. DiskTypes' /\ ApplyTypes' /\ PeerTypes' /\ ClientTypes'
    BY <1>2 DEF TypesInv, DiskTypes, ApplyTypes, PeerTypes, ClientTypes
  <1>4. MessageTypes'
    BY <1>1, <1>2 DEF TypesInv, MessageTypes
  <1> QED BY <1>3, <1>4 DEF StateTypes

LEMMA CrashTypes ==
    ASSUME TypesInv, IndicesWithinLog,
           \/ \E i \in Server : Restart(i) \/ CrashInStartElection(i) \/ CrashInCreateSnapshot(i)
           \/ \E m \in vote_requests \cup append_requests \cup snap_requests
                   \cup vote_replies \cup append_replies \cup snap_replies : CrashInStepDown(m)
           \/ \E m \in append_requests : CrashInTruncate(m)
           \/ \E m \in snap_requests : CrashInInstallSnapshot(m)
    PROVE  StateTypes'
  <1>0. ASSUME NEW i \in Server, NEW t, NEW v, NEW D, IsDatabase(D), NEW lii \in Nat,
               NEW lit \in Nat, NEW data \in Seq(LogCommand), lii <= Len(chosen),
               Reboot(i, t, v, D, lii, lit, data)
        PROVE  StateTypes'
    BY <1>0, RebootTypes DEF StateTypes
  <1>a. ASSUME NEW i \in Server PROVE last_included_index[i] <= Len(chosen)
    BY WithinFacts
  <1>1. ASSUME NEW i \in Server, Restart(i) PROVE StateTypes'
    BY <1>0, <1>1, <1>a, WithinFacts DEF Restart
  <1>2. ASSUME NEW i \in Server, CrashInStartElection(i) PROVE StateTypes'
    BY <1>0, <1>2, <1>a, WithinFacts DEF CrashInStartElection
  <1>3. ASSUME NEW i \in Server, CrashInCreateSnapshot(i) PROVE StateTypes'
    <2>1. TermAt(i, last_applied[i]) \in Nat
      BY WithinFacts, NodeTypes DEF TypesInv
    <2>2. last_applied[i] \in Nat /\ last_applied[i] <= Len(chosen)
      BY WithinFacts
    <2>3. Reboot(i, current_term[i], voted_for[i], db_log[i], last_applied[i],
                 TermAt(i, last_applied[i]), snapshot_data[i])
      BY <1>3 DEF CrashInCreateSnapshot
    <2> QED BY <1>0, <2>1, <2>2, <2>3, WithinFacts
  <1>4. ASSUME NEW m \in vote_requests \cup append_requests \cup snap_requests
                   \cup vote_replies \cup append_replies \cup snap_replies, CrashInStepDown(m)
        PROVE StateTypes'
    <2>1. m.dest \in Server
      BY DEF TypesInv, ElectionTypeOK
    <2>2. PICK v \in {voted_for[m.dest], Nil} :
            Reboot(m.dest, m.term, v, db_log[m.dest], last_included_index[m.dest],
                   last_included_term[m.dest], snapshot_data[m.dest])
      BY <1>4 DEF CrashInStepDown
    <2> QED BY <1>0, <1>a, <2>1, <2>2, WithinFacts
  <1>5. ASSUME NEW m \in append_requests, CrashInTruncate(m) PROVE StateTypes'
    <2>1. m.dest \in Server
      BY DEF TypesInv, ElectionTypeOK
    <2>2. PICK k \in ConflictKeys(m.dest, m) :
            Reboot(m.dest, m.term, VoteAfter(m.dest, m.term),
                   DeleteKeys(db_log[m.dest], {j \in ConflictKeys(m.dest, m) : j <= k}),
                   last_included_index[m.dest], last_included_term[m.dest], snapshot_data[m.dest])
      BY <1>5 DEF CrashInTruncate
    <2>3. IsDatabase(DeleteKeys(db_log[m.dest], {j \in ConflictKeys(m.dest, m) : j <= k}))
      BY <2>1, WithinFacts, DeletedTypes
    <2> QED BY <1>0, <1>a, <2>1, <2>2, <2>3, WithinFacts
  <1>6. ASSUME NEW m \in snap_requests, CrashInInstallSnapshot(m) PROVE StateTypes'
    <2>1. /\ m.dest \in Server /\ m.last_included_index \in Nat /\ m.last_included_term \in Nat
          /\ m.last_included_index <= Len(chosen)
      BY DEF TypesInv, MessageTypes, SnapRequest
    <2>2. Reboot(m.dest, m.term, VoteAfter(m.dest, m.term), db_log[m.dest],
                 m.last_included_index, m.last_included_term, snapshot_data[m.dest])
      BY <1>6 DEF CrashInInstallSnapshot
    <2> QED BY <1>0, <2>1, <2>2, WithinFacts
  <1> QED BY <1>1, <1>2, <1>3, <1>4, <1>5, <1>6

LEMMA TypesInvInit == Init => TypesInv
  <1> SUFFICES ASSUME Init PROVE TypesInv
    OBVIOUS
  <1>1. ElectionTypeOK
    BY ElectionInvInit DEF ElectionInv
  <1>2. DiskTypes
    <2>1. IsDatabase(<<>>)
      <3>1. DOMAIN <<>> = {}
        OBVIOUS
      <3> QED BY <3>1, FS_EmptySet DEF IsDatabase
    <2> QED BY <2>1 DEF Init, DiskTypes
  <1>3. ApplyTypes
    BY DEF Init, ApplyTypes
  <1>4. PeerTypes /\ ClientTypes /\ MessageTypes
    BY DEF Init, PeerTypes, ClientTypes, MessageTypes
  <1> QED BY <1>1, <1>2, <1>3, <1>4 DEF TypesInv

LEMMA TypesInvStep == TypesInv /\ IndicesWithinLog /\ [Next]_vars => TypesInv'
  <1> SUFFICES ASSUME TypesInv, IndicesWithinLog, [Next]_vars PROVE TypesInv'
    OBVIOUS
  <1>1. ElectionTypeOK'
    BY NextStep DEF TypesInv
  <1>2. StateTypes'
    <2>1. CASE UNCHANGED vars
      BY <2>1 DEF vars, diskVars, applyVars, leaderVars, clientVars, voteMsgs, appendMsgs, snapMsgs,
         ghostVars, counterVars, TypesInv, StateTypes, DiskTypes, ApplyTypes, PeerTypes, ClientTypes,
         MessageTypes
    <2>2. CASE Next
      BY <1>1, <2>2, TimeoutTypes, SoleTypes, TickTypes, ClientRequestTypes, ReadIndexTypes,
         RequestVoteTypes, AppendEntriesTypes, InstallSnapshotTypes, VoteResponseTypes,
         AppendResponseTypes, SnapshotResponseTypes, LossTypes, CrashTypes DEF Next
    <2> QED BY <2>1, <2>2
  <1> QED BY <1>1, <1>2 DEF TypesInv, StateTypes

LEMMA TypesInvTypeOK == TypesInv => TypeOK
  BY DEF TypesInv, TypeOK, DiskTypes, ApplyTypes, PeerTypes, ClientTypes, MessageTypes, IsDatabase,
     LogCommand

\* The types of the whole state, with the facts they rest on: a node applies, announces
\* and puts in a snapshot only what a leader committed.
THEOREM TypesKept == Spec /\ []IndicesWithinLog => []TypesInv
  BY TypesInvInit, TypesInvStep, PTL DEF Spec

\* Every variable keeps its type, for any group, through compaction, installed snapshots
\* and every crash window, as long as no node counts an index as committed that its log
\* does not reach: past the end apply_logs would read an entry that is not there, and
\* with it no type would be left to keep.
THEOREM TypeCorrect == Spec /\ []IndicesWithinLog => []TypeOK
  BY TypesKept, TypesInvTypeOK, PTL
=============================================================================

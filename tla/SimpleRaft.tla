----------------------------- MODULE SimpleRaft -----------------------------
(***************************************************************************)
(* The Raft group that replicates a metaserver shard or the config server: *)
(* dfs/metaserver/src/simple_raft.rs with a fixed set of members.  Each    *)
(* node is one event loop (RaftNode::run), so an action is one event: a    *)
(* tick, one RPC, one reply, a batch of client requests.  Nodes exchange   *)
(* HTTP requests from spawned tasks, which may be lost, delayed, reordered *)
(* and (by the retry loops) delivered more than once.                      *)
(*                                                                         *)
(* A log index is absolute.  log[i] holds the entries after the snapshot:  *)
(* the dummy entry at position 0 of the Rust vector is the pair            *)
(* last_included_index[i], last_included_term[i].  The application state   *)
(* is the sequence of the commands that produced it.                       *)
(***************************************************************************)
EXTENDS Integers, Sequences, FiniteSets

CONSTANTS
    Server,             \* the members of the group
    Command,            \* client commands; each is submitted once
    NoOp,               \* the command a new leader appends
    Nil,                \* Option::None
    SnapshotThreshold,  \* SNAPSHOT_THRESHOLD of tick (100 in the code)
    PeerOfReply,        \* PeerOfReply[i][p]: the peer to which leader i
                        \* attributes p's InstallSnapshot reply
    CrashWindows,       \* the multi-write handlers a crash may interrupt
    LossyNetwork,       \* whether an exchange may be given up
    MaxTerm, MaxBatch, MaxInFlight, MaxRestarts, MaxRetries, MaxReads

ASSUME ServerAssumption == IsFiniteSet(Server) /\ Server # {} /\ Nil \notin Server
ASSUME CommandAssumption == NoOp \notin Command
ASSUME PeerAssumption == PeerOfReply \in [Server -> [Server -> Server \cup {Nil}]]
ASSUME WindowAssumption ==
    CrashWindows \subseteq {"election", "step_down", "truncate", "create", "install"}
ASSUME LossAssumption == LossyNetwork \in BOOLEAN
ASSUME BoundAssumption ==
    {SnapshotThreshold, MaxTerm, MaxBatch, MaxInFlight, MaxRestarts, MaxRetries, MaxReads}
        \subseteq Nat

Follower  == "Follower"
Candidate == "Candidate"
Leader    == "Leader"

VARIABLES
    \* In RocksDB.
    current_term, voted_for, db_log, last_included_index, last_included_term,
    snapshot_data,
    \* In memory.
    role, log, commit_index, last_applied, app_state, voters, next_index,
    match_index, pending_replies, pending_read_indices,
    \* HTTP exchanges under way, one set per endpoint and direction.
    vote_requests, vote_replies, append_requests, append_replies,
    snap_requests, snap_replies,
    \* History, read by the properties only: the entries committed by leaders,
    \* the writes acknowledged to clients, the leaders of each term, the reads
    \* served, the commands submitted; and the counters behind the bounds.
    chosen, acked, elected, served_reads, issued, restarts, retries, reads

termVars    == <<current_term, voted_for>>
diskVars    == <<db_log, last_included_index, last_included_term, snapshot_data>>
applyVars   == <<commit_index, last_applied, app_state>>
leaderVars  == <<next_index, match_index>>
clientVars  == <<pending_replies, pending_read_indices>>
voteMsgs    == <<vote_requests, vote_replies>>
appendMsgs  == <<append_requests, append_replies>>
snapMsgs    == <<snap_requests, snap_replies>>
ghostVars   == <<chosen, acked, elected, served_reads, issued>>
counterVars == <<restarts, retries, reads>>
vars == <<termVars, diskVars, role, log, applyVars, voters, leaderVars, clientVars,
          voteMsgs, appendMsgs, snapMsgs, ghostVars, counterVars>>

-----------------------------------------------------------------------------
(* Operators on logs, databases and sets of members.                       *)

Peers(i) == Server \ {i}

\* ClusterConfiguration::has_joint_majority, for a Simple configuration.
HasMajority(S) == Cardinality(S) > Cardinality(Server) \div 2

Entry == [term : Nat, command : Command \cup {NoOp}]

LastIndex(i) == last_included_index[i] + Len(log[i])

\* The term of the entry at absolute index k, with the dummy entry at 0.
TermAt(i, k) ==
    IF k = last_included_index[i] THEN last_included_term[i]
    ELSE log[i][k - last_included_index[i]].term

LastTerm(i) == TermAt(i, LastIndex(i))

\* save_log_entries_batch: one atomic write of es at from, from + 1, ...
SaveEntries(db, from, es) ==
    LET new == from .. (from + Len(es) - 1)
    IN  [k \in DOMAIN db \cup new |-> IF k \in new THEN es[k - from + 1] ELSE db[k]]

DeleteKeys(db, keys) == [k \in DOMAIN db \ keys |-> db[k]]

\* The keys delete_log_entries_from(k) removes: it stops at the first gap.
RunFrom(db, k) == {j \in DOMAIN db : k <= j /\ k .. j \subseteq DOMAIN db}

\* The entries load_state finds after index lii: it stops at the first gap.
LoadedLog(db, lii) ==
    LET n == CHOOSE n \in 0 .. Cardinality(DOMAIN db) :
                    /\ (lii + 1) .. (lii + n) \subseteq DOMAIN db
                    /\ lii + n + 1 \notin DOMAIN db
    IN  [k \in 1 .. n |-> db[lii + k]]

Commands(es) == [k \in 1 .. Len(es) |-> es[k].command]

\* The newest write a client knows of, and what a read must therefore show.
NewestAcked == LET ks == {0} \cup {w.index : w \in acked}
               IN  CHOOSE k \in ks : \A j \in ks : j <= k

InFlight == Cardinality(vote_requests) + Cardinality(vote_replies)
          + Cardinality(append_requests) + Cardinality(append_replies)
          + Cardinality(snap_requests) + Cardinality(snap_replies)

CanSend == InFlight < MaxInFlight

-----------------------------------------------------------------------------
Init ==
    /\ current_term = [i \in Server |-> 0]
    /\ voted_for = [i \in Server |-> Nil]
    /\ db_log = [i \in Server |-> <<>>]
    /\ last_included_index = [i \in Server |-> 0]
    /\ last_included_term = [i \in Server |-> 0]
    /\ snapshot_data = [i \in Server |-> <<>>]
    /\ role = [i \in Server |-> Follower]
    /\ log = [i \in Server |-> <<>>]
    /\ commit_index = [i \in Server |-> 0]
    /\ last_applied = [i \in Server |-> 0]
    /\ app_state = [i \in Server |-> <<>>]
    /\ voters = [i \in Server |-> {}]
    /\ next_index = [i \in Server |-> [j \in Server |-> 1]]
    /\ match_index = [i \in Server |-> [j \in Server |-> 0]]
    /\ pending_replies = [i \in Server |-> {}]
    /\ pending_read_indices = [i \in Server |-> {}]
    /\ vote_requests = {} /\ vote_replies = {}
    /\ append_requests = {} /\ append_replies = {}
    /\ snap_requests = {} /\ snap_replies = {}
    /\ chosen = <<>> /\ acked = {} /\ elected = {} /\ served_reads = {}
    /\ issued = {}
    /\ restarts = 0 /\ retries = 0 /\ reads = 0

-----------------------------------------------------------------------------
(* Pieces of handlers.                                                     *)

\* Mutant: apply_logs starts one entry late.
ApplyLogsLate(i, L, c) ==
    LET lii   == last_included_index[i]
        fresh == SubSeq(L, last_applied[i] - lii + 2, c - lii)
    IN  /\ commit_index' = [commit_index EXCEPT ![i] = c]
        /\ last_applied' = [last_applied EXCEPT ![i] = c]
        /\ app_state' = [app_state EXCEPT ![i] = @ \o Commands(fresh)]

\* apply_logs up to a new commit index c of a node whose log is L.  commit_index
\* never moves without it, so last_applied never lags behind.
ApplyLogs(i, L, c) ==
    LET lii   == last_included_index[i]
        fresh == SubSeq(L, last_applied[i] - lii + 1, c - lii)
    IN  /\ commit_index' = [commit_index EXCEPT ![i] = c]
        /\ last_applied' = [last_applied EXCEPT ![i] = c]
        /\ app_state' = [app_state EXCEPT ![i] = @ \o Commands(fresh)]

\* Mutant: every waiting client is answered at the first commit.
AnswerAllWrites(i, c) ==
    /\ pending_replies' = [pending_replies EXCEPT ![i] = {}]
    /\ acked' = acked \cup pending_replies[i]

\* ... and the clients waiting at a leader for an index up to c, once applied.
AnswerWrites(i, c) ==
    LET done == {w \in pending_replies[i] : w.index <= c}
    IN  /\ pending_replies' = [pending_replies EXCEPT ![i] = @ \ done]
        /\ acked' = acked \cup done

\* History: leader i of term t with log L commits everything up to c.
Choose(i, t, L, c) ==
    chosen' = chosen \o [k \in 1 .. (c - Len(chosen)) |->
        [entry |-> L[Len(chosen) + k - last_included_index[i]], at |-> t]]

\* step_down_to_follower: the role, the term and what waits for a leader.
\* The vote follows from VoteAfter.
StepDown(i, t) ==
    /\ role' = [role EXCEPT ![i] = Follower]
    /\ current_term' = [current_term EXCEPT ![i] = IF t > @ THEN t ELSE @]
    /\ pending_replies' = [pending_replies EXCEPT ![i] = IF role[i] = Leader THEN {} ELSE @]
    /\ pending_read_indices' =
         [pending_read_indices EXCEPT ![i] = IF role[i] = Leader THEN {} ELSE @]

VoteAfter(i, t) == IF t > current_term[i] THEN Nil ELSE voted_for[i]

\* A reply of a higher term: its receiver steps down, whatever its role.
StepDownOnReply(i, t) ==
    /\ StepDown(i, t)
    /\ voted_for' = [voted_for EXCEPT ![i] = VoteAfter(i, t)]
    /\ UNCHANGED <<diskVars, log, applyVars, voters, leaderVars, ghostVars, counterVars>>

\* send_heartbeats of a leader with log L: a snapshot for the peers whose next
\* entry is compacted, else every entry from next_index on.  The snapshot is
\* the state of now under the index of the last compaction.
SnapshotArgs(i, j) ==
    [term |-> current_term[i], leader_id |-> i,
     last_included_index |-> last_included_index[i],
     last_included_term |-> last_included_term[i], data |-> app_state[i], dest |-> j]

AppendArgs(i, j, L, c) ==
    LET lii  == last_included_index[i]
        prev == next_index[i][j] - 1
    IN  [term |-> current_term[i], leader_id |-> i, prev_log_index |-> prev,
         prev_log_term |-> IF prev = lii THEN last_included_term[i] ELSE L[prev - lii].term,
         entries |-> SubSeq(L, prev - lii + 1, Len(L)), leader_commit |-> c, dest |-> j]

SendHeartbeats(i, L, c) ==
    LET lii     == last_included_index[i]
        last    == lii + Len(L)
        behind  == {j \in Peers(i) : next_index[i][j] <= lii}
        beyond  == {j \in Peers(i) : next_index[i][j] > last + 1}
    IN  /\ snap_requests' = snap_requests \cup {SnapshotArgs(i, j) : j \in behind}
        /\ append_requests' = append_requests \cup
             {AppendArgs(i, j, L, c) : j \in Peers(i) \ (behind \cup beyond)}
        /\ next_index' = [next_index EXCEPT ![i] =
             [j \in Server |-> IF j \in beyond THEN last + 1 ELSE @[j]]]
        /\ UNCHANGED <<match_index, snap_replies, append_replies>>

\* create_snapshot, which ends a tick of a node with log L, database D and
\* state machine at index a when the log (with its dummy entry) is too long.
NeedsSnapshot(i, L, a) == Len(L) + 1 > SnapshotThreshold /\ a > last_included_index[i]

\* Mutant: the snapshot's data is not written.
CompactWithoutData(i, L, D, a, state) ==
    LET lii == last_included_index[i]
    IN  IF NeedsSnapshot(i, L, a)
        THEN /\ log' = [log EXCEPT ![i] = SubSeq(L, a - lii + 1, Len(L))]
             /\ db_log' = [db_log EXCEPT ![i] = DeleteKeys(D, (lii + 1) .. a)]
             /\ last_included_index' = [last_included_index EXCEPT ![i] = a]
             /\ last_included_term' = [last_included_term EXCEPT ![i] = L[a - lii].term]
             /\ UNCHANGED snapshot_data
        ELSE /\ log' = [log EXCEPT ![i] = L]
             /\ db_log' = [db_log EXCEPT ![i] = D]
             /\ UNCHANGED <<last_included_index, last_included_term, snapshot_data>>

\* Mutant: the whole log is compacted, committed or not.
CompactAll(i, L, D, a, state) ==
    LET lii == last_included_index[i]
    IN  IF NeedsSnapshot(i, L, a)
        THEN /\ log' = [log EXCEPT ![i] = <<>>]
             /\ db_log' = [db_log EXCEPT ![i] = DeleteKeys(D, (lii + 1) .. (lii + Len(L)))]
             /\ last_included_index' = [last_included_index EXCEPT ![i] = lii + Len(L)]
             /\ last_included_term' = [last_included_term EXCEPT ![i] = L[Len(L)].term]
             /\ snapshot_data' = [snapshot_data EXCEPT ![i] = state]
        ELSE /\ log' = [log EXCEPT ![i] = L]
             /\ db_log' = [db_log EXCEPT ![i] = D]
             /\ UNCHANGED <<last_included_index, last_included_term, snapshot_data>>

Compact(i, L, D, a, state) ==
    LET lii == last_included_index[i]
    IN  IF NeedsSnapshot(i, L, a)
        THEN /\ log' = [log EXCEPT ![i] = SubSeq(L, a - lii + 1, Len(L))]
             /\ db_log' = [db_log EXCEPT ![i] = DeleteKeys(D, (lii + 1) .. a)]
             /\ last_included_index' = [last_included_index EXCEPT ![i] = a]
             /\ last_included_term' = [last_included_term EXCEPT ![i] = L[a - lii].term]
             /\ snapshot_data' = [snapshot_data EXCEPT ![i] = state]
        ELSE /\ log' = [log EXCEPT ![i] = L]
             /\ db_log' = [db_log EXCEPT ![i] = D]
             /\ UNCHANGED <<last_included_index, last_included_term, snapshot_data>>

\* become_leader: the role, the peer tracking, and the log with the NoOp of the
\* new term.  next_index points past the NoOp.
LogWithNoOp(i, t) == Append(log[i], [term |-> t, command |-> NoOp])

\* Mutant: next_index is off by one.
BecomeLeaderBeyond(i, t) ==
    /\ role' = [role EXCEPT ![i] = Leader]
    /\ elected' = elected \cup {[term |-> t, leader |-> i, voters |-> voters'[i]]}
    /\ next_index' = [next_index EXCEPT ![i] = [j \in Server |-> LastIndex(i) + 3]]
    /\ match_index' = [match_index EXCEPT ![i] = [j \in Server |-> last_included_index[i]]]

\* Mutant: match_index starts one below the dummy entry, an underflow of u64.
BecomeLeaderBelow(i, t) ==
    /\ role' = [role EXCEPT ![i] = Leader]
    /\ elected' = elected \cup {[term |-> t, leader |-> i, voters |-> voters'[i]]}
    /\ next_index' = [next_index EXCEPT ![i] = [j \in Server |-> LastIndex(i) + 2]]
    /\ match_index' = [match_index EXCEPT ![i] = [j \in Server |-> last_included_index[i] - 1]]

BecomeLeader(i, t) ==
    /\ role' = [role EXCEPT ![i] = Leader]
    /\ elected' = elected \cup {[term |-> t, leader |-> i, voters |-> voters'[i]]}
    /\ next_index' = [next_index EXCEPT ![i] = [j \in Server |-> LastIndex(i) + 2]]
    /\ match_index' = [match_index EXCEPT ![i] = [j \in Server |-> last_included_index[i]]]

\* check_read_indices over the read requests R of a node at index a: the ones a
\* majority confirmed are answered.
Confirmed(R, a) == {r \in R : HasMajority(r.acks) /\ a >= r.read_index}

ServeReads(i, R) ==
    LET ready == Confirmed(R, last_applied[i])
    IN  /\ pending_read_indices' = [pending_read_indices EXCEPT ![i] = R \ ready]
        /\ served_reads' = served_reads \cup
             {[required |-> r.required, served |-> last_applied[i]] : r \in ready}

\* The pending reads once member p has acknowledged the leader of term t.
AckReads(R, t, p) == {IF r.term = t THEN [r EXCEPT !.acks = @ \cup {p}] ELSE r : r \in R}

-----------------------------------------------------------------------------
(* Ticks.                                                                  *)

\* A follower's or candidate's election timeout (start_election): term, then
\* vote, then a RequestVote to every peer.
ElectionTimeout(i) ==
    /\ role[i] \in {Follower, Candidate}
    /\ Peers(i) # {}
    /\ current_term[i] < MaxTerm /\ CanSend
    /\ role' = [role EXCEPT ![i] = Candidate]
    /\ current_term' = [current_term EXCEPT ![i] = @ + 1]
    /\ voted_for' = [voted_for EXCEPT ![i] = i]
    /\ voters' = [voters EXCEPT ![i] = {i}]
    /\ vote_requests' = vote_requests \cup
         {[term |-> current_term[i] + 1, candidate_id |-> i, last_log_index |-> LastIndex(i),
           last_log_term |-> LastTerm(i), dest |-> j] : j \in Peers(i)}
    /\ Compact(i, log[i], db_log[i], last_applied[i], app_state[i])
    /\ UNCHANGED <<applyVars, leaderVars, clientVars, vote_replies, appendMsgs, snapMsgs,
                   ghostVars, counterVars>>

\* Mutant: what a restart left uncommitted waits for the next write.
SoleCommitLater(i) == commit_index[i]

\* What the only member of a group commits on leadership: all, with its NoOp.
SoleCommit(i) == LastIndex(i) + 1

\* The only member of its group wins at once and commits its whole log.
SoleMemberElection(i) ==
    LET t    == current_term[i] + 1
        L    == LogWithNoOp(i, t)
        last == LastIndex(i) + 1
    IN  /\ role[i] \in {Follower, Candidate}
        /\ Peers(i) = {}
        /\ t <= MaxTerm
        /\ current_term' = [current_term EXCEPT ![i] = t]
        /\ voted_for' = [voted_for EXCEPT ![i] = i]
        /\ voters' = [voters EXCEPT ![i] = {i}]
        /\ BecomeLeader(i, t)
        /\ ApplyLogs(i, L, SoleCommit(i))
        /\ Choose(i, t, L, SoleCommit(i))
        /\ Compact(i, L, SaveEntries(db_log[i], last, <<L[Len(L)]>>), SoleCommit(i),
                   app_state'[i])
        /\ UNCHANGED <<clientVars, voteMsgs, appendMsgs, snapMsgs, acked, served_reads,
                       issued, counterVars>>

\* A tick before the election timeout does nothing, or compacts the log.
QuietTick(i) ==
    /\ role[i] \in {Follower, Candidate}
    /\ Compact(i, log[i], db_log[i], last_applied[i], app_state[i])
    /\ UNCHANGED <<termVars, role, applyVars, voters, leaderVars, clientVars, voteMsgs,
                   appendMsgs, snapMsgs, ghostVars, counterVars>>

LeaderTick(i) ==
    /\ role[i] = Leader
    /\ CanSend
    /\ SendHeartbeats(i, log[i], commit_index[i])
    /\ Compact(i, log[i], db_log[i], last_applied[i], app_state[i])
    /\ UNCHANGED <<termVars, role, applyVars, voters, clientVars, voteMsgs, ghostVars,
                   counterVars>>

-----------------------------------------------------------------------------
(* Clients.                                                                *)

\* handle_event_batch at a leader: the batch is appended, persisted in one
\* write, its clients wait for their index, and one round of requests is sent.
\* A node that is not the leader rejects the batch, which changes nothing.
ClientRequest(i, batch) ==
    LET es   == [k \in 1 .. Len(batch) |-> [term |-> current_term[i], command |-> batch[k]]]
        L    == log[i] \o es
        from == LastIndex(i) + 1
        last == LastIndex(i) + Len(batch)
        mine == {[index |-> from + k - 1, command |-> batch[k]] : k \in 1 .. Len(batch)}
    IN  /\ role[i] = Leader
        /\ CanSend
        /\ log' = [log EXCEPT ![i] = L]
        /\ db_log' = [db_log EXCEPT ![i] = SaveEntries(@, from, es)]
        /\ issued' = issued \cup {batch[k] : k \in 1 .. Len(batch)}
        /\ IF Peers(i) = {}
           THEN /\ ApplyLogs(i, L, last)
                /\ acked' = acked \cup mine
                /\ Choose(i, current_term[i], L, last)
                /\ UNCHANGED <<pending_replies, appendMsgs, snapMsgs, leaderVars>>
           ELSE /\ pending_replies' = [pending_replies EXCEPT ![i] = @ \cup mine]
                /\ SendHeartbeats(i, L, commit_index[i])
                /\ UNCHANGED <<applyVars, acked, chosen>>
        /\ UNCHANGED <<termVars, role, last_included_index, last_included_term, snapshot_data,
                       voters, pending_read_indices, voteMsgs, elected, served_reads,
                       counterVars>>

\* GetReadIndex at a leader: the read waits for a majority to acknowledge.
GetReadIndex(i) ==
    LET r == [read_index |-> commit_index[i], term |-> current_term[i], acks |-> {i},
              required |-> NewestAcked, id |-> reads + 1]
    IN  /\ role[i] = Leader
        /\ reads < MaxReads /\ CanSend
        /\ reads' = reads + 1
        /\ ServeReads(i, pending_read_indices[i] \cup {r})
        /\ SendHeartbeats(i, log[i], commit_index[i])
        /\ UNCHANGED <<termVars, diskVars, role, log, applyVars, voters, pending_replies,
                       voteMsgs, chosen, acked, elected, issued, restarts, retries>>

-----------------------------------------------------------------------------
(* Requests.  A retry of the sender's HTTP loop follows a lost reply: then  *)
(* the request stays under way and is delivered again.                     *)

Consume(requests, m, lost) == IF lost THEN requests ELSE requests \ {m}
Answer(replies, r, lost)   == IF lost THEN replies ELSE replies \cup {r}
CountRetry(lost) ==
    /\ lost => retries < MaxRetries
    /\ retries' = IF lost THEN retries + 1 ELSE retries

\* Mutant: only the lengths of the logs are compared.
LongEnough(i, m) == m.last_log_index >= LastIndex(i)

\* The election restriction: the candidate's log is at least as up to date.
UpToDate(i, m) ==
    \/ m.last_log_term > LastTerm(i)
    \/ m.last_log_term = LastTerm(i) /\ m.last_log_index >= LastIndex(i)

GrantsVote(i, m) ==
    /\ m.term >= current_term[i]
    /\ VoteAfter(i, m.term) \in {Nil, m.candidate_id}
    /\ UpToDate(i, m)

HandleRequestVote(m, lost) ==
    LET i == m.dest
    IN  /\ IF m.term > current_term[i]
           THEN StepDown(i, m.term)
           ELSE UNCHANGED <<role, current_term, clientVars>>
        /\ voted_for' = [voted_for EXCEPT ![i] =
             IF GrantsVote(i, m) THEN m.candidate_id ELSE VoteAfter(i, m.term)]
        /\ vote_requests' = Consume(vote_requests, m, lost)
        /\ vote_replies' = Answer(vote_replies,
             [term |-> current_term'[i], vote_granted |-> GrantsVote(i, m), peer_id |-> i,
              dest |-> m.candidate_id], lost)
        /\ CountRetry(lost)
        /\ UNCHANGED <<diskVars, log, applyVars, voters, leaderVars, appendMsgs, snapMsgs,
                       ghostVars, restarts, reads>>

\* Mutant: the term of the previous entry is not compared.
MatchesLength(i, m) ==
    /\ m.prev_log_index >= last_included_index[i]
    /\ m.prev_log_index <= LastIndex(i)

\* Whether AppendEntries m fits node i's log.
Matches(i, m) ==
    /\ m.prev_log_index >= last_included_index[i]
    /\ m.prev_log_index <= LastIndex(i)
    /\ TermAt(i, m.prev_log_index) = m.prev_log_term

\* Mutant: whatever follows prev_log_index is replaced, by a late request too.
KeptUpToPrev(i, m) == m.prev_log_index - last_included_index[i]

\* How many local entries survive m: all, or those before the first conflict.
Kept(i, m) ==
    LET from == m.prev_log_index - last_included_index[i]
        bad  == {k \in 1 .. Len(m.entries) : /\ from + k <= Len(log[i])
                                             /\ log[i][from + k].term # m.entries[k].term}
    IN  IF bad = {} THEN Len(log[i]) ELSE from + (CHOOSE k \in bad : \A j \in bad : k <= j) - 1

\* The entries of m that are appended after the ones kept.
NewEntries(i, m) ==
    SubSeq(m.entries, Kept(i, m) - (m.prev_log_index - last_included_index[i]) + 1,
           Len(m.entries))

MergedLog(i, m) == SubSeq(log[i], 1, Kept(i, m)) \o NewEntries(i, m)

\* The keys a conflict deletes before the new entries are written.
ConflictKeys(i, m) ==
    IF Kept(i, m) < Len(log[i])
    THEN RunFrom(db_log[i], last_included_index[i] + Kept(i, m) + 1) ELSE {}

\* Mutant: delete_log_entries_from is not called on a conflict.
MergedDbWithoutDelete(i, m) ==
    SaveEntries(db_log[i], last_included_index[i] + Kept(i, m) + 1, NewEntries(i, m))

MergedDb(i, m) ==
    SaveEntries(DeleteKeys(db_log[i], ConflictKeys(i, m)),
                last_included_index[i] + Kept(i, m) + 1, NewEntries(i, m))

FollowerCommit(i, m) ==
    LET last == last_included_index[i] + Len(MergedLog(i, m))
    IN  IF m.leader_commit <= last THEN m.leader_commit ELSE last

\* Mutant: one more than was sent.
MatchReportedNext(m) == m.prev_log_index + Len(m.entries) + 1

MatchReported(m) == m.prev_log_index + Len(m.entries)

\* AppendEntries.  match_index of a failure is never read: it is 0 here.
HandleAppendEntries(m, lost) ==
    LET i       == m.dest
        current == m.term >= current_term[i]
        success == current /\ Matches(i, m)
        commits == success /\ m.leader_commit > commit_index[i]
    IN  /\ IF current
           THEN /\ StepDown(i, m.term)
                /\ voted_for' = [voted_for EXCEPT ![i] = VoteAfter(i, m.term)]
           ELSE UNCHANGED <<role, termVars, clientVars>>
        /\ IF success
           THEN /\ log' = [log EXCEPT ![i] = MergedLog(i, m)]
                /\ db_log' = [db_log EXCEPT ![i] = MergedDb(i, m)]
           ELSE UNCHANGED <<log, db_log>>
        /\ IF commits
           THEN ApplyLogs(i, MergedLog(i, m), FollowerCommit(i, m))
           ELSE UNCHANGED applyVars
        /\ append_requests' = Consume(append_requests, m, lost)
        /\ append_replies' = Answer(append_replies,
             [term |-> current_term'[i], success |-> success,
              match_index |-> IF success THEN MatchReported(m) ELSE 0,
              peer_id |-> i, dest |-> m.leader_id], lost)
        /\ CountRetry(lost)
        /\ UNCHANGED <<last_included_index, last_included_term, snapshot_data, voters,
                       leaderVars, voteMsgs, snapMsgs, ghostVars, restarts, reads>>

\* InstallSnapshot: compared with the snapshot of the receiver only.  The keys
\* above the new snapshot stay in the database.
Installs(i, m) ==
    m.term >= current_term[i] /\ m.last_included_index > last_included_index[i]

HandleInstallSnapshot(m, lost) ==
    LET i == m.dest
    IN  /\ IF m.term >= current_term[i]
           THEN /\ StepDown(i, m.term)
                /\ voted_for' = [voted_for EXCEPT ![i] = VoteAfter(i, m.term)]
           ELSE UNCHANGED <<role, termVars, clientVars>>
        /\ IF Installs(i, m)
           THEN /\ db_log' = [db_log EXCEPT ![i] =
                     DeleteKeys(@, (last_included_index[i] + 1) .. m.last_included_index)]
                /\ last_included_index' = [last_included_index EXCEPT ![i] = m.last_included_index]
                /\ last_included_term' = [last_included_term EXCEPT ![i] = m.last_included_term]
                /\ snapshot_data' = [snapshot_data EXCEPT ![i] = m.data]
                /\ app_state' = [app_state EXCEPT ![i] = m.data]
                /\ log' = [log EXCEPT ![i] = <<>>]
                /\ commit_index' = [commit_index EXCEPT ![i] = m.last_included_index]
                /\ last_applied' = [last_applied EXCEPT ![i] = m.last_included_index]
           ELSE UNCHANGED <<diskVars, log, applyVars>>
        /\ snap_requests' = Consume(snap_requests, m, lost)
        /\ snap_replies' = Answer(snap_replies,
             [term |-> current_term'[i], last_included_index |-> last_included_index'[i],
              peer_id |-> i, dest |-> m.leader_id], lost)
        /\ CountRetry(lost)
        /\ UNCHANGED <<voters, leaderVars, voteMsgs, appendMsgs, ghostVars, restarts, reads>>

-----------------------------------------------------------------------------
(* Replies.                                                                *)

HandleRequestVoteResponse(m) ==
    LET i      == m.dest
        counts == role[i] = Candidate /\ m.term = current_term[i] /\ m.vote_granted
        all    == voters[i] \cup {m.peer_id}
    IN  /\ vote_replies' = vote_replies \ {m}
        /\ UNCHANGED <<vote_requests, appendMsgs, snapMsgs>>
        /\ \/ /\ counts
              /\ voters' = [voters EXCEPT ![i] = all]
              /\ IF HasMajority(all)
                 THEN /\ BecomeLeader(i, current_term[i])
                      /\ log' = [log EXCEPT ![i] = LogWithNoOp(i, current_term[i])]
                      /\ db_log' = [db_log EXCEPT ![i] = SaveEntries(@, LastIndex(i) + 1,
                           <<[term |-> current_term[i], command |-> NoOp]>>)]
                 ELSE UNCHANGED <<role, elected, leaderVars, log, db_log>>
              /\ UNCHANGED <<termVars, last_included_index, last_included_term, snapshot_data,
                             applyVars, clientVars, chosen, acked, served_reads, issued,
                             counterVars>>
           \/ ~counts /\ m.term > current_term[i] /\ StepDownOnReply(i, m.term)
           \/ /\ ~counts /\ m.term <= current_term[i]
              /\ UNCHANGED <<termVars, diskVars, role, log, applyVars, voters, leaderVars,
                             clientVars, ghostVars, counterVars>>

\* The commit index of leader i when its peers match mi: the highest index a
\* majority has, and only if that very entry is of the leader's term.
MatchOf(i, mi) == [j \in Server |-> IF j = i THEN LastIndex(i) ELSE mi[j]]

\* Mutant: half of the members are enough.
AgreedByHalf(i, mi) ==
    LET has == MatchOf(i, mi)
    IN  {has[j] : j \in {s \in Server :
           Cardinality({p \in Server : has[p] >= has[s]}) >= Cardinality(Server) \div 2}}

AgreedIndices(i, mi) ==
    LET has == MatchOf(i, mi)
    IN  {has[j] : j \in {s \in Server : HasMajority({p \in Server : has[p] >= has[s]})}}

Committable(i, mi, k) ==
    /\ \A a \in AgreedIndices(i, mi) : a <= k
    /\ k > commit_index[i]
    /\ k <= LastIndex(i)
    /\ TermAt(i, k) = current_term[i]

AdvanceCommit(i, mi) ==
    LET new == {k \in AgreedIndices(i, mi) : Committable(i, mi, k)}
    IN  IF new = {}
        THEN UNCHANGED <<applyVars, pending_replies, acked, chosen>>
        ELSE LET c == CHOOSE k \in new : TRUE
             IN  /\ ApplyLogs(i, log[i], c)
                 /\ AnswerWrites(i, c)
                 /\ Choose(i, current_term[i], log[i], c)

\* Mutant: next_index stays after a failure.
BackOffNever(i, n) == n

\* next_index after a failed AppendEntries: never below the first entry kept.
BackOff(i, n) == IF n > last_included_index[i] + 1 THEN n - 1 ELSE n

HandleAppendEntriesResponse(m) ==
    LET i    == m.dest
        p    == m.peer_id
        mine == role[i] = Leader /\ m.term = current_term[i]
    IN  /\ append_replies' = append_replies \ {m}
        /\ UNCHANGED <<append_requests, voteMsgs, snapMsgs>>
        /\ \/ /\ mine
              /\ IF m.success
                 THEN /\ next_index' = [next_index EXCEPT ![i][p] = m.match_index + 1]
                      /\ match_index' = [match_index EXCEPT ![i][p] = m.match_index]
                      /\ ServeReads(i, AckReads(pending_read_indices[i], m.term, p))
                 ELSE /\ next_index' = [next_index EXCEPT ![i][p] = BackOff(i, @)]
                      /\ UNCHANGED <<match_index, pending_read_indices, served_reads>>
              /\ AdvanceCommit(i, match_index'[i])
              /\ UNCHANGED <<termVars, diskVars, role, log, voters, elected, issued, counterVars>>
           \/ ~mine /\ m.term > current_term[i] /\ StepDownOnReply(i, m.term)
           \/ /\ ~mine /\ m.term <= current_term[i]
              /\ UNCHANGED <<termVars, diskVars, role, log, applyVars, voters, leaderVars,
                             clientVars, ghostVars, counterVars>>

\* The reply is attributed to the peer whose address contains the replier's id.
HandleInstallSnapshotResponse(m) ==
    LET i    == m.dest
        p    == PeerOfReply[i][m.peer_id]
        mine == role[i] = Leader /\ m.term = current_term[i]
    IN  /\ snap_replies' = snap_replies \ {m}
        /\ UNCHANGED <<snap_requests, voteMsgs, appendMsgs>>
        /\ \/ /\ mine /\ p # Nil
              /\ next_index' = [next_index EXCEPT ![i][p] = m.last_included_index + 1]
              /\ match_index' = [match_index EXCEPT ![i][p] = m.last_included_index]
              /\ ServeReads(i, AckReads(pending_read_indices[i], m.term, m.peer_id))
              /\ UNCHANGED <<termVars, diskVars, role, log, applyVars, voters, pending_replies,
                             chosen, acked, elected, issued, counterVars>>
           \/ ~mine /\ m.term > current_term[i] /\ StepDownOnReply(i, m.term)
           \/ /\ \/ mine /\ p = Nil
                 \/ ~mine /\ m.term <= current_term[i]
              /\ UNCHANGED <<termVars, diskVars, role, log, applyVars, voters, leaderVars,
                             clientVars, ghostVars, counterVars>>

-----------------------------------------------------------------------------
(* Failures.                                                               *)

\* An exchange ends without its request or its reply being delivered.
LoseExchange ==
    /\ LossyNetwork
    /\ \/ /\ \E m \in vote_requests : vote_requests' = vote_requests \ {m}
          /\ UNCHANGED <<vote_replies, appendMsgs, snapMsgs>>
       \/ /\ \E m \in vote_replies : vote_replies' = vote_replies \ {m}
          /\ UNCHANGED <<vote_requests, appendMsgs, snapMsgs>>
       \/ /\ \E m \in append_requests : append_requests' = append_requests \ {m}
          /\ UNCHANGED <<append_replies, voteMsgs, snapMsgs>>
       \/ /\ \E m \in append_replies : append_replies' = append_replies \ {m}
          /\ UNCHANGED <<append_requests, voteMsgs, snapMsgs>>
       \/ /\ \E m \in snap_requests : snap_requests' = snap_requests \ {m}
          /\ UNCHANGED <<snap_replies, voteMsgs, appendMsgs>>
       \/ /\ \E m \in snap_replies : snap_replies' = snap_replies \ {m}
          /\ UNCHANGED <<snap_requests, voteMsgs, appendMsgs>>
    /\ UNCHANGED <<termVars, diskVars, role, log, applyVars, voters, leaderVars, clientVars,
                   ghostVars, counterVars>>

\* The process of node i dies and starts again (RaftNode::new, load_state, run)
\* from a database that holds the term t, the vote v, the log keys D and a
\* snapshot of index lii, term lit and contents data.  The tasks that awaited
\* replies died with it.
Reboot(i, t, v, D, lii, lit, data) ==
    LET L == LoadedLog(D, lii)
    IN  /\ restarts < MaxRestarts
        /\ restarts' = restarts + 1
        /\ current_term' = [current_term EXCEPT ![i] = t]
        /\ voted_for' = [voted_for EXCEPT ![i] = v]
        /\ db_log' = [db_log EXCEPT ![i] = D]
        /\ last_included_index' = [last_included_index EXCEPT ![i] = lii]
        /\ last_included_term' = [last_included_term EXCEPT ![i] = lit]
        /\ snapshot_data' = [snapshot_data EXCEPT ![i] = data]
        /\ role' = [role EXCEPT ![i] = Follower]
        /\ log' = [log EXCEPT ![i] = L]
        /\ commit_index' = [commit_index EXCEPT ![i] = lii]
        /\ last_applied' = [last_applied EXCEPT ![i] = lii]
        /\ app_state' = [app_state EXCEPT ![i] = data]
        /\ voters' = [voters EXCEPT ![i] = {}]
        /\ next_index' = [next_index EXCEPT ![i] = [j \in Server |-> lii + Len(L) + 1]]
        /\ match_index' = [match_index EXCEPT ![i] = [j \in Server |-> lii]]
        /\ pending_replies' = [pending_replies EXCEPT ![i] = {}]
        /\ pending_read_indices' = [pending_read_indices EXCEPT ![i] = {}]
        /\ vote_replies' = {m \in vote_replies : m.dest # i}
        /\ append_replies' = {m \in append_replies : m.dest # i}
        /\ snap_replies' = {m \in snap_replies : m.dest # i}
        /\ UNCHANGED <<vote_requests, append_requests, snap_requests, ghostVars, retries, reads>>

\* Mutant: the vote is not in the database.
RestartWithoutVote(i) ==
    Reboot(i, current_term[i], Nil, db_log[i], last_included_index[i],
           last_included_term[i], snapshot_data[i])

\* A crash between two events.
Restart(i) ==
    Reboot(i, current_term[i], voted_for[i], db_log[i], last_included_index[i],
           last_included_term[i], snapshot_data[i])

\* A crash in start_election after save_term and before save_vote.
CrashInStartElection(i) ==
    /\ "election" \in CrashWindows
    /\ role[i] \in {Follower, Candidate}
    /\ current_term[i] < MaxTerm
    /\ Reboot(i, current_term[i] + 1, voted_for[i], db_log[i], last_included_index[i],
              last_included_term[i], snapshot_data[i])

\* A crash in step_down_to_follower, caused by a message m of a higher term,
\* after save_term and before or after save_vote.
CrashInStepDown(m) ==
    LET i == m.dest
    IN  /\ "step_down" \in CrashWindows
        /\ m.term > current_term[i]
        /\ \E v \in {voted_for[i], Nil} :
             Reboot(i, m.term, v, db_log[i], last_included_index[i], last_included_term[i],
                    snapshot_data[i])

\* A crash while delete_log_entries_from removes the keys of a conflict, one by
\* one from the lowest: those up to k are gone, nothing of m is saved.
CrashInTruncate(m) ==
    LET i == m.dest
    IN  /\ "truncate" \in CrashWindows
        /\ m.term >= current_term[i] /\ Matches(i, m)
        /\ \E k \in ConflictKeys(i, m) :
             Reboot(i, m.term, VoteAfter(i, m.term),
                    DeleteKeys(db_log[i], {j \in ConflictKeys(i, m) : j <= k}),
                    last_included_index[i], last_included_term[i], snapshot_data[i])

\* A crash in create_snapshot between the writes of snapshot_meta and
\* snapshot_data.
CrashInCreateSnapshot(i) ==
    /\ "create" \in CrashWindows
    /\ NeedsSnapshot(i, log[i], last_applied[i])
    /\ Reboot(i, current_term[i], voted_for[i], db_log[i], last_applied[i],
              TermAt(i, last_applied[i]), snapshot_data[i])

\* A crash in install_snapshot between the same two writes.
CrashInInstallSnapshot(m) ==
    LET i == m.dest
    IN  /\ "install" \in CrashWindows
        /\ Installs(i, m)
        /\ Reboot(i, m.term, VoteAfter(i, m.term), db_log[i], m.last_included_index,
                  m.last_included_term, snapshot_data[i])

-----------------------------------------------------------------------------
Batches == {b \in UNION {[1 .. n -> Command \ issued] : n \in 1 .. MaxBatch} :
              \A j, k \in DOMAIN b : b[j] = b[k] => j = k}

Next ==
    \/ \E i \in Server :
         \/ ElectionTimeout(i)
         \/ SoleMemberElection(i)
         \/ QuietTick(i)
         \/ LeaderTick(i)
         \/ \E b \in Batches : ClientRequest(i, b)
         \/ GetReadIndex(i)
         \/ Restart(i)
         \/ CrashInStartElection(i)
         \/ CrashInCreateSnapshot(i)
    \/ \E lost \in BOOLEAN :
         \/ \E m \in vote_requests : HandleRequestVote(m, lost)
         \/ \E m \in append_requests : HandleAppendEntries(m, lost)
         \/ \E m \in snap_requests : HandleInstallSnapshot(m, lost)
    \/ \E m \in vote_replies : HandleRequestVoteResponse(m)
    \/ \E m \in append_replies : HandleAppendEntriesResponse(m)
    \/ \E m \in snap_replies : HandleInstallSnapshotResponse(m)
    \/ \E m \in vote_requests \cup append_requests \cup snap_requests
              \cup vote_replies \cup append_replies \cup snap_replies : CrashInStepDown(m)
    \/ \E m \in append_requests : CrashInTruncate(m)
    \/ \E m \in snap_requests : CrashInInstallSnapshot(m)
    \/ LoseExchange

Spec == Init /\ [][Next]_vars

\* Every node ticks (tick_interval) and handles the events that arrive (run), and
\* an exchange that is not lost ends: each task is polled by the runtime.
Fairness ==
    \A i \in Server :
      /\ WF_vars(LeaderTick(i))
      /\ WF_vars(\E m \in vote_requests : m.dest = i /\ HandleRequestVote(m, FALSE))
      /\ WF_vars(\E m \in append_requests : m.dest = i /\ HandleAppendEntries(m, FALSE))
      /\ WF_vars(\E m \in snap_requests : m.dest = i /\ HandleInstallSnapshot(m, FALSE))
      /\ WF_vars(\E m \in vote_replies : m.dest = i /\ HandleRequestVoteResponse(m))
      /\ \A ok \in BOOLEAN : WF_vars(\E m \in append_replies :
           m.dest = i /\ m.success = ok /\ HandleAppendEntriesResponse(m))
      /\ WF_vars(\E m \in snap_replies : m.dest = i /\ HandleInstallSnapshotResponse(m))

FairSpec == Spec /\ Fairness

-----------------------------------------------------------------------------
(* Properties.                                                             *)

EntryAt(i, k) == log[i][k - last_included_index[i]]

\* What clients see of a state: the commands applied, without the leaders' NoOps.
ClientView(cmds) == SelectSeq(cmds, LAMBDA c : c # NoOp)

ChosenCommands(n) == [k \in 1 .. n |-> chosen[k].entry.command]

VoteRequest   == [term : Nat, candidate_id : Server, last_log_index : Nat,
                  last_log_term : Nat, dest : Server]
VoteReply     == [term : Nat, vote_granted : BOOLEAN, peer_id : Server, dest : Server]
AppendRequest == [term : Nat, leader_id : Server, prev_log_index : Nat, prev_log_term : Nat,
                  entries : Seq(Entry), leader_commit : Nat, dest : Server]
AppendReply   == [term : Nat, success : BOOLEAN, match_index : Nat, peer_id : Server,
                  dest : Server]
SnapRequest   == [term : Nat, leader_id : Server, last_included_index : Nat,
                  last_included_term : Nat, data : Seq(Command \cup {NoOp}), dest : Server]
SnapReply     == [term : Nat, last_included_index : Nat, peer_id : Server, dest : Server]
Write         == [index : Nat, command : Command]
ReadRequest   == [read_index : Nat, term : Nat, acks : SUBSET Server, required : Nat, id : Nat]

\* The part of the state that elections and message headers are made of.
ElectionTypeOK ==
    /\ current_term \in [Server -> Nat]
    /\ voted_for \in [Server -> Server \cup {Nil}]
    /\ role \in [Server -> {Follower, Candidate, Leader}]
    /\ voters \in [Server -> SUBSET Server]
    /\ elected \subseteq [term : Nat, leader : Server, voters : SUBSET Server]
    /\ \A m \in vote_requests \cup append_requests \cup snap_requests
               \cup vote_replies \cup append_replies \cup snap_replies :
         m.term \in Nat /\ m.dest \in Server
    /\ \A m \in vote_requests : m.candidate_id \in Server
    /\ \A m \in append_requests \cup snap_requests : m.leader_id \in Server
    /\ \A m \in vote_replies : m.peer_id \in Server /\ m.vote_granted \in BOOLEAN

TypeOK ==
    /\ ElectionTypeOK
    /\ \A i \in Server : /\ IsFiniteSet(DOMAIN db_log[i])
                         /\ \A k \in DOMAIN db_log[i] : k \in Nat /\ db_log[i][k] \in Entry
    /\ last_included_index \in [Server -> Nat]
    /\ last_included_term \in [Server -> Nat]
    /\ snapshot_data \in [Server -> Seq(Command \cup {NoOp})]
    /\ log \in [Server -> Seq(Entry)]
    /\ commit_index \in [Server -> Nat]
    /\ last_applied \in [Server -> Nat]
    /\ app_state \in [Server -> Seq(Command \cup {NoOp})]
    /\ next_index \in [Server -> [Server -> Nat]]
    /\ match_index \in [Server -> [Server -> Nat]]
    /\ pending_replies \in [Server -> SUBSET Write]
    /\ pending_read_indices \in [Server -> SUBSET ReadRequest]
    /\ vote_requests \subseteq VoteRequest /\ vote_replies \subseteq VoteReply
    /\ append_requests \subseteq AppendRequest /\ append_replies \subseteq AppendReply
    /\ snap_requests \subseteq SnapRequest /\ snap_replies \subseteq SnapReply
    /\ chosen \in Seq([entry : Entry, at : Nat])
    /\ acked \subseteq Write
    /\ issued \subseteq Command

\* At most one node ever becomes leader of a term (start_election, RequestVote),
\* whatever is lost, repeated or cut short by a crash between save_term and
\* save_vote.
ElectionSafety == \A x, y \in elected : x.term = y.term => x.leader = y.leader

\* Two logs that agree on the term of an entry agree on it and on everything
\* before it: the consistency check of AppendEntries, over what is not compacted.
LogMatching ==
    \A i, j \in Server :
      LET both == {k \in 1 .. LastIndex(i) : /\ k > last_included_index[i]
                                             /\ k > last_included_index[j]
                                             /\ k <= LastIndex(j)}
      IN  \A k \in both : EntryAt(i, k).term = EntryAt(j, k).term
                            => \A m \in both : m <= k => EntryAt(i, m) = EntryAt(j, m)

\* A leader holds every entry that leaders of earlier terms committed: what the
\* election restriction of RequestVote is for.
LeaderCompleteness ==
    \A i \in Server : role[i] = Leader =>
      \A k \in 1 .. Len(chosen) : chosen[k].at < current_term[i] =>
        /\ k <= LastIndex(i)
        /\ k > last_included_index[i] => EntryAt(i, k) = chosen[k].entry

\* Every state machine is the committed log applied up to last_applied, each
\* command once and in order (apply_logs, snapshots and restarts).
StateMachineSafety ==
    \A i \in Server :
      /\ last_applied[i] <= Len(chosen)
      /\ ClientView(app_state[i]) = ClientView(ChosenCommands(last_applied[i]))

\* A write acknowledged to its client (pending_replies in apply_logs) stays on a
\* majority, as a log entry or under a snapshot, so no later leader can miss it.
AckedOnMajority ==
    \A w \in acked :
      HasMajority({i \in Server :
        \/ w.index <= last_included_index[i]
        \/ w.index <= LastIndex(i) /\ EntryAt(i, w.index).command = w.command})

\* What a leader believes of a peer is so: as long as the peer is in the leader's
\* term, it holds the leader's log up to match_index, though replies come late,
\* out of order and more than once.
MatchIndexTrue ==
    \A i, j \in Server : (role[i] = Leader /\ current_term[j] = current_term[i]) =>
      \A k \in 1 .. match_index[i][j] :
        \/ k <= last_included_index[i] \/ k <= last_included_index[j]
        \/ k <= LastIndex(j) /\ EntryAt(j, k) = EntryAt(i, k)

\* What load_state would find now is the log the node works with: a restart
\* neither loses entries nor brings back removed ones.
RestartRecoversLog ==
    \A i \in Server : LoadedLog(db_log[i], last_included_index[i]) = log[i]

\* A snapshot is labelled with an index that is committed and with the term of
\* the entry committed there (create_snapshot, install_snapshot): the label is
\* the prev_log_term every later consistency check starts from.
SnapshotLabels ==
    \A i \in Server : last_included_index[i] > 0 =>
      /\ last_included_index[i] <= Len(chosen)
      /\ last_included_term[i] = chosen[last_included_index[i]].entry.term

\* apply_logs never runs past the log ("log_index >= log.len() during
\* apply_logs"), nor send_heartbeats past it ("This should not happen").
IndicesWithinLog ==
    \A i \in Server :
      /\ commit_index[i] <= LastIndex(i)
      /\ role[i] = Leader => \A j \in Peers(i) : next_index[i][j] <= LastIndex(i) + 1

\* Once a node knows an entry is committed, nothing removes it from that node's
\* log, except a snapshot that covers it: not a conflict, not a restart.
CommittedEntriesStay ==
    [][\A i \in Server : \A k \in (last_included_index[i] + 1) .. commit_index[i] :
         \/ k <= last_included_index'[i]
         \/ k <= LastIndex(i)' /\ EntryAt(i, k)' = EntryAt(i, k)]_vars

\* A read sees every write acknowledged before it was asked for: ReadIndex.
LinearizableReads == \A r \in served_reads : r.served >= r.required

\* The Raft group implements the replicated log its users rely on.
Abstract == INSTANCE ReplicatedLog
                WITH committed <- ChosenCommands(Len(chosen)), applied <- app_state

ImplementsReplicatedLog == Abstract!Spec

\* A client that waits for its write is answered: the write commits, or the
\* leader steps down or dies.
Waiting(i, c) == \E w \in pending_replies[i] : w.command = c

WritesAnswered == \A i \in Server, c \in Command : Waiting(i, c) ~> ~Waiting(i, c)
=============================================================================

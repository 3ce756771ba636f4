----------------------------- MODULE ChunkServer -----------------------------
(***************************************************************************)
(* The chunkservers of the file system (chunkserver.rs), seen by one block: *)
(* the block's file and its .meta file in the hot and the cold directory,   *)
(* the write and replication handlers with their fencing term, the read     *)
(* handler with its cache, the automatic recovery from a peer, the scrubber *)
(* and the commands a heartbeat brings.  A block's content is a name: the   *)
(* whole block, one of its erasure-coded shards, a file that was opened and *)
(* not filled yet, or bytes that nobody wrote.  The checksums in a .meta     *)
(* file are the content they were computed from.  An empty .meta file is     *)
(* Torn, or Emptied when it held the checksums of the block before: the code *)
(* treats the two alike, and the model tells them apart to say what is lost. *)
(***************************************************************************)
EXTENDS Naturals, Sequences, FiniteSets, SequencesExt, Deployment

CONSTANTS
    MaxDepth,       \* bound: nested read_block calls the model follows
    MaxJobs         \* bound: handlers in progress when a copy or rebuild starts

ASSUME DepthAssumption == MaxDepth \in Nat \ {0}

VARIABLES
    up,         \* servers whose process runs
    ownAddr,    \* servers started with CHUNK_SERVER_ADDR in their environment
    disk,       \* the block's file and .meta file in either directory
    cache,      \* block_cache: the content cached for full reads
    known,      \* known_term
    badq,       \* servers with the block in pending_bad_blocks
    jobs,       \* write_block, replicate_block and write_block_async in progress
    replies,    \* answers of write_block on their way to the client
    tasks,      \* tasks spawned for commands of a heartbeat
    call,       \* the nested read_block and recover_block calls in progress
    answers     \* answers of read_block on their way to the client

csVars == <<up, ownAddr, disk, cache, known, badq, jobs, replies, tasks, call, answers>>

Contents == {Whole, Torn, Rotten} \cup Range(Shards)
OnDisk == Contents \cup {None}
Sums == OnDisk \cup {Emptied}
Sum(ec, locs, s) == IF ec THEN Shards[CHOOSE i \in DOMAIN locs : locs[i] = s] ELSE Whole

Job == [chain : Seq(Servers), i : Nat, pc : {"load", "store", "data", "sync", "meta", "fill"},
        term : Nat, data : OnDisk, for : {"client", "nobody", "recover", "heartbeat"}]
Frame == [at : Servers, kind : {"read", "recover"},
          pc : {"open", "read", "verify", "lookup", "peers", "write", "reread"},
          left : Seq(Servers), path : {"hot", "cold"}, data : OnDisk]

CSTypeOK ==
    /\ up \subseteq Servers /\ ownAddr \subseteq Servers /\ badq \subseteq Servers
    /\ disk \in [Servers -> [hot : OnDisk, cold : OnDisk, hotMeta : Sums, coldMeta : Sums]]
    /\ cache \in [Servers -> OnDisk]
    /\ known \in [Servers -> Nat]
    /\ \A j \in jobs : /\ j \in Job /\ j.i \in DOMAIN j.chain
                       /\ j.for # "heartbeat" => j.data \in Contents     \* something to write
    /\ call \in Seq(Frame) /\ Len(call) <= MaxDepth
    /\ answers \subseteq Servers \X (Contents \cup {Err})

(* Idle servers; stored[s] is what an earlier write left at s. *)
CSInit(running, stored) ==              \* known and ownAddr are set by the scenario
    /\ up = running
    /\ disk = [s \in Servers |-> [hot |-> stored[s], cold |-> None, hotMeta |-> stored[s], coldMeta |-> None]]
    /\ cache = [s \in Servers |-> None]
    /\ badq = {} /\ jobs = {} /\ replies = {} /\ tasks = {} /\ call = <<>> /\ answers = {}

-----------------------------------------------------------------------------
(* Files. *)

BlockPath(s) == IF disk[s].hot = None /\ s \in ColdDir /\ disk[s].cold # None THEN "cold" ELSE "hot"
FileOf(s) == disk[s][BlockPath(s)]
MetaPath(s) == IF disk[s].hotMeta = None /\ s \in ColdDir /\ disk[s].coldMeta # None THEN "coldMeta" ELSE "hotMeta"
MetaOf(s) == IF MetaPath(s) = "coldMeta" THEN disk[s].coldMeta ELSE disk[s].hotMeta

(* An empty .meta file has no checksum for any content that a read returns. *)
VerifyBlock(s, d) == MetaOf(s) \notin {None, Torn, Emptied} /\ MetaOf(s) = d
(* Chunks beyond the checksums of the hot .meta file pass: all, if it is empty. *)
VerifyPartialRead(s) ==
    /\ disk[s].hot # None /\ disk[s].hotMeta # None
    /\ disk[s].hotMeta \in {Torn, Emptied, disk[s].hot}

-----------------------------------------------------------------------------
(* Handlers that write.  A pipeline is one job: the servers chain[1..i-1]   *)
(* have written and wait, chain[i] is at work.  Its answer counts the       *)
(* servers that wrote; a failure further down is only logged.               *)

NewJob(chain, pc, term, data, for) ==
    [chain |-> chain, i |-> 1, pc |-> pc, term |-> term, data |-> data, for |-> for]
At(j) == j.chain[j.i]
Advance(j, pc) == jobs' = (jobs \ {j}) \cup {[j EXCEPT !.pc = pc]}

Answer(j, n) ==
    /\ jobs' = jobs \ {j}
    /\ replies' = IF j.for = "client" THEN replies \cup {[from |-> j.chain[1], n |-> n]} ELSE replies
    /\ call' = IF j.for = "recover" /\ call # <<>>
               THEN [call EXCEPT ![Len(call)].pc = IF n > 0 THEN "reread" ELSE "peers"]
               ELSE call

(* The fencing check: known_term is loaded and compared in one step, and    *)
(* stored in another; nothing keeps two handlers from overlapping.          *)
LoadTerm(j) ==
    LET s == At(j) IN
    /\ j.pc = "load" /\ s \in up
    /\ IF j.term > 0 /\ j.term < known[s]
       THEN Answer(j, j.i - 1)
       ELSE /\ Advance(j, IF j.term > known[s] THEN "store" ELSE "data")
            /\ UNCHANGED <<replies, call>>
    /\ UNCHANGED <<up, ownAddr, disk, cache, known, badq, tasks, answers>>

(* Mutant: the heartbeat loop compares the term and forgets to store it. *)
StoreTermOfWrites(j) ==
    LET s == At(j) IN
    /\ j.pc = "store" /\ s \in up
    /\ known' = IF j.for = "heartbeat" THEN known ELSE [known EXCEPT ![s] = j.term]
    /\ IF j.for = "heartbeat" THEN jobs' = jobs \ {j} ELSE Advance(j, "data")
    /\ UNCHANGED <<up, ownAddr, disk, cache, badq, replies, tasks, call, answers>>
StoreTerm(j) ==
    LET s == At(j) IN
    /\ j.pc = "store" /\ s \in up
    /\ known' = [known EXCEPT ![s] = j.term]
    /\ IF j.for = "heartbeat" THEN jobs' = jobs \ {j} ELSE Advance(j, "data")
    /\ UNCHANGED <<up, ownAddr, disk, cache, badq, replies, tasks, call, answers>>

(* write_block_async creates, fills and syncs the block's file and then its  *)
(* .meta file.  Creating an existing file empties it.  A file that           *)
(* move_block_to_cold renames meanwhile stays open and is filled there.      *)
CreateBlock(j) ==
    LET s == At(j) IN
    /\ j.pc = "data" /\ s \in up
    /\ disk' = [disk EXCEPT ![s].hot = Torn]
    /\ Advance(j, "sync")
    /\ UNCHANGED <<up, ownAddr, cache, known, badq, replies, tasks, call, answers>>

SyncBlock(j) ==
    LET s == At(j) IN
    /\ j.pc = "sync" /\ s \in up
    /\ disk' = [disk EXCEPT ![s][BlockPath(s)] = j.data]
    /\ Advance(j, "meta")
    /\ UNCHANGED <<up, ownAddr, cache, known, badq, replies, tasks, call, answers>>

CreateMeta(j) ==
    LET s == At(j) IN
    /\ j.pc = "meta" /\ s \in up
    /\ disk' = [disk EXCEPT ![s].hotMeta = IF MetaOf(s) \in {None, Torn} THEN Torn ELSE Emptied]
    /\ Advance(j, "fill")
    /\ UNCHANGED <<up, ownAddr, cache, known, badq, replies, tasks, call, answers>>

(* The checksums, then the next server of the pipeline or the answer. *)
WriteMeta(j) ==
    LET s == At(j) IN
    /\ j.pc = "fill" /\ s \in up
    /\ disk' = [disk EXCEPT ![s][MetaPath(s)] = j.data]
    /\ IF j.i < Len(j.chain) /\ j.chain[j.i + 1] \in up
       THEN /\ jobs' = (jobs \ {j}) \cup {[j EXCEPT !.i = @ + 1, !.pc = "load"]}
            /\ UNCHANGED <<replies, call>>
       ELSE Answer(j, j.i)
    /\ UNCHANGED <<up, ownAddr, cache, known, badq, tasks, answers>>

(* Mutant: a failed write counts itself. *)
WriteFailsCounted(j) ==
    /\ j.pc \in {"data", "sync", "meta", "fill"} /\ At(j) \in up
    /\ Answer(j, j.i)
    /\ UNCHANGED <<up, ownAddr, disk, cache, known, badq, tasks, answers>>
(* An I/O error in write_block_async.  The file that was being filled, the  *)
(* block's or the .meta file, stays as it is: empty.                        *)
WriteFails(j) ==
    /\ j.pc \in {"data", "sync", "meta", "fill"} /\ At(j) \in up
    /\ Answer(j, j.i - 1)
    /\ UNCHANGED <<up, ownAddr, disk, cache, known, badq, tasks, answers>>
-----------------------------------------------------------------------------
(* Reads and recovery.  call is the stack of nested calls: read_block of a  *)
(* damaged copy awaits recover_block, which awaits read_block of a peer.    *)

Top == call[Len(call)]
NewFrame(s, kind, pc) ==
    [at |-> s, kind |-> kind, pc |-> pc, left |-> <<>>, path |-> "hot", data |-> None]
Goto(f) == call' = [call EXCEPT ![Len(call)] = f]

(* The top call ends with content d or with an error; recover_block of the  *)
(* caller then verifies what it got before it writes it.                    *)
Return(d) ==
    LET rest == Front(call)
        caller == Last(rest)
        usable == d # Err /\ VerifyBlock(caller.at, d)
    IN  IF rest = <<>>
        THEN /\ call' = <<>>
             /\ answers' = IF Top.kind = "read" THEN answers \cup {<<Top.at, d>>} ELSE answers
             /\ UNCHANGED jobs
        ELSE /\ call' = [rest EXCEPT ![Len(rest)].pc = IF usable THEN "write" ELSE "peers"]
             /\ jobs' = IF usable THEN jobs \cup {NewJob(<<caller.at>>, "data", 0, d, "recover")} ELSE jobs
             /\ UNCHANGED answers

(* read_block of the whole block, called by a client *)
StartRead(s) ==
    /\ call = <<>> /\ s \in up
    /\ call' = <<NewFrame(s, "read", "open")>>
    /\ UNCHANGED <<up, ownAddr, disk, cache, known, badq, jobs, replies, tasks, answers>>

(* NotFound, a file that is empty so far, a hit of the cache, or the path    *)
(* read_block_async will open                                                *)
OpenBlock ==
    /\ call # <<>> /\ Top.pc = "open" /\ Top.at \in up
    /\ LET s == Top.at IN
       \/ FileOf(s) \in {None, Torn} /\ Return(Err)
       \/ FileOf(s) # None /\ cache[s] # None /\ Return(cache[s])
       \/ /\ FileOf(s) # None /\ cache[s] = None
          /\ Goto([Top EXCEPT !.pc = "read", !.path = BlockPath(s)])
          /\ UNCHANGED <<jobs, answers>>
    /\ UNCHANGED <<up, ownAddr, disk, cache, known, badq, replies, tasks>>

ReadBlock ==
    /\ call # <<>> /\ Top.pc = "read" /\ Top.at \in up
    /\ LET d == disk[Top.at][Top.path] IN
       IF d = None THEN Return(Err)
       ELSE Goto([Top EXCEPT !.pc = "verify", !.data = d]) /\ UNCHANGED <<jobs, answers>>
    /\ UNCHANGED <<up, ownAddr, disk, cache, known, badq, replies, tasks>>

CheckRead ==
    /\ call # <<>> /\ Top.pc = "verify" /\ Top.at \in up
    /\ IF VerifyBlock(Top.at, Top.data)
       THEN /\ cache' = [cache EXCEPT ![Top.at] = Top.data]
            /\ Return(Top.data)
       ELSE /\ Goto([Top EXCEPT !.pc = "lookup"])
            /\ UNCHANGED <<jobs, answers, cache>>
    /\ UNCHANGED <<up, ownAddr, disk, known, badq, replies, tasks>>

(* Mutant: recovery asks the server itself, too. *)
LookupAllPeers(locs) ==
    /\ call # <<>> /\ Top.pc = "lookup" /\ Top.at \in up
    /\ Goto([Top EXCEPT !.pc = "peers", !.left = locs])
    /\ UNCHANGED <<up, ownAddr, disk, cache, known, badq, jobs, replies, tasks, answers>>
(* The locations, none of which is listed twice, but s. *)
Without(locs, s) ==
    IF s \in ToSet(locs) THEN RemoveAt(locs, CHOOSE k \in DOMAIN locs : locs[k] = s) ELSE locs

(* recover_block: the locations a master knows, without the server's own    *)
(* address.  Without CHUNK_SERVER_ADDR the own address is the empty string, *)
(* which every location contains.                                           *)
LookupPeers(locs) ==
    /\ call # <<>> /\ Top.pc = "lookup" /\ Top.at \in up
    /\ Goto([Top EXCEPT !.pc = "peers",
                        !.left = IF Top.at \in ownAddr THEN Without(locs, Top.at) ELSE <<>>])
    /\ UNCHANGED <<up, ownAddr, disk, cache, known, badq, jobs, replies, tasks, answers>>

TryPeer ==
    /\ call # <<>> /\ Top.pc = "peers" /\ Top.at \in up
    /\ IF Top.left = <<>> THEN Return(Err)
       ELSE LET peer == Head(Top.left)
                rest == [Top EXCEPT !.left = Tail(@)]
            IN  /\ IF peer \in up
                   THEN /\ Len(call) < MaxDepth
                        /\ call' = Append(Front(call), rest) \o <<NewFrame(peer, "read", "open")>>
                   ELSE Goto(rest)
                /\ UNCHANGED <<jobs, answers>>
    /\ UNCHANGED <<up, ownAddr, disk, cache, known, badq, replies, tasks>>

(* After a recovery: recover_block of the scrubber is done, read_block reads *)
(* and verifies once more.                                                   *)
Reread ==
    /\ call # <<>> /\ Top.pc = "reread" /\ Top.at \in up
    /\ LET d == FileOf(Top.at) IN
       Return(IF d # None /\ VerifyBlock(Top.at, d) THEN d ELSE Err)
    /\ UNCHANGED <<up, ownAddr, disk, cache, known, badq, replies, tasks>>

(* A partial read answers without a check of its bytes; a failed check of   *)
(* the hot copy starts a recovery in the background.                        *)
PartialRead(s) ==
    /\ call = <<>> /\ s \in up /\ FileOf(s) # None /\ ~VerifyPartialRead(s)
    /\ call' = <<NewFrame(s, "recover", "lookup")>>
    /\ UNCHANGED <<up, ownAddr, disk, cache, known, badq, jobs, replies, tasks, answers>>

(* run_background_scrubber looks at the hot directory only *)
Scrub(s) ==
    /\ call = <<>> /\ s \in up /\ disk[s].hot # None /\ ~VerifyBlock(s, disk[s].hot)
    /\ badq' = badq \cup {s}
    /\ call' = <<NewFrame(s, "recover", "lookup")>>
    /\ UNCHANGED <<up, ownAddr, disk, cache, known, jobs, replies, tasks, answers>>

(* Reads of other blocks push this one out of the cache. *)
Evict(s) ==
    /\ cache[s] # None
    /\ cache' = [cache EXCEPT ![s] = None]
    /\ UNCHANGED <<up, ownAddr, disk, known, badq, jobs, replies, tasks, call, answers>>

-----------------------------------------------------------------------------
(* Tasks spawned for the commands of a heartbeat. *)

Task == [at : Servers, type : {"replicate", "reconstruct", "cold", "coldMeta"},
         target : Servers, idx : Nat, sources : Seq(Servers \cup {Nobody})]

(* Mutant: the copy is sent although the file could not be read. *)
ReplicateUnread(t) ==
    /\ t \in tasks /\ t.type = "replicate" /\ t.at \in up /\ Cardinality(jobs) < MaxJobs
    /\ tasks' = tasks \ {t}
    /\ jobs' = IF t.target \in up
               THEN jobs \cup {NewJob(<<t.target>>, "load", known[t.at], FileOf(t.at), "nobody")}
               ELSE jobs
    /\ UNCHANGED <<up, ownAddr, disk, cache, known, badq, replies, call, answers>>
(* initiate_replication sends the bytes it finds, unverified, with the term *)
(* this server knows; the target computes fresh checksums.                  *)
Replicate(t) ==
    /\ t \in tasks /\ t.type = "replicate" /\ t.at \in up /\ Cardinality(jobs) < MaxJobs
    /\ tasks' = tasks \ {t}
    /\ jobs' = IF FileOf(t.at) # None /\ t.target \in up
               THEN jobs \cup {NewJob(<<t.target>>, "load", known[t.at], FileOf(t.at), "nobody")}
               ELSE jobs
    /\ UNCHANGED <<up, ownAddr, disk, cache, known, badq, replies, call, answers>>

(* What read_block of the whole block answers at s now, without recovery. *)
Served(s) == IF s \notin up \/ FileOf(s) = None THEN Err
             ELSE IF cache[s] # None THEN cache[s]
             ELSE IF VerifyBlock(s, FileOf(s)) THEN FileOf(s) ELSE Err

(* reconstruct_ec_shard fetches the other shards; any k of them give the    *)
(* missing one, a wrong one among them gives bytes nobody wrote.            *)
Reconstruct(t, k) ==
    LET got == {i \in DOMAIN t.sources : /\ i # t.idx /\ t.sources[i] # Nobody
                                         /\ Served(t.sources[i]) # Err}
        right == \A i \in got : Served(t.sources[i]) = Shards[i]
    IN
    /\ t \in tasks /\ t.type = "reconstruct" /\ t.at \in up /\ Cardinality(jobs) < MaxJobs
    /\ tasks' = tasks \ {t}
    /\ jobs' = IF Cardinality(got) >= k
               THEN jobs \cup {NewJob(<<t.at>>, "data", 0, IF right THEN Shards[t.idx] ELSE Rotten, "nobody")}
               ELSE jobs
    /\ UNCHANGED <<up, ownAddr, disk, cache, known, badq, replies, call, answers>>

(* move_block_to_cold renames the block, then its .meta file. *)
MoveBlock(t) ==
    LET s == t.at IN
    /\ t \in tasks /\ t.type = "cold" /\ s \in up
    /\ IF s \in ColdDir /\ disk[s].hot # None
       THEN /\ disk' = [disk EXCEPT ![s].cold = disk[s].hot, ![s].hot = None]
            /\ tasks' = (tasks \ {t}) \cup {[t EXCEPT !.type = "coldMeta"]}
       ELSE tasks' = tasks \ {t} /\ UNCHANGED disk
    /\ UNCHANGED <<up, ownAddr, cache, known, badq, jobs, replies, call, answers>>

MoveMeta(t) ==
    LET s == t.at IN
    /\ t \in tasks /\ t.type = "coldMeta" /\ s \in up
    /\ tasks' = tasks \ {t}
    /\ disk' = IF disk[s].hotMeta = None THEN disk
               ELSE [disk EXCEPT ![s].coldMeta = disk[s].hotMeta, ![s].hotMeta = None]
    /\ UNCHANGED <<up, ownAddr, cache, known, badq, jobs, replies, call, answers>>

-----------------------------------------------------------------------------
(* Faults. *)

(* Bytes of a file change on the disk of s. *)
Rot(s) ==
    /\ \E d \in {"hot", "cold"} :
           /\ disk[s][d] \notin {None, Torn, Rotten}
           /\ disk' = [disk EXCEPT ![s][d] = Rotten]
    /\ UNCHANGED <<up, ownAddr, cache, known, badq, jobs, replies, tasks, call, answers>>

(* A crash of s keeps its files and nothing else.  A pipeline through s     *)
(* breaks there: the servers above answer for themselves, the ones below    *)
(* go on for nobody.                                                        *)
Hop(j, s) == {k \in 1..j.i : j.chain[k] = s}
Below(j, k) == [j EXCEPT !.chain = SubSeq(@, k + 1, Len(@)), !.i = @ - k, !.for = "nobody"]

Crash(s) ==
    LET hit == {j \in jobs : Hop(j, s) # {}}
        hop(j) == CHOOSE k \in Hop(j, s) : TRUE
        below == {Below(j, hop(j)) : j \in {j \in hit : hop(j) < j.i}}
        heads == {[from |-> j.chain[1], n |-> hop(j) - 1] : j \in {j \in hit : j.for = "client"}}
        frames == {k \in DOMAIN call : call[k].at = s}
        orphan(j) == IF frames # {} /\ j.for = "recover" THEN [j EXCEPT !.for = "nobody"] ELSE j
        first == CHOOSE k \in frames : \A l \in frames : k <= l
    IN
    /\ s \in up
    /\ up' = up \ {s}
    /\ cache' = [cache EXCEPT ![s] = None]
    /\ known' = [known EXCEPT ![s] = 0]
    /\ badq' = badq \ {s}
    /\ jobs' = {orphan(j) : j \in jobs \ hit} \cup below
    /\ replies' = replies \cup heads
    /\ tasks' = {t \in tasks : t.at # s}
    /\ call' = IF frames = {} THEN call
               ELSE IF first = 1 THEN <<>>
               ELSE [SubSeq(call, 1, first - 1) EXCEPT ![first - 1].pc = "peers"]
    /\ answers' = IF frames # {} /\ first = 1 /\ call[1].kind = "read"
                  THEN answers \cup {<<s, Err>>} ELSE answers
    /\ UNCHANGED <<ownAddr, disk>>

Restart(s) ==
    /\ s \notin up
    /\ up' = up \cup {s}
    /\ UNCHANGED <<ownAddr, disk, cache, known, badq, jobs, replies, tasks, call, answers>>
=============================================================================

----------------------------- MODULE BlockStore -----------------------------
(***************************************************************************)
(* The data path: a client that creates a file of one block, the master     *)
(* that places and heals the block, and the chunkservers that store it.     *)
(* They meet in write_block (the client's pipeline or its shard writes), in *)
(* the heartbeat loop, whose answer brings the master's term and commands,  *)
(* and in get_block_locations, which recover_block asks.  Heartbeats go to   *)
(* every master of every shard too; of the other masters only the term they *)
(* answer with is modelled.                                                 *)
(***************************************************************************)
EXTENDS ChunkServer, MasterRegistry

CONSTANT Scenarios      \* bounds: the faults and operations of a behaviour

VARIABLES
    budget,     \* what is left of the scenario
    client      \* the client that creates the file

vars == <<csVars, mVars, budget, client>>

Client == [pc : {"create", "allocate", "write", "wait", "complete", "done", "failed"},
           ec : BOOLEAN, locs : Seq(Servers), term : Nat,   \* answer of allocate_block
           left : Nat, copies : Nat,                        \* writes awaited, replicas reported
           read : {"no", "ask", "wait", "ok", "failed"},    \* a read of the file
           order : Seq(Servers), got : Nat]                 \* locations to ask, shards received

TypeOK == CSTypeOK /\ MTypeOK /\ client \in Client

Idle == [pc |-> "create", ec |-> FALSE, locs |-> <<>>, term |-> 0, left |-> 0, copies |-> 0,
         read |-> "no", order |-> <<>>, got |-> 0]

Running == Servers \ budget.absent       \* the servers of the scenario

(* The file is still to be created, or it was created and written before. *)
Init ==
    /\ budget \in Scenarios
    /\ \/ /\ budget.create = 1
          /\ CSInit(Running, [s \in Servers |-> None]) /\ MInit(budget.start = 1, Running, NoFile)
          /\ client = Idle
       \/ /\ budget.create = 0
          /\ \E q \in SelectServersRackAware(Running, Width(budget.ec = 1)) :
                 /\ CSInit(Running, [s \in Servers |-> IF s \in ToSet(q) THEN Sum(budget.ec = 1, q, s) ELSE None])
                 /\ MInit(FALSE, Running, [NoFile EXCEPT !.exists = TRUE, !.ec = (budget.ec = 1), !.locs = q])
                 /\ client = [Idle EXCEPT !.pc = "done", !.ec = (budget.ec = 1), !.locs = q, !.term = 1,
                                          !.copies = Len(q)]
    /\ known = [s \in Servers |-> IF budget.start = 1 THEN 0 ELSE 1]
    /\ ownAddr = IF budget.ownAddr = 1 THEN Servers ELSE {}

Spend(what) == budget[what] > 0 /\ budget' = [budget EXCEPT ![what] = @ - 1]
Keep == UNCHANGED budget

-----------------------------------------------------------------------------
(* create_file_from_buffer and create_file_from_buffer_ec; every RPC that   *)
(* fails ends them.                                                         *)

ClientAt(pc) == client.pc = pc
ClientGoto(pc) == client' = [client EXCEPT !.pc = pc]

ClientCreate ==
    /\ ClientAt("create")
    /\ CreateFile(budget.ec = 1) /\ Spend("create")
    /\ ClientGoto("allocate") /\ UNCHANGED csVars

ClientAllocate ==
    /\ ClientAt("allocate")
    /\ AllocateBlock
    /\ client' = [client EXCEPT !.pc = "write", !.ec = file.ec, !.locs = file'.locs, !.term = mterm]
    /\ Keep /\ UNCHANGED csVars

Written(s) == Sum(client.ec, client.locs, s)

(* One pipeline through all locations, or one write per shard. *)
ClientWrite ==
    LET chains == IF client.ec THEN {<<s>> : s \in ToSet(client.locs)} ELSE {client.locs}
        reached == {c \in chains : c[1] \in up}
    IN
    /\ ClientAt("write")
    /\ jobs' = jobs \cup {NewJob(c, "load", client.term, Written(c[1]), "client") : c \in reached}
    /\ client' = [client EXCEPT !.pc = IF reached = chains THEN "wait" ELSE "failed",
                                !.left = Cardinality(chains)]
    /\ Keep
    /\ UNCHANGED <<up, ownAddr, disk, cache, known, badq, replies, tasks, call, answers, mVars>>

(* A write that no server accepted ends the client; fewer replicas than     *)
(* locations are only logged.                                               *)
ClientReply(r) ==
    /\ ClientAt("wait") /\ r \in replies
    /\ replies' = replies \ {r}
    /\ client' = [client EXCEPT !.pc = IF r.n = 0 THEN "failed" ELSE IF client.left = 1 THEN "complete" ELSE @,
                                !.left = @ - 1, !.copies = @ + r.n]
    /\ Keep
    /\ UNCHANGED <<up, ownAddr, disk, cache, known, badq, jobs, tasks, call, answers, mVars>>

(* complete_file records sizes and checksums; it is not held up by safe mode. *)
ClientComplete ==
    /\ ClientAt("complete")
    /\ ClientGoto("done") /\ Keep /\ UNCHANGED <<csVars, mVars>>

ClientStep ==
    \/ ClientCreate \/ ClientAllocate \/ ClientWrite \/ ClientComplete
    \/ \E r \in replies : ClientReply(r)

-----------------------------------------------------------------------------
(* get_file: a copy of the block is read from the first location that has   *)
(* one, an erasure-coded block from any k of its shards.                    *)

Swapped(q) == <<q[2], q[1]>> \o SubSeq(q, 3, Len(q))

(* read_block_range asks the locations in turn.  A client that hedges does   *)
(* not wait for the first one: the second may answer, or fail, before it.    *)
ReadFile ==
    /\ Spend("reads") /\ client.read = "no" /\ BlockLocations # <<>>
    /\ \E q \in {BlockLocations} \cup IF Len(BlockLocations) > 1 /\ ~file.ec
                                       THEN {Swapped(BlockLocations)} ELSE {} :
           client' = [client EXCEPT !.read = "ask", !.order = q]
    /\ UNCHANGED <<csVars, mVars>>

(* read_block_from_location; an unreachable server counts as an error. *)
AskLocation ==
    /\ client.read = "ask" /\ client.order # <<>>
    /\ IF Head(client.order) \in up
       THEN StartRead(Head(client.order)) /\ client' = [client EXCEPT !.read = "wait"]
       ELSE client' = [client EXCEPT !.order = Tail(@)] /\ UNCHANGED csVars
    /\ Keep /\ UNCHANGED mVars

(* Mutant: the first error ends the read. *)
TakeAnswerOnce(a) ==
    /\ client.read = "wait" /\ a \in answers
    /\ answers' = answers \ {a}
    /\ client' = [client EXCEPT !.order = IF a[2] = Err THEN <<>> ELSE Tail(@),
                                !.got = IF a[2] = Err THEN @ ELSE @ + 1,
                                !.read = IF a[2] # Err /\ ~client.ec THEN "ok" ELSE "ask"]
    /\ Keep
    /\ UNCHANGED <<up, ownAddr, disk, cache, known, badq, jobs, replies, tasks, call, mVars>>
TakeAnswer(a) ==
    /\ client.read = "wait" /\ a \in answers
    /\ answers' = answers \ {a}
    /\ client' = [client EXCEPT !.order = Tail(@), !.got = IF a[2] = Err THEN @ ELSE @ + 1,
                                !.read = IF a[2] # Err /\ ~client.ec THEN "ok" ELSE "ask"]
    /\ Keep
    /\ UNCHANGED <<up, ownAddr, disk, cache, known, badq, jobs, replies, tasks, call, mVars>>

(* No location is left: read_ec_block decodes, read_block_range gives up. *)
EndRead ==
    /\ client.read = "ask" /\ client.order = <<>>
    /\ client' = [client EXCEPT !.read = IF client.ec /\ client.got >= DataShards THEN "ok" ELSE "failed"]
    /\ Keep /\ UNCHANGED <<csVars, mVars>>

ReaderStep == AskLocation \/ EndRead \/ \E a \in answers : TakeAnswer(a)

(* read_file_range of a part of the block *)
ReadRange(s) ==
    /\ Spend("ranges") /\ s \in ToSet(BlockLocations)
    /\ PartialRead(s)
    /\ UNCHANGED <<mVars, client>>

Lookup ==
    /\ budget.cold > 0 /\ GetFileInfo      \* the access time matters to the tiering scan only
    /\ Keep /\ UNCHANGED <<csVars, client>>

Delete ==
    /\ Spend("deletes") /\ DeleteFile
    /\ UNCHANGED <<csVars, client>>

-----------------------------------------------------------------------------
(* The heartbeat loop of a chunkserver drains its bad blocks and tells the  *)
(* masters one after the other.  It takes the term of an answer (loaded and  *)
(* compared here, stored by a job) and spawns a task per command.            *)

Entries(s) == Cardinality({d \in {"hot", "hotMeta"} : disk[s][d] # None})

Beating(s) == s \in up /\ ~\E j \in jobs : j.for = "heartbeat" /\ At(j) = s
TakeTerm(s, t) == jobs' = IF t > known[s] THEN jobs \cup {NewJob(<<s>>, "store", t, None, "heartbeat")} ELSE jobs

Beat(s) ==
    /\ Beating(s)
    /\ UNCHANGED <<budget, up, ownAddr, disk, cache, known, replies, call, answers, client>>
    /\ badq' = badq \ {s}
    /\ TakeTerm(s, mterm)
    /\ \E timeUp \in {FALSE, safe.on}, new \in HealAfter(s, s \in badq) :
           /\ Heartbeat(s, Entries(s), timeUp, s \in badq, new)
           /\ tasks' = tasks \cup {[at |-> s, type |-> c.type, target |-> c.target, idx |-> c.idx,
                                    sources |-> c.sources] : c \in Add(cmds, new)[s]}

(* A master of another shard answers with the term of that shard, a follower *)
(* of this one with the term it knows.                                       *)
BeatElsewhere(s, t) ==
    /\ Beating(s) /\ t > known[s]
    /\ TakeTerm(s, t)
    /\ Keep /\ UNCHANGED <<up, ownAddr, disk, cache, known, badq, replies, tasks, call, answers, mVars, client>>

(* The request is lost, or its answer with the commands in it. *)
BeatLost(s) ==
    /\ Spend("lost") /\ Beating(s)
    /\ badq' = badq \ {s}
    /\ \/ UNCHANGED mVars
       \/ \E timeUp \in {FALSE, safe.on}, new \in HealAfter(s, s \in badq) :
              Heartbeat(s, Entries(s), timeUp, s \in badq, new)
    /\ UNCHANGED <<up, ownAddr, disk, cache, known, jobs, replies, tasks, call, answers, client>>

(* A server is silent because it is down, or because its heartbeats are lost. *)
Quiet(s) ==
    /\ Silence(s)
    /\ IF s \in up THEN Spend("lost") ELSE Keep
    /\ UNCHANGED <<csVars, client>>

-----------------------------------------------------------------------------
JobStep(j) ==
    LoadTerm(j) \/ StoreTerm(j) \/ CreateBlock(j) \/ SyncBlock(j) \/ CreateMeta(j) \/ WriteMeta(j)
TaskStep(t) == Replicate(t) \/ Reconstruct(t, DataShards) \/ MoveBlock(t) \/ MoveMeta(t)
HandlerStep(s) ==
    \/ \E j \in jobs : At(j) = s /\ JobStep(j)
    \/ \E t \in tasks : t.at = s /\ TaskStep(t)
CallStep == OpenBlock \/ ReadBlock \/ CheckRead \/ LookupPeers(BlockLocations) \/ TryPeer \/ Reread

ServerStep ==
    \/ \E s \in Servers : HandlerStep(s) \/ Evict(s)
    \/ CallStep

ServerFault ==
    \/ \E j \in jobs : WriteFails(j) /\ Spend("io")
    \/ \E s \in Servers :
           \/ Rot(s) /\ Spend("rot")
           \/ Crash(s) /\ Spend("crash")
           \/ s \in Running /\ Restart(s) /\ Keep
           \/ Scrub(s) /\ Spend("scrubs")

MasterStep ==
    \/ (LivenessCheck \/ PeriodicHeal \/ UpdateTerm) /\ Keep
    \/ ScanTiering /\ Spend("cold")
    \/ NewTerm /\ Spend("terms")
    \/ ElectionElsewhere /\ Spend("others")
    \/ \E s \in Running : RegisterChunkServer(s) /\ Spend("registers")
    \/ \E snapshot \in BOOLEAN : ForgetLocalState(snapshot) /\ Spend("restarts")
    \/ \E enter \in BOOLEAN : SetSafeMode(enter) /\ Spend("manual")
    \/ InitiateShuffle /\ Spend("shuffles")
    \/ \E full, empty \in Servers :
           \/ Balance(full, empty) /\ Spend("balances")
           \/ Shuffle(full, empty) /\ Keep

Next ==
    \/ ClientStep \/ ReadFile \/ ReaderStep \/ Lookup \/ Delete
    \/ \E s \in Servers : ReadRange(s) \/ Beat(s) \/ BeatLost(s) \/ Quiet(s)
    \/ \E s \in Servers, t \in 1 .. rterm \cup {oterm} : BeatElsewhere(s, t)
    \/ ServerStep /\ Keep /\ UNCHANGED <<mVars, client>>
    \/ ServerFault /\ UNCHANGED <<mVars, client>>
    \/ MasterStep /\ UNCHANGED <<csVars, client>>

(* Heartbeats, the background tasks of the master and the handlers of a     *)
(* running server are timers and tasks of the runtime: they go on.          *)
Fairness ==
    LET ByServer(A) == UNCHANGED <<mVars, budget, client>> /\ A
        ByMaster(A) == UNCHANGED <<csVars, budget, client>> /\ A
    IN
    /\ WF_vars(ClientStep) /\ WF_vars(ReaderStep)
    /\ WF_vars(ByMaster(LivenessCheck))
    /\ WF_vars(ByMaster(PeriodicHeal))
    /\ WF_vars(ByMaster(UpdateTerm))
    /\ WF_vars(ByServer(CallStep))
    /\ \A s \in Servers :
           /\ WF_vars(Beat(s)) /\ WF_vars(BeatElsewhere(s, oterm))
           /\ WF_vars(s \notin up /\ Quiet(s))
           /\ WF_vars(ByServer(HandlerStep(s)))

Spec == Init /\ [][Next]_vars /\ Fairness

-----------------------------------------------------------------------------
(* Every full read of a listed server that does not fail answers what the   *)
(* client wrote there: read_block verifies or serves what was verified,     *)
(* recover_block never writes a peer's bytes that its own checksums reject  *)
(* (the other shards of an erasure-coded block among them), and copies that *)
(* initiate_replication makes of a damaged file, with checksums to match,   *)
(* never land on a listed server.                                           *)
FullReadsRight ==
    \A a \in answers : a[2] \in {Err, Written(a[1])}

(* A write the client was told succeeded with n replicas left the checksums *)
(* of what it wrote on n of the listed servers.  Whatever crashed, moved to  *)
(* the cold directory, was copied or recovered since, they are there, or a   *)
(* recovery of the copy has emptied the .meta file to write them again: it   *)
(* is at it, or a crash or an I/O error cut it short.  They are never gone   *)
(* for another reason, and never those of other content.                     *)
AckedIsStored ==
    client.pc \in {"complete", "done"} =>
        Cardinality({s \in ToSet(client.locs) : MetaOf(s) \in {Written(s), Emptied}}) >= client.copies

(* A block with a reachable good copy, fewer copies than the replication    *)
(* factor and a server that could take one.                                 *)
Needy ==
    LET live == LiveCopies(reg, bad) IN
    /\ file.exists /\ ~file.ec
    /\ 0 < Len(live) /\ Len(live) < ReplicationFactor
    /\ live[1] \in up /\ FileOf(live[1]) # None
    /\ SpareServers(reg) # {}

(* An under-replicated block is copied, although the commands of a lost     *)
(* heartbeat answer are gone: the healer schedules them again.              *)
Healed ==
    Needy ~> (~Needy \/ \E s \in SpareServers(reg) : FileOf(s) # None)

(* Listed copies that fail their verification now. *)
Damaged == {s \in ToSet(client.locs) : FileOf(s) # None /\ ~VerifyBlock(s, FileOf(s))}

(* Every read, and every recovery, that starts while nobody writes the      *)
(* block comes to an end, unless two listed copies are damaged at once: then *)
(* read_block and recover_block of the two call each other without end.      *)
ReadsAnswered ==
    Len(call) = 1 /\ Top.pc \in {"open", "lookup"} /\ client.pc = "done" /\ jobs = {}
        ~> (call = <<>> \/ Cardinality(Damaged) > 1)

(* Listed servers that would serve what the client wrote. *)
Good == {s \in ToSet(client.locs) : s \in up /\ FileOf(s) = Written(s) /\ VerifyBlock(s, FileOf(s))}

(* A read of a file whose write was acknowledged succeeds if there is a      *)
(* listed copy, or k listed shards, that stay good on running servers until  *)
(* it ends: damage elsewhere, a recovery that gives up and a server that dies *)
(* while it answers only make the client ask the next location.  It asks each *)
(* location once, so a copy that comes back after it was asked does not help. *)
(* The exception is a move to the cold tier: read_block_async opens the path *)
(* it chose before, and finds nothing there when the block moved in between. *)
ReadSurvives ==
    \A K \in {I \in SUBSET (1 .. Width(TRUE) \cup 1 .. Width(FALSE)) : Cardinality(I) \in {1, DataShards}} :
        LET Kept == K \subseteq DOMAIN client.locs /\ {client.locs[i] : i \in K} \subseteq Good IN
        (/\ client.pc = "done" /\ client.read = "ask" /\ Len(client.order) = Len(client.locs)
         /\ Kept /\ Cardinality(K) = (IF client.ec THEN DataShards ELSE 1))
            ~> \/ client.read = "ok"
               \/ ~Kept
               \/ \E t \in tasks : t.type = "cold"

(* The fencing term may fall back, when two handlers that loaded it overlap *)
(* or the server restarts.  Once the elections rest, the heartbeats bring it *)
(* to the highest term of all shards, whichever shard the master is of.      *)
FencingConverges ==
    <>[](\A s \in up : known[s] = IF oterm > rterm THEN oterm ELSE rterm)

(* What the comments on known_term say of fencing: a chunkserver refuses     *)
(* writes that a stale leader arranged.  A client's write that is about to   *)
(* be refused has the term of an earlier leader of its own shard.            *)
OnlyStaleFenced ==
    \A j \in jobs : j.for = "client" /\ j.pc = "load" /\ 0 < j.term /\ j.term < known[At(j)]
        => j.term < rterm

(* What the comments on safe_mode say: a heartbeat within the 60 seconds     *)
(* ends the automatic safe mode when the blocks the metadata lists have been *)
(* reported (99% of them, which is all of them below a hundred).             *)
SafeModeWaitsForReports ==
    [][\A s \in Servers : \A new \in HealAfter(s, s \in badq) :
           /\ safe.on /\ ~safe.manual /\ ~safe'.on
           /\ Heartbeat(s, Entries(s), FALSE, s \in badq, new)
           => safe'.reported >= BlockCount]_vars
=============================================================================

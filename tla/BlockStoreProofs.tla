-------------------------- MODULE BlockStoreProofs --------------------------
(***************************************************************************)
(* Proofs about BlockStore, for every number of chunkservers, every policy   *)
(* and any number of faults: a full read of a listed server that does not    *)
(* fail answers what the client wrote, and a write that was acknowledged     *)
(* left its checksums on as many listed servers as the client was told,      *)
(* where only a recovery that writes them again ever empties them.           *)
(*                                                                          *)
(* Both rest on who may write to a listed server: the client's pipeline, and *)
(* recover_block with bytes that the server's own checksums accept.  What    *)
(* the healer, the balancer and the shuffler copy, damaged or not, is        *)
(* addressed to servers that are not listed, and the list never changes.     *)
(***************************************************************************)
EXTENDS BlockStore, FiniteSetTheorems, SequenceTheorems, WellFoundedInduction, TLAPS

Listed == ToSet(client.locs)

\* The checksums of what the client wrote at s are in place, or were and are
\* to be written again.
Holds(s) == MetaOf(s) \in {Written(s), Emptied}

-----------------------------------------------------------------------------
(* The invariant.                                                          *)

\* A command that waits for server s, or runs there, writes to no listed server.
Harmless(s, type, target, idx) ==
    /\ type = "replicate" => target \in Servers \ Listed
    /\ type = "reconstruct" => s \notin Listed /\ idx \in DOMAIN Shards
    /\ type = "coldMeta" => s \in ColdDir

CommandsOK == \A s \in Servers : \A d \in cmds[s] :
    d.type \in {"replicate", "reconstruct", "cold"} /\ Harmless(s, d.type, d.target, d.idx)

TasksOK == \A t \in tasks : /\ t.at \in Servers
                            /\ t.type \in {"replicate", "reconstruct", "cold", "coldMeta"}
                            /\ Harmless(t.at, t.type, t.target, t.idx)

\* A handler writes only what the client wrote, where it wrote it.
JobOK(j) ==
    /\ j \in Job /\ j.i \in DOMAIN j.chain
    /\ j.for = "heartbeat" => j.pc = "store" /\ j.i = 1
    /\ j.for # "heartbeat" => j.data \in Contents /\
         \A k \in DOMAIN j.chain : j.chain[k] \in Listed => j.data = Written(j.chain[k])

JobsOK == \A j \in jobs : JobOK(j)

\* The checksums and the cache of a listed server know nothing else.
CopiesOK == \A s \in Listed :
    /\ {disk[s].hotMeta, disk[s].coldMeta} \subseteq {None, Torn, Emptied, Written(s)}
    /\ cache[s] \in {None, Written(s)}

\* Reads, and the reads of recoveries, are of listed servers.
FramesOK == \A k \in DOMAIN call : /\ call[k].kind = "read" => call[k].at \in Listed
                                   /\ ToSet(call[k].left) \subseteq Listed

AnswersOK == \A a \in answers : a[2] \in {Err, Written(a[1])}

\* The metadata lists the servers of the client, or none.
FileOK ==
    /\ file.locs # <<>> => file.locs = client.locs /\ file.ec = client.ec
    /\ IsInjective(client.locs)
    /\ client.ec => Len(client.locs) <= DataShards + ParityShards

ReaderOK ==
    /\ ToSet(client.order) \subseteq Listed
    /\ client.read = "wait" => client.order # <<>>

\* Nothing is stored, asked or ordered before the block is allocated.
NothingYet ==
    /\ file.locs = <<>> /\ client.locs = <<>> /\ ~client.ec
    /\ client.read = "no" /\ client.order = <<>> /\ client.copies = 0
    /\ disk = [s \in Servers |-> [hot |-> None, cold |-> None, hotMeta |-> None, coldMeta |-> None]]
    /\ cache = [s \in Servers |-> None]
    /\ \A j \in jobs : j.for = "heartbeat"
    /\ cmds = NoCmds /\ tasks = {} /\ call = <<>> /\ answers = {} /\ replies = {}

StoreInv ==
    /\ TypeOK
    /\ CommandsOK /\ TasksOK /\ JobsOK /\ CopiesOK /\ FramesOK /\ AnswersOK /\ FileOK /\ ReaderOK
    /\ client.pc \in {"create", "allocate"} => NothingYet

\* The writes the client waits for.
ClientJobs == {j \in jobs : j.for = "client"}
Pending == {r.from : r \in replies} \cup {j.chain[1] : j \in ClientJobs}

\* The first n servers of a chain of the client have written.
Wrote(from, n) ==
    /\ from \in Listed /\ n \in Nat
    /\ client.ec => n <= 1 /\ (n = 1 => Holds(from))
    /\ ~client.ec => n <= Len(client.locs) /\ \A k \in 1 .. n : Holds(client.locs[k])

WritesOK ==
    /\ \A r \in replies : Wrote(r.from, r.n)
    /\ \A j \in ClientJobs : /\ Wrote(j.chain[1], j.i - 1)
                             /\ IF client.ec THEN Len(j.chain) = 1 ELSE j.chain = client.locs

\* Every server is waited for once.
OncePerServer ==
    /\ \A r, q \in replies : r.from = q.from => r = q
    /\ \A r \in replies, j \in ClientJobs : r.from # j.chain[1]
    /\ \A j, h \in ClientJobs : j.chain[1] = h.chain[1] => j = h

HeldCount == Cardinality({s \in Listed : Holds(s)})

CountOK ==
    /\ client.pc = "write" => client.copies = 0 /\ Pending = {} /\ client.locs # <<>>
    /\ client.pc = "wait" =>
         /\ client.left > 0
         /\ ~client.ec => client.left = 1 /\ client.copies = 0
         /\ client.ec => \E C \in SUBSET {s \in Listed : Holds(s)} :
                           Cardinality(C) = client.copies /\ C \cap Pending = {}
    /\ client.pc \in {"complete", "done"} => HeldCount >= client.copies

AckInv == StoreInv /\ WritesOK /\ OncePerServer /\ CountOK

-----------------------------------------------------------------------------
(* Contents and lists.                                                     *)

USE DEF None, Whole, Torn, Emptied, Rotten, Err, tVars

\* The list of the client's servers, and with it what is written where, stays.
ListKept == client'.locs = client.locs /\ client'.ec = client.ec

LEMMA SameList == ListKept => Listed' = Listed /\ \A s : Written(s)' = Written(s)
  BY DEF ListKept, Listed, Written, Sum, ToSet

\* What the client writes at a listed server is a content, and not nothing.
LEMMA SumIsContent ==
    ASSUME NEW ec \in BOOLEAN, NEW locs \in Seq(Servers), ec => Len(locs) <= DataShards + ParityShards,
           NEW s \in ToSet(locs)
    PROVE  Sum(ec, locs, s) \in Contents \ {None, Torn, Emptied, Err}
  <1>1. CASE ~ec
    BY <1>1 DEF Sum, Contents
  <1>2. CASE ec
    <2> DEFINE i == CHOOSE i \in DOMAIN locs : locs[i] = s
    <2>1. i \in DOMAIN locs
      BY DEF ToSet
    <2>2. i \in DOMAIN Shards
      <3>1. i \in 1 .. Len(locs) /\ Len(locs) \in Nat
        BY <2>1
      <3> HIDE DEF i
      <3> QED BY <1>2, <3>1, PolicyAssumption
    <2>3. Sum(ec, locs, s) = Shards[i]
      BY <1>2 DEF Sum
    <2> HIDE DEF i
    <2> QED BY <2>2, <2>3, ShardsAssumption DEF Contents, Range
  <1> QED BY <1>1, <1>2

LEMMA WrittenIsContent ==
    ASSUME client \in Client, client.ec => Len(client.locs) <= DataShards + ParityShards, NEW s \in Listed
    PROVE  /\ Written(s) \in Contents /\ Written(s) # None /\ Written(s) # Err
           /\ Written(s) \notin {None, Torn, Emptied}
  <1>1. client.ec \in BOOLEAN /\ client.locs \in Seq(Servers)
    BY DEF Client
  <1> QED BY <1>1, SumIsContent DEF Written, Listed

\* Placement chooses different servers.
LEMMA SelectOK ==
    ASSUME NEW S, NEW n \in Nat, NEW q \in SelectServersRackAware(S, n)
    PROVE  q \in Seq(S) /\ Len(q) = n /\ IsInjective(q) /\ q \in [1 .. n -> S]
  <1>1. q \in [1 .. n -> S] /\ IsInjective(q)
    BY DEF SelectServersRackAware
  <1>2. q \in Seq(S) /\ Len(q) = n
    BY <1>1
  <1> QED BY <1>1, <1>2

\* As many servers as entries.
LEMMA InjectiveCard ==
    ASSUME NEW S, NEW n \in Nat, NEW q \in [1 .. n -> S], IsInjective(q)
    PROVE  IsFiniteSet(ToSet(q)) /\ Cardinality(ToSet(q)) = n
  <1> DEFINE R == ToSet(q)
  <1>1. q \in Bijection(1 .. n, R)
    <2>1. q \in [1 .. n -> R]
      BY DEF ToSet
    <2>2. q \in Injection(1 .. n, R)
      BY <2>1 DEF Injection, IsInjective
    <2>3. q \in Surjection(1 .. n, R)
      BY <2>1 DEF Surjection, ToSet
    <2> QED BY <2>2, <2>3 DEF Bijection
  <1>2. ExistsBijection(1 .. n, R)
    BY <1>1 DEF ExistsBijection
  <1>3. IsFiniteSet(1 .. n) /\ Cardinality(1 .. n) = n
    BY FS_Interval
  <1> QED BY <1>2, <1>3, FS_Bijection

-----------------------------------------------------------------------------
(* The initial states.                                                     *)

LEMMA EmptyInit ==
    ASSUME Init, budget.create = 1
    PROVE  AckInv
  <1>1. /\ CSInit(Running, [s \in Servers |-> None]) /\ MInit(budget.start = 1, Running, NoFile)
        /\ client = Idle
    BY DEF Init
  <1>2. known \in [Servers -> Nat] /\ ownAddr \subseteq Servers
    BY DEF Init
  <1>3. disk = [s \in Servers |-> [hot |-> None, cold |-> None, hotMeta |-> None, coldMeta |-> None]]
    <2>1. ASSUME NEW s \in Servers PROVE [x \in Servers |-> None][s] = None
      OBVIOUS
    <2> QED BY <1>1, <2>1 DEF CSInit
  <1>4. /\ file = NoFile /\ cmds = NoCmds /\ late = {} /\ bad = {} /\ {rterm, mterm, oterm} \subseteq Nat
        /\ reg \subseteq Servers
    BY <1>1 DEF MInit, Running
  <1>5. safe \in [on : BOOLEAN, manual : BOOLEAN, expected : Nat, reported : Nat]
    <2>1. (budget.start = 1) \in BOOLEAN
      OBVIOUS
    <2>2. safe = [EnterSafeMode(0, FALSE) EXCEPT !.on = (budget.start = 1)]
      BY <1>1 DEF MInit
    <2> HIDE DEF MInit
    <2>3. \A b \in BOOLEAN : [EnterSafeMode(0, FALSE) EXCEPT !.on = b]
            \in [on : BOOLEAN, manual : BOOLEAN, expected : Nat, reported : Nat]
      BY DEF EnterSafeMode
    <2> QED BY <2>1, <2>2, <2>3
  <1>6. /\ up \subseteq Servers /\ cache = [s \in Servers |-> None] /\ badq = {} /\ jobs = {} /\ replies = {}
        /\ tasks = {} /\ call = <<>> /\ answers = {}
    BY <1>1 DEF CSInit, Running
  <1>7. client \in Client
    BY <1>1 DEF Client, Idle
  <1>8. TypeOK
    <2>1. CSTypeOK
      BY <1>2, <1>3, <1>6, DepthAssumption DEF CSTypeOK, OnDisk, Contents, Sums
    <2>2. MTypeOK
      BY <1>4, <1>5 DEF MTypeOK, NoFile, NoCmds
    <2> QED BY <1>7, <2>1, <2>2 DEF TypeOK
  <1>9. Listed = {} /\ client.locs = <<>> /\ client.pc = "create" /\ ~client.ec
    BY <1>1 DEF Listed, ToSet, Idle
  <1>10. StoreInv
    <2>1. CommandsOK /\ TasksOK /\ JobsOK /\ CopiesOK /\ FramesOK /\ AnswersOK
      BY <1>4, <1>6, <1>9 DEF CommandsOK, TasksOK, JobsOK, CopiesOK, FramesOK, AnswersOK, NoCmds
    <2>2. FileOK /\ ReaderOK
      BY <1>1, <1>4, <1>9 DEF FileOK, ReaderOK, NoFile, Idle, IsInjective, ToSet
    <2>3. NothingYet
      BY <1>1, <1>3, <1>4, <1>6 DEF NothingYet, NoFile, Idle
    <2> QED BY <1>8, <2>1, <2>2, <2>3 DEF StoreInv
  <1>11. WritesOK /\ OncePerServer /\ CountOK
    BY <1>6, <1>9 DEF WritesOK, OncePerServer, CountOK, ClientJobs
  <1> QED BY <1>10, <1>11 DEF AckInv

LEMMA StoredInit ==
    ASSUME Init, budget.create = 0
    PROVE  AckInv
  <1> DEFINE ec == (budget.ec = 1)
  <1>1. PICK q \in SelectServersRackAware(Running, Width(ec)) :
          /\ CSInit(Running, [s \in Servers |-> IF s \in ToSet(q) THEN Sum(ec, q, s) ELSE None])
          /\ MInit(FALSE, Running, [NoFile EXCEPT !.exists = TRUE, !.ec = ec, !.locs = q])
          /\ client = [Idle EXCEPT !.pc = "done", !.ec = ec, !.locs = q, !.term = 1, !.copies = Len(q)]
    <2>1. budget.create # 1
      OBVIOUS
    <2> QED BY <2>1, Zenon DEF Init
  <1>2. known \in [Servers -> Nat] /\ ownAddr \subseteq Servers
    BY DEF Init
  <1>3. ec \in BOOLEAN
    OBVIOUS
  <1> HIDE DEF ec
  <1>4. /\ q \in Seq(Servers) /\ IsInjective(q) /\ q \in [1 .. Width(ec) -> Servers]
        /\ Len(q) = Width(ec) /\ Width(ec) \in Nat
        /\ ec => Len(q) <= DataShards + ParityShards
    <2>1. Width(ec) \in Nat /\ (ec => Width(ec) = DataShards + ParityShards)
      BY PolicyAssumption DEF Width
    <2>2. q \in Seq(Servers) /\ Len(q) = Width(ec) /\ IsInjective(q) /\ q \in [1 .. Width(ec) -> Servers]
      BY <2>1, SelectOK DEF Running
    <2> QED BY <2>1, <2>2, PolicyAssumption
  <1>5. ASSUME NEW s \in ToSet(q) PROVE Sum(ec, q, s) \in Contents \ {None, Torn, Emptied, Err}
    BY <1>3, <1>4, SumIsContent
  <1> DEFINE st == [s \in Servers |-> IF s \in ToSet(q) THEN Sum(ec, q, s) ELSE None]
  <1>6. st \in [Servers -> OnDisk]
    BY <1>5 DEF OnDisk
  <1>7. \A s \in ToSet(q) : st[s] = Sum(ec, q, s) /\ s \in Servers
    BY <1>4 DEF ToSet
  <1>8. CSInit(Running, st)
    BY <1>1
  <1> HIDE DEF st
  <1>9. /\ up \subseteq Servers /\ cache = [s \in Servers |-> None] /\ badq = {} /\ jobs = {} /\ replies = {}
        /\ tasks = {} /\ call = <<>> /\ answers = {}
        /\ disk = [s \in Servers |-> [hot |-> st[s], cold |-> None, hotMeta |-> st[s], coldMeta |-> None]]
    BY <1>8 DEF CSInit, Running
  <1>10. CSTypeOK
    BY <1>2, <1>6, <1>9, DepthAssumption DEF CSTypeOK, OnDisk, Sums
  <1>11. client \in Client /\ client.locs = q /\ client.ec = ec /\ client.pc = "done"
         /\ client.copies = Len(q) /\ client.order = <<>> /\ client.read = "no"
    <2>1. client = [pc |-> "done", ec |-> ec, locs |-> q, term |-> 1, left |-> 0, copies |-> Len(q),
                    read |-> "no", order |-> <<>>, got |-> 0]
      BY <1>1 DEF Idle
    <2> QED BY <2>1, <1>3, <1>4 DEF Client
  <1>12. /\ file \in [exists : BOOLEAN, ec : BOOLEAN, locs : Seq(Servers), accessed : BOOLEAN,
                      cold : BOOLEAN, shuffle : BOOLEAN]
         /\ file.locs = q /\ file.ec = ec
    BY <1>1, <1>3, <1>4 DEF MInit, NoFile
  <1>13. MTypeOK /\ cmds = NoCmds
    <2>1. safe \in [on : BOOLEAN, manual : BOOLEAN, expected : Nat, reported : Nat]
      BY <1>1 DEF MInit, EnterSafeMode
    <2>2. /\ cmds = NoCmds /\ late = {} /\ bad = {} /\ {rterm, mterm, oterm} \subseteq Nat
          /\ reg \subseteq Servers
      BY <1>1 DEF MInit, Running
    <2> QED BY <1>12, <2>1, <2>2 DEF MTypeOK, NoCmds
  <1>14. Listed = ToSet(q) /\ \A s : Written(s) = Sum(ec, q, s)
    BY <1>11 DEF Listed, Written
  <1>15. \A s \in Listed : Holds(s) /\ disk[s].hotMeta = Written(s) /\ disk[s].coldMeta = None /\ cache[s] = None
    <2> SUFFICES ASSUME NEW s \in Listed
                 PROVE  Holds(s) /\ disk[s].hotMeta = Written(s) /\ disk[s].coldMeta = None /\ cache[s] = None
      OBVIOUS
    <2>1. /\ disk[s] = [hot |-> st[s], cold |-> None, hotMeta |-> st[s], coldMeta |-> None]
          /\ cache[s] = None /\ st[s] = Written(s)
      BY <1>7, <1>9, <1>14
    <2>2. Written(s) # None
      BY <1>5, <1>14
    <2> QED BY <2>1, <2>2 DEF Holds, MetaOf, MetaPath
  <1>16. StoreInv
    <2>1. CommandsOK /\ TasksOK /\ JobsOK /\ FramesOK /\ AnswersOK
      BY <1>9, <1>13 DEF CommandsOK, TasksOK, JobsOK, FramesOK, AnswersOK, NoCmds
    <2>2. CopiesOK
      BY <1>15 DEF CopiesOK
    <2>3. FileOK /\ ReaderOK
      BY <1>4, <1>11, <1>12 DEF FileOK, ReaderOK, ToSet
    <2> QED BY <1>10, <1>11, <1>13, <2>1, <2>2, <2>3 DEF StoreInv, TypeOK
  <1>17. CountOK
    <2>1. {s \in Listed : Holds(s)} = ToSet(q)
      BY <1>14, <1>15
    <2>2. HeldCount = Len(q)
      BY <1>4, <2>1, InjectiveCard DEF HeldCount
    <2> QED BY <1>4, <1>11, <2>2 DEF CountOK
  <1>18. WritesOK /\ OncePerServer
    BY <1>9 DEF WritesOK, OncePerServer, ClientJobs
  <1> QED BY <1>16, <1>17, <1>18 DEF AckInv

LEMMA AckInvInit == Init => AckInv
  BY EmptyInit, StoredInit DEF Init

-----------------------------------------------------------------------------
(* What stays when the list does.                                          *)

LEMMA Untouched ==
    ASSUME StoreInv, ListKept
    PROVE  /\ UNCHANGED cmds => CommandsOK'
           /\ UNCHANGED tasks => TasksOK'
           /\ UNCHANGED jobs => JobsOK'
           /\ UNCHANGED <<disk, cache>> => CopiesOK'
           /\ UNCHANGED call => FramesOK'
           /\ UNCHANGED answers => AnswersOK'
           /\ UNCHANGED file => FileOK'
           /\ UNCHANGED client => ReaderOK'
  <1>1. Listed' = Listed /\ \A s : Written(s)' = Written(s)
    BY SameList
  <1>2. UNCHANGED cmds => CommandsOK'
    BY <1>1 DEF StoreInv, CommandsOK, Harmless
  <1>3. UNCHANGED tasks => TasksOK'
    BY <1>1 DEF StoreInv, TasksOK, Harmless
  <1>4. UNCHANGED jobs => JobsOK'
    BY <1>1 DEF StoreInv, JobsOK, JobOK
  <1>5. UNCHANGED <<disk, cache>> => CopiesOK'
    BY <1>1 DEF StoreInv, CopiesOK
  <1>6. UNCHANGED call => FramesOK'
    BY <1>1 DEF StoreInv, FramesOK
  <1>7. UNCHANGED answers => AnswersOK'
    BY <1>1 DEF StoreInv, AnswersOK
  <1>8. UNCHANGED file => FileOK'
    BY DEF StoreInv, FileOK, ListKept
  <1>9. UNCHANGED client => ReaderOK'
    BY <1>1 DEF StoreInv, ReaderOK
  <1> QED BY <1>2, <1>3, <1>4, <1>5, <1>6, <1>7, <1>8, <1>9, Zenon

LEMMA JobsAfter ==
    ASSUME ListKept, JobsOK, \A j \in jobs' : j \in jobs \/ JobOK(j)
    PROVE  JobsOK'
  <1>1. Listed' = Listed /\ \A s : Written(s)' = Written(s)
    BY SameList
  <1> QED BY <1>1 DEF JobsOK, JobOK

\* A handler goes on.
LEMMA AdvanceOK ==
    ASSUME NEW j, JobOK(j), j.for # "heartbeat",
           NEW pc \in {"load", "store", "data", "sync", "meta", "fill"}
    PROVE  JobOK([j EXCEPT !.pc = pc])
  <1> DEFINE h == [j EXCEPT !.pc = pc]
  <1>1. h \in Job /\ h.chain = j.chain /\ h.i = j.i /\ h.for = j.for /\ h.data = j.data
    BY DEF JobOK, Job
  <1> HIDE DEF h
  <1>2. JobOK(h)
    BY <1>1 DEF JobOK
  <1> QED BY <1>2 DEF h

LEMMA NewJobOK ==
    ASSUME NEW s \in Servers, NEW pc \in {"load", "store", "data"}, NEW t \in Nat, NEW d \in OnDisk,
           NEW for \in {"nobody", "recover", "heartbeat"},
           for = "heartbeat" => pc = "store",
           for # "heartbeat" => d \in Contents, for # "heartbeat" /\ s \in Listed => d = Written(s)
    PROVE  JobOK(NewJob(<<s>>, pc, t, d, for))
  <1> DEFINE h == NewJob(<<s>>, pc, t, d, for)
  <1>1. /\ h.chain = <<s>> /\ h.i = 1 /\ h.pc = pc /\ h.term = t /\ h.data = d /\ h.for = for
    BY DEF NewJob
  <1>2. h \in Job
    BY DEF NewJob, Job
  <1>3. DOMAIN <<s>> = {1} /\ <<s>>[1] = s
    OBVIOUS
  <1> HIDE DEF h
  <1>4. JobOK(h)
    BY <1>1, <1>2, <1>3 DEF JobOK
  <1> QED BY <1>4 DEF h

-----------------------------------------------------------------------------
(* The calls.                                                              *)

\* A frame that may be on the stack.
FrameOK(f) == /\ f \in Frame
              /\ f.kind = "read" => f.at \in Listed
              /\ ToSet(f.left) \subseteq Listed

CallOK == call \in Seq(Frame) /\ Len(call) <= MaxDepth

LEMMA TopOK ==
    ASSUME CallOK, FramesOK, call # <<>>
    PROVE  FrameOK(Top) /\ Len(call) \in DOMAIN call
  <1>1. Len(call) \in DOMAIN call /\ call[Len(call)] \in Frame
    BY DEF CallOK
  <1> QED BY <1>1 DEF FramesOK, FrameOK, Top

LEMMA GotoOK ==
    ASSUME CallOK, FramesOK, ListKept, call # <<>>, NEW f, FrameOK(f),
           call' = [call EXCEPT ![Len(call)] = f]
    PROVE  CallOK' /\ FramesOK'
  <1>1. Listed' = Listed
    BY SameList
  <1>2. /\ call' \in Seq(Frame) /\ Len(call') = Len(call) /\ DOMAIN call' = DOMAIN call
        /\ \A k \in DOMAIN call : call'[k] = IF k = Len(call) THEN f ELSE call[k]
    BY DEF CallOK, FrameOK
  <1> QED BY <1>1, <1>2 DEF CallOK, FramesOK, FrameOK

LEMMA PcFrameOK ==
    ASSUME NEW f, FrameOK(f),
           NEW pc \in {"open", "read", "verify", "lookup", "peers", "write", "reread"}
    PROVE  FrameOK([f EXCEPT !.pc = pc])
  BY DEF FrameOK, Frame

LEMMA NewFrameOK ==
    ASSUME NEW s \in Servers, NEW kind \in {"read", "recover"}, NEW pc \in {"open", "lookup"},
           kind = "read" => s \in Listed
    PROVE  FrameOK(NewFrame(s, kind, pc))
  BY DEF FrameOK, NewFrame, Frame, OnDisk, ToSet

\* The answer of a handler to recover_block.
LEMMA AnswerCall ==
    ASSUME CallOK, FramesOK, ListKept, NEW j, NEW n, Answer(j, n)
    PROVE  CallOK' /\ FramesOK'
  <1>1. CASE call' = call
    BY <1>1, SameList DEF CallOK, FramesOK
  <1>2. CASE call' # call
    <2>1. call # <<>>
      BY <1>2 DEF Answer
    <2>2. PICK pc \in {"reread", "peers"} : call' = [call EXCEPT ![Len(call)].pc = pc]
      BY <1>2 DEF Answer
    <2>3. call' = [call EXCEPT ![Len(call)] = [call[Len(call)] EXCEPT !.pc = pc]]
      BY <2>2
    <2>4. FrameOK([call[Len(call)] EXCEPT !.pc = pc])
      BY <2>1, TopOK, PcFrameOK DEF Top
    <2> QED BY <2>1, <2>3, <2>4, GotoOK
  <1> QED BY <1>1, <1>2

\* A checksum of a listed server accepts only what the client wrote.
LEMMA VerifiedIsWritten ==
    ASSUME CopiesOK, NEW s \in Listed, NEW d, VerifyBlock(s, d)
    PROVE  d = Written(s)
  BY DEF VerifyBlock, MetaOf, MetaPath, CopiesOK

\* The stack below the top.
LEMMA FrontFacts ==
    ASSUME CallOK, call # <<>>
    PROVE  /\ Front(call) \in Seq(Frame) /\ Len(Front(call)) = Len(call) - 1
           /\ \A k \in 1 .. Len(Front(call)) : Front(call)[k] = call[k]
  <1> DEFINE rest == Front(call)
  <1>1. \A k \in 1 .. Len(call) - 1 : call[k] \in Frame
    BY DEF CallOK
  <1>2. Len(call) \in Nat /\ Len(call) >= 1 /\ 1 \in Int /\ Len(call) - 1 \in Int
    BY DEF CallOK
  <1>3. /\ rest \in Seq(Frame)
        /\ Len(rest) = IF 1 <= Len(call) - 1 THEN (Len(call) - 1) - 1 + 1 ELSE 0
        /\ \A k \in 1 .. (Len(call) - 1) - 1 + 1 : rest[k] = call[1 + k - 1]
    BY <1>1, <1>2, SubSeqProperties DEF Front
  <1> HIDE DEF rest
  <1>4. ASSUME NEW n \in Nat, n >= 1, Len(rest) = IF 1 <= n - 1 THEN (n - 1) - 1 + 1 ELSE 0,
               \A k \in 1 .. (n - 1) - 1 + 1 : rest[k] = call[1 + k - 1]
        PROVE  Len(rest) = n - 1 /\ \A k \in 1 .. n - 1 : rest[k] = call[k]
    <2>1. (n - 1) - 1 + 1 = n - 1 /\ \A k \in 1 .. n - 1 : 1 + k - 1 = k
      BY <1>4
    <2>2. Len(rest) = n - 1
      BY <1>4
    <2> QED BY <1>4, <2>1, <2>2
  <1>5. Len(rest) = Len(call) - 1 /\ \A k \in 1 .. Len(call) - 1 : rest[k] = call[k]
    BY <1>2, <1>3, <1>4
  <1> QED BY <1>3, <1>5 DEF rest

\* A read returns what the client wrote, to the client or to recover_block of its caller.
LEMMA ReturnOK ==
    ASSUME CallOK, FramesOK, JobsOK, CopiesOK, AnswersOK, ListKept, call # <<>>,
           answers \subseteq Servers \X (Contents \cup {Err}),
           NEW d \in Contents \cup {Err}, Top.at \in Listed => d \in {Err, Written(Top.at)},
           Return(d)
    PROVE  /\ CallOK' /\ FramesOK' /\ JobsOK' /\ AnswersOK'
           /\ answers' \subseteq Servers \X (Contents \cup {Err})
  <1> DEFINE rest == Front(call)
             caller == Last(rest)
             usable == d # Err /\ VerifyBlock(caller.at, d)
  <1>1. Listed' = Listed /\ \A s : Written(s)' = Written(s)
    BY SameList
  <1>2. FrameOK(Top) /\ Len(call) \in Nat
    BY TopOK DEF CallOK
  <1>3. rest \in Seq(Frame) /\ Len(rest) = Len(call) - 1 /\ \A k \in 1 .. Len(rest) : rest[k] = call[k]
    BY FrontFacts
  <1>4. CASE rest = <<>>
    <2>1. call' = <<>> /\ jobs' = jobs
      BY <1>4 DEF Return
    <2>2. \A a \in answers' : a \in answers \/ (Top.kind = "read" /\ a = <<Top.at, d>>)
      BY <1>4 DEF Return
    <2>3. Top.kind = "read" => Top.at \in Listed /\ Top.at \in Servers
      BY <1>2 DEF FrameOK, Frame
    <2>4. AnswersOK' /\ answers' \subseteq Servers \X (Contents \cup {Err})
      BY <1>1, <2>2, <2>3 DEF AnswersOK
    <2>5. CallOK' /\ FramesOK' /\ JobsOK'
      BY <1>1, <2>1, JobsAfter, DepthAssumption DEF CallOK, FramesOK
    <2> QED BY <2>4, <2>5
  <1>5. CASE rest # <<>>
    <2>1. Len(rest) \in DOMAIN rest /\ Len(rest) \in DOMAIN call /\ rest[Len(rest)] = call[Len(rest)]
      BY <1>2, <1>3, <1>5
    <2>2. FrameOK(caller)
      BY <2>1 DEF CallOK, FramesOK, FrameOK, Last
    <2>3. PICK pc \in {"write", "peers"} : call' = [rest EXCEPT ![Len(rest)].pc = pc]
      BY <1>5 DEF Return
    <2>4. call' = [rest EXCEPT ![Len(rest)] = [caller EXCEPT !.pc = pc]]
      BY <2>3 DEF Last
    <2> DEFINE f == [caller EXCEPT !.pc = pc]
    <2>5. FrameOK(f)
      BY <2>2, PcFrameOK
    <2>6. call' = [rest EXCEPT ![Len(rest)] = f]
      BY <2>4
    <2>7. /\ jobs' = IF usable THEN jobs \cup {NewJob(<<caller.at>>, "data", 0, d, "recover")} ELSE jobs
          /\ answers' = answers
      BY <1>5 DEF Return
    <2> HIDE DEF f, rest
    <2>8. CallOK' /\ FramesOK'
      <3>1. /\ call' \in Seq(Frame) /\ Len(call') = Len(rest) /\ DOMAIN call' = DOMAIN rest
            /\ \A k \in DOMAIN rest : call'[k] = IF k = Len(rest) THEN f ELSE rest[k]
        <4>1. f \in Frame /\ Len(rest) \in 1 .. Len(rest) /\ DOMAIN rest = 1 .. Len(rest)
          BY <1>3, <2>1, <2>5 DEF FrameOK
        <4> QED BY <1>3, <2>6, <4>1, ExceptSeq
      <3>2. \A k \in DOMAIN rest : k \in DOMAIN call /\ rest[k] = call[k]
        BY <1>2, <1>3
      <3>3. CallOK'
        BY <1>2, <1>3, <3>1, DepthAssumption DEF CallOK
      <3> QED BY <1>1, <2>5, <3>1, <3>2, <3>3 DEF FramesOK, FrameOK
    <2>9. ASSUME usable PROVE JobOK(NewJob(<<caller.at>>, "data", 0, d, "recover"))
      <3>1. caller.at \in Servers
        BY <2>2 DEF FrameOK, Frame
      <3>2. caller.at \in Listed => d = Written(caller.at)
        BY <2>9, VerifiedIsWritten
      <3>3. d \in OnDisk /\ d \in Contents
        BY <2>9 DEF OnDisk
      <3> QED BY <3>1, <3>2, <3>3, NewJobOK
    <2>10. JobsOK'
      BY <2>7, <2>9, JobsAfter
    <2> QED BY <1>1, <2>7, <2>8, <2>10 DEF AnswersOK
  <1> QED BY <1>4, <1>5

-----------------------------------------------------------------------------
(* The handlers that write.                                                *)

DirType == [hot : OnDisk, cold : OnDisk, hotMeta : Sums, coldMeta : Sums]
DiskType == [Servers -> DirType]

MetasKept == \A s \in Servers : disk'[s].hotMeta = disk[s].hotMeta /\ disk'[s].coldMeta = disk[s].coldMeta

LEMMA ListedServers == client \in Client => Listed \subseteq Servers
  BY DEF Client, Listed, ToSet

LEMMA ServerKeeps ==
    ASSUME StoreInv, UNCHANGED <<mVars, client>>, CSTypeOK', TasksOK', JobsOK', CopiesOK', FramesOK',
           AnswersOK', NothingYet => NothingYet'
    PROVE  StoreInv'
  <1>1. ListKept
    BY DEF ListKept
  <1>2. UNCHANGED <<file, reg, late, cmds, bad, safe, tVars>>
    BY DEF mVars
  <1>3. CommandsOK' /\ FileOK' /\ ReaderOK'
    BY <1>1, <1>2, Untouched
  <1>4. TypeOK'
    BY <1>2 DEF StoreInv, TypeOK, MTypeOK
  <1> QED BY <1>3, <1>4 DEF StoreInv

LEMMA CopiesAfter ==
    ASSUME CopiesOK, ListKept, client \in Client, MetasKept,
           \A s \in Servers : cache'[s] \in {None, cache[s]}
    PROVE  CopiesOK'
  BY ListedServers, SameList DEF CopiesOK, MetasKept

LEMMA JobFacts ==
    ASSUME StoreInv, NEW j \in jobs
    PROVE  /\ JobOK(j) /\ At(j) \in Servers /\ j.data \in OnDisk /\ j.term \in Nat
           /\ j.for # "heartbeat" => j.data \in Contents
           /\ j.for # "heartbeat" /\ At(j) \in Listed => j.data = Written(At(j))
           /\ NothingYet => j.for = "heartbeat" /\ j.pc = "store"
  BY DEF StoreInv, JobsOK, JobOK, Job, At, NothingYet

LEMMA LoadStep ==
    ASSUME StoreInv, NEW j \in jobs, LoadTerm(j), UNCHANGED <<mVars, client>>
    PROVE  StoreInv'
  <1>1. ListKept
    BY DEF ListKept
  <1>2. /\ JobOK(j) /\ j.pc = "load" /\ ~NothingYet /\ j.for # "heartbeat"
    BY JobFacts DEF LoadTerm, JobOK
  <1>3. CallOK /\ FramesOK /\ JobsOK
    BY DEF StoreInv, TypeOK, CSTypeOK, CallOK
  <1>4. CallOK' /\ FramesOK' /\ JobsOK'
    <2>1. CASE \E n : Answer(j, n)
      BY <1>1, <1>3, <2>1, AnswerCall, JobsAfter DEF Answer
    <2>2. CASE UNCHANGED call /\ \E pc \in {"store", "data"} : Advance(j, pc)
      <3>1. PICK pc \in {"store", "data"} : Advance(j, pc)
        BY <2>2
      <3>2. JobOK([j EXCEPT !.pc = pc])
        BY <1>2, AdvanceOK
      <3>3. JobsOK'
        BY <1>1, <1>3, <3>1, <3>2, JobsAfter DEF Advance
      <3> QED BY <1>1, <1>3, <2>2, <3>3, Untouched DEF CallOK
    <2> QED BY <2>1, <2>2 DEF LoadTerm
  <1>5. UNCHANGED <<up, ownAddr, disk, cache, known, badq, tasks, answers>>
    BY DEF LoadTerm
  <1>6. CSTypeOK'
    BY <1>4, <1>5 DEF StoreInv, TypeOK, CSTypeOK, CallOK, JobsOK, JobOK
  <1> QED BY <1>1, <1>2, <1>4, <1>5, <1>6, Untouched, ServerKeeps

LEMMA StoreStep ==
    ASSUME StoreInv, NEW j \in jobs, StoreTerm(j), UNCHANGED <<mVars, client>>
    PROVE  StoreInv'
  <1>1. ListKept
    BY DEF ListKept
  <1>2. JobOK(j) /\ At(j) \in Servers /\ j.term \in Nat
    BY JobFacts
  <1>3. UNCHANGED <<up, ownAddr, disk, cache, badq, replies, tasks, call, answers>>
    BY DEF StoreTerm
  <1>4. JobsOK' /\ (j.for = "heartbeat" => jobs' = jobs \ {j})
    <2>1. CASE j.for = "heartbeat"
      BY <1>1, <2>1, JobsAfter DEF StoreTerm, StoreInv
    <2>2. CASE j.for # "heartbeat"
      BY <1>1, <1>2, <2>2, AdvanceOK, JobsAfter DEF StoreTerm, StoreInv, Advance
    <2> QED BY <2>1, <2>2
  <1>5. CSTypeOK'
    <2>1. known' \in [Servers -> Nat]
      BY <1>2 DEF StoreTerm, StoreInv, TypeOK, CSTypeOK
    <2> QED BY <1>3, <1>4, <2>1 DEF StoreInv, TypeOK, CSTypeOK, JobsOK, JobOK
  <1>6. ASSUME NothingYet PROVE NothingYet'
    <2>1. jobs' = jobs \ {j}
      BY <1>4, <1>6, JobFacts
    <2>2. UNCHANGED <<file, cmds, client>>
      BY DEF mVars
    <2> QED BY <1>3, <1>6, <2>1, <2>2 DEF NothingYet
  <1> QED BY <1>1, <1>3, <1>4, <1>5, <1>6, Untouched, ServerKeeps

LEMMA FillStep ==
    ASSUME StoreInv, NEW j \in jobs, CreateBlock(j) \/ SyncBlock(j) \/ CreateMeta(j) \/ WriteMeta(j)
    PROVE  /\ disk' \in DiskType
           /\ CreateBlock(j) \/ SyncBlock(j) => MetasKept
           /\ \A s \in Servers : s # At(j) =>
                 disk'[s].hotMeta = disk[s].hotMeta /\ disk'[s].coldMeta = disk[s].coldMeta
           /\ CreateMeta(j) =>
                 /\ disk'[At(j)].coldMeta = disk[At(j)].coldMeta
                 /\ disk'[At(j)].hotMeta = IF MetaOf(At(j)) \in {None, Torn} THEN Torn ELSE Emptied
           /\ WriteMeta(j) =>
                 /\ MetaPath(At(j)) = "hotMeta" =>
                        disk'[At(j)].hotMeta = j.data /\ disk'[At(j)].coldMeta = disk[At(j)].coldMeta
                 /\ MetaPath(At(j)) = "coldMeta" =>
                        disk'[At(j)].coldMeta = j.data /\ disk'[At(j)].hotMeta = disk[At(j)].hotMeta
  <1> DEFINE s == At(j)
             e == IF MetaOf(s) \in {None, Torn} THEN Torn ELSE Emptied
  <1>1. /\ s \in Servers /\ disk \in DiskType /\ disk[s] \in DirType
        /\ j.for # "heartbeat" /\ j.data \in OnDisk /\ j.data \in Sums
        /\ e \in Sums /\ Torn \in OnDisk
    <2>1. s \in Servers /\ disk \in DiskType
      BY JobFacts DEF StoreInv, TypeOK, CSTypeOK, DiskType, DirType
    <2>2. j.for # "heartbeat" /\ j.data \in Contents
      BY JobFacts DEF CreateBlock, SyncBlock, CreateMeta, WriteMeta, JobOK
    <2> QED BY <2>1, <2>2 DEF DiskType, OnDisk, Contents, Sums
  <1>2. PICK d \in OnDisk, f \in {"hot", "cold"} :
          CreateBlock(j) \/ SyncBlock(j) => disk' = [disk EXCEPT ![s] = [disk[s] EXCEPT ![f] = d]]
    <2>1. BlockPath(s) \in {"hot", "cold"}
      BY DEF BlockPath
    <2>2. CreateBlock(j) => disk' = [disk EXCEPT ![s] = [disk[s] EXCEPT !["hot"] = Torn]]
      BY <1>1 DEF CreateBlock
    <2>3. SyncBlock(j) => disk' = [disk EXCEPT ![s] = [disk[s] EXCEPT ![BlockPath(s)] = j.data]]
      BY <1>1 DEF SyncBlock
    <2>4. ~(CreateBlock(j) /\ SyncBlock(j))
      BY DEF CreateBlock, SyncBlock
    <2> QED BY <1>1, <2>1, <2>2, <2>3, <2>4
  <1>3. CreateMeta(j) => disk' = [disk EXCEPT ![s] = [disk[s] EXCEPT !["hotMeta"] = e]]
    BY <1>1 DEF CreateMeta
  <1>4. WriteMeta(j) => disk' = [disk EXCEPT ![s] = [disk[s] EXCEPT ![MetaPath(s)] = j.data]]
    BY <1>1 DEF WriteMeta
  <1>5. MetaPath(s) \in {"hotMeta", "coldMeta"}
    BY DEF MetaPath
  <1>6. ASSUME NEW x \in OnDisk, NEW y \in Sums
        PROVE  /\ \A g \in {"hot", "cold"} : LET r == [disk[s] EXCEPT ![g] = x] IN
                     r \in DirType /\ r.hotMeta = disk[s].hotMeta /\ r.coldMeta = disk[s].coldMeta
               /\ LET r == [disk[s] EXCEPT !["hotMeta"] = y] IN
                     r \in DirType /\ r.hotMeta = y /\ r.coldMeta = disk[s].coldMeta
               /\ LET r == [disk[s] EXCEPT !["coldMeta"] = y] IN
                     r \in DirType /\ r.coldMeta = y /\ r.hotMeta = disk[s].hotMeta
    BY <1>1 DEF DirType
  <1>7. ASSUME NEW r \in DirType, disk' = [disk EXCEPT ![s] = r]
        PROVE  /\ disk' \in DiskType /\ disk'[s] = r /\ \A x \in Servers : x # s => disk'[x] = disk[x]
    BY <1>1, <1>7 DEF DiskType
  <1> HIDE DEF s, e
  <1>8. CASE CreateBlock(j) \/ SyncBlock(j)
    <2> DEFINE r == [disk[s] EXCEPT ![f] = d]
    <2>1. r \in DirType /\ r.hotMeta = disk[s].hotMeta /\ r.coldMeta = disk[s].coldMeta
      BY <1>1, <1>6
    <2>2. disk' = [disk EXCEPT ![s] = r]
      BY <1>2, <1>8
    <2> HIDE DEF r
    <2>3. ~CreateMeta(j) /\ ~WriteMeta(j)
      BY <1>8 DEF CreateBlock, SyncBlock, CreateMeta, WriteMeta
    <2>4. disk' \in DiskType /\ disk'[s] = r /\ \A x \in Servers : x # s => disk'[x] = disk[x]
      BY <1>7, <2>1, <2>2
    <2> QED BY <2>1, <2>3, <2>4 DEF MetasKept, s
  <1>9. CASE CreateMeta(j)
    <2> DEFINE r == [disk[s] EXCEPT !["hotMeta"] = e]
    <2>1. r \in DirType /\ r.hotMeta = e /\ r.coldMeta = disk[s].coldMeta
      BY <1>1, <1>6
    <2>2. disk' = [disk EXCEPT ![s] = r]
      BY <1>3, <1>9
    <2> HIDE DEF r
    <2>3. ~CreateBlock(j) /\ ~SyncBlock(j) /\ ~WriteMeta(j)
      BY <1>9 DEF CreateBlock, SyncBlock, CreateMeta, WriteMeta
    <2>4. disk' \in DiskType /\ disk'[s] = r /\ \A x \in Servers : x # s => disk'[x] = disk[x]
      BY <1>7, <2>1, <2>2
    <2> QED BY <2>1, <2>3, <2>4 DEF s, e
  <1>10. CASE WriteMeta(j)
    <2>1. ~CreateBlock(j) /\ ~SyncBlock(j) /\ ~CreateMeta(j)
      BY <1>10 DEF CreateBlock, SyncBlock, CreateMeta, WriteMeta
    <2> DEFINE r == [disk[s] EXCEPT ![MetaPath(s)] = j.data]
    <2>2. /\ r \in DirType
          /\ MetaPath(s) = "hotMeta" => r.hotMeta = j.data /\ r.coldMeta = disk[s].coldMeta
          /\ MetaPath(s) = "coldMeta" => r.coldMeta = j.data /\ r.hotMeta = disk[s].hotMeta
      BY <1>1, <1>5, <1>6
    <2>3. disk' = [disk EXCEPT ![s] = r]
      BY <1>4, <1>10
    <2> HIDE DEF r
    <2>4. disk' \in DiskType /\ disk'[s] = r /\ \A x \in Servers : x # s => disk'[x] = disk[x]
      BY <1>7, <2>2, <2>3
    <2> QED BY <2>1, <2>2, <2>4 DEF s
  <1> QED BY <1>8, <1>9, <1>10

LEMMA WriteStep ==
    ASSUME StoreInv, NEW j \in jobs, CreateBlock(j) \/ SyncBlock(j) \/ CreateMeta(j) \/ WriteMeta(j),
           UNCHANGED <<mVars, client>>
    PROVE  StoreInv'
  <1>1. ListKept
    BY DEF ListKept
  <1>2. /\ JobOK(j) /\ ~NothingYet /\ j.for # "heartbeat" /\ At(j) \in Servers /\ j.data \in OnDisk
        /\ At(j) \in Listed => j.data = Written(At(j))
    BY JobFacts DEF CreateBlock, SyncBlock, CreateMeta, WriteMeta, JobOK
  <1>3. CallOK /\ FramesOK /\ JobsOK /\ CopiesOK /\ disk \in DiskType /\ client \in Client
    BY DEF StoreInv, TypeOK, CSTypeOK, CallOK, DiskType, DirType
  <1>4. UNCHANGED <<up, ownAddr, cache, known, badq, tasks, answers>>
    BY DEF CreateBlock, SyncBlock, CreateMeta, WriteMeta
  <1>5. disk' \in DiskType
    BY FillStep
  <1>6. CopiesOK'
    <2>1. CASE CreateBlock(j) \/ SyncBlock(j)
      BY <1>1, <1>3, <1>4, <2>1, FillStep, CopiesAfter
    <2>2. CASE CreateMeta(j)
      BY <1>1, <1>2, <1>3, <1>4, <2>2, FillStep, ListedServers, SameList DEF CopiesOK
    <2>3. CASE WriteMeta(j)
      <3>1. MetaPath(At(j)) \in {"hotMeta", "coldMeta"}
        BY DEF MetaPath
      <3>2. \A s \in Servers : {disk'[s].hotMeta, disk'[s].coldMeta} \subseteq
              {disk[s].hotMeta, disk[s].coldMeta} \cup (IF s = At(j) THEN {j.data} ELSE {})
        BY <1>2, <2>3, <3>1, FillStep
      <3> QED BY <1>1, <1>2, <1>3, <1>4, <3>2, ListedServers, SameList DEF CopiesOK
    <2> QED BY <2>1, <2>2, <2>3
  <1>7. CASE CreateBlock(j) \/ SyncBlock(j) \/ CreateMeta(j)
    <2>3. UNCHANGED call /\ \E pc \in {"sync", "meta", "fill"} : Advance(j, pc)
      BY <1>7 DEF CreateBlock, SyncBlock, CreateMeta
    <2>4. JobsOK'
      <3>1. PICK pc \in {"sync", "meta", "fill"} : Advance(j, pc)
        BY <2>3
      <3>2. JobOK([j EXCEPT !.pc = pc])
        BY <1>2, AdvanceOK
      <3> QED BY <1>1, <1>3, <3>1, <3>2, JobsAfter DEF Advance
    <2>6. CSTypeOK'
      BY <1>3, <1>4, <1>5, <2>3, <2>4 DEF StoreInv, TypeOK, CSTypeOK, JobsOK, JobOK, DiskType, DirType
    <2> QED BY <1>1, <1>2, <1>4, <1>6, <2>3, <2>4, <2>6, Untouched, ServerKeeps
  <1>8. CASE WriteMeta(j)
    <2>4. CASE \E n : Answer(j, n)
      <3>1. CallOK' /\ FramesOK' /\ JobsOK'
        BY <1>1, <1>3, <2>4, AnswerCall, JobsAfter DEF Answer
      <3>2. CSTypeOK'
        BY <1>4, <1>5, <3>1 DEF StoreInv, TypeOK, CSTypeOK, JobsOK, JobOK, DiskType, DirType, CallOK
      <3> QED BY <1>1, <1>2, <1>4, <1>6, <3>1, <3>2, Untouched, ServerKeeps
    <2>5. CASE /\ j.i < Len(j.chain)
               /\ jobs' = (jobs \ {j}) \cup {[j EXCEPT !.i = @ + 1, !.pc = "load"]} /\ UNCHANGED call
      <3> DEFINE h == [j EXCEPT !.i = @ + 1, !.pc = "load"]
      <3>1. /\ h \in Job /\ h.chain = j.chain /\ h.i = j.i + 1 /\ h.for = j.for /\ h.data = j.data
            /\ j.i \in Nat /\ j.chain \in Seq(Servers)
        <4>1. j \in Job /\ j.i \in Nat /\ j.i + 1 \in Nat /\ j.chain \in Seq(Servers)
          BY <1>2 DEF JobOK, Job
        <4>2. h = [j EXCEPT !.i = j.i + 1, !.pc = "load"]
          OBVIOUS
        <4> QED BY <4>1, <4>2 DEF Job
      <3>2. jobs' = (jobs \ {j}) \cup {h}
        BY <2>5
      <3> HIDE DEF h
      <3>3. h.i \in DOMAIN h.chain
        BY <2>5, <3>1
      <3>4. JobOK(h)
        BY <1>2, <3>1, <3>3 DEF JobOK
      <3>5. JobsOK'
        BY <1>1, <1>3, <3>2, <3>4, JobsAfter
      <3>6. CSTypeOK'
        BY <1>4, <1>5, <2>5, <3>5 DEF StoreInv, TypeOK, CSTypeOK, JobsOK, JobOK, DiskType, DirType
      <3> QED BY <1>1, <1>2, <1>4, <1>6, <2>5, <3>5, <3>6, Untouched, ServerKeeps
    <2> QED BY <1>8, <2>4, <2>5 DEF WriteMeta
  <1> QED BY <1>7, <1>8

LEMMA WriteFailsStep ==
    ASSUME StoreInv, NEW j \in jobs, WriteFails(j), UNCHANGED <<mVars, client>>
    PROVE  StoreInv'
  <1>1. ListKept /\ ~NothingYet
    BY JobFacts DEF ListKept, WriteFails
  <1>2. CallOK /\ FramesOK /\ JobsOK
    BY DEF StoreInv, TypeOK, CSTypeOK, CallOK
  <1>3. CallOK' /\ FramesOK' /\ JobsOK'
    BY <1>1, <1>2, AnswerCall, JobsAfter DEF Answer, WriteFails
  <1>4. UNCHANGED <<up, ownAddr, disk, cache, known, badq, tasks, answers>>
    BY DEF WriteFails
  <1>5. CSTypeOK'
    BY <1>3, <1>4 DEF StoreInv, TypeOK, CSTypeOK, CallOK, JobsOK, JobOK
  <1> QED BY <1>1, <1>3, <1>4, <1>5, Untouched, ServerKeeps

-----------------------------------------------------------------------------
(* Reads and recovery.                                                     *)

AnswersType == answers \subseteq Servers \X (Contents \cup {Err})

LEMMA CallFacts ==
    ASSUME StoreInv
    PROVE  /\ CallOK /\ FramesOK /\ JobsOK /\ CopiesOK /\ AnswersOK /\ AnswersType
           /\ client \in Client /\ disk \in DiskType /\ cache \in [Servers -> OnDisk]
           /\ Listed \subseteq Servers
  BY ListedServers DEF StoreInv, TypeOK, CSTypeOK, CallOK, AnswersType, DiskType, DirType

LEMMA CallKeeps ==
    ASSUME StoreInv, ~NothingYet, UNCHANGED <<mVars, client>>,
           UNCHANGED <<up, ownAddr, disk, known, tasks>>, badq' \subseteq Servers,
           cache' \in [Servers -> OnDisk], CopiesOK',
           CallOK', FramesOK', JobsOK', AnswersOK', AnswersType'
    PROVE  StoreInv'
  <1>1. ListKept
    BY DEF ListKept
  <1>2. CSTypeOK'
    BY DEF StoreInv, TypeOK, CSTypeOK, CallOK, AnswersType, JobsOK, JobOK
  <1> QED BY <1>1, <1>2, Untouched, ServerKeeps

\* What is on the disk of a server, or in its cache, is a content.
LEMMA FileIsContent ==
    ASSUME StoreInv, NEW s \in Servers
    PROVE  /\ FileOf(s) \in OnDisk /\ BlockPath(s) \in {"hot", "cold"}
           /\ disk[s].hot \in OnDisk /\ disk[s].cold \in OnDisk
           /\ cache[s] # None => cache[s] \in Contents
           /\ cache[s] # None /\ s \in Listed => cache[s] = Written(s)
  <1>1. disk[s] \in DirType
    BY CallFacts DEF DiskType
  <1>2. BlockPath(s) \in {"hot", "cold"}
    BY DEF BlockPath
  <1>3. disk[s].hot \in OnDisk /\ disk[s].cold \in OnDisk
    BY <1>1 DEF DirType
  <1>4. FileOf(s) \in OnDisk
    <2>1. disk[s]["hot"] = disk[s].hot /\ disk[s]["cold"] = disk[s].cold
      BY <1>1
    <2> QED BY <1>2, <1>3, <2>1 DEF FileOf
  <1> QED BY <1>2, <1>3, <1>4, CallFacts DEF OnDisk, CopiesOK

\* A read that ends.
LEMMA ReturnStep ==
    ASSUME StoreInv, call # <<>>, UNCHANGED <<mVars, client>>,
           UNCHANGED <<up, ownAddr, disk, known, badq, tasks>>,
           cache' \in [Servers -> OnDisk], CopiesOK',
           NEW d \in Contents \cup {Err}, Top.at \in Listed => d \in {Err, Written(Top.at)},
           Return(d)
    PROVE  StoreInv'
  <1>1. ListKept /\ ~NothingYet /\ badq' \subseteq Servers
    BY DEF ListKept, NothingYet, StoreInv, TypeOK, CSTypeOK
  <1>2. CallOK' /\ FramesOK' /\ JobsOK' /\ AnswersOK' /\ AnswersType'
    BY <1>1, CallFacts, ReturnOK DEF AnswersType
  <1> QED BY <1>1, <1>2, CallKeeps

\* A read that goes on at its top frame.
LEMMA GotoStep ==
    ASSUME StoreInv, call # <<>>, UNCHANGED <<mVars, client>>,
           UNCHANGED <<up, ownAddr, disk, cache, known, badq, tasks, jobs, answers>>,
           NEW f, FrameOK(f), Goto(f)
    PROVE  StoreInv'
  <1>1. ListKept /\ ~NothingYet /\ badq' \subseteq Servers
    BY DEF ListKept, NothingYet, StoreInv, TypeOK, CSTypeOK
  <1>2. CallOK' /\ FramesOK'
    BY <1>1, CallFacts, GotoOK DEF Goto
  <1>3. JobsOK' /\ AnswersOK' /\ CopiesOK' /\ AnswersType' /\ cache' \in [Servers -> OnDisk]
    BY <1>1, CallFacts, Untouched DEF AnswersType
  <1> QED BY <1>1, <1>2, <1>3, CallKeeps

LEMMA OpenStep ==
    ASSUME StoreInv, OpenBlock, UNCHANGED <<mVars, client>>
    PROVE  StoreInv'
  <1>1. /\ call # <<>> /\ UNCHANGED <<up, ownAddr, disk, cache, known, badq, tasks>>
    BY DEF OpenBlock
  <1>2. FrameOK(Top) /\ Top.at \in Servers
    BY <1>1, CallFacts, TopOK DEF FrameOK, Frame
  <1>3. ListKept /\ cache' \in [Servers -> OnDisk] /\ CopiesOK'
    <2>1. ListKept
      BY DEF ListKept
    <2> QED BY <1>1, <2>1, CallFacts, Untouched
  <1>4. CASE Return(Err)
    BY <1>1, <1>3, <1>4, ReturnStep
  <1>5. CASE cache[Top.at] # None /\ Return(cache[Top.at])
    <2>1. cache[Top.at] \in Contents /\ (Top.at \in Listed => cache[Top.at] = Written(Top.at))
      BY <1>2, <1>5, FileIsContent
    <2> QED BY <1>1, <1>3, <1>5, <2>1, ReturnStep
  <1>6. CASE Goto([Top EXCEPT !.pc = "read", !.path = BlockPath(Top.at)]) /\ UNCHANGED <<jobs, answers>>
    <2>1. BlockPath(Top.at) \in {"hot", "cold"}
      BY <1>2, FileIsContent
    <2>2. FrameOK([Top EXCEPT !.pc = "read", !.path = BlockPath(Top.at)])
      BY <1>2, <2>1 DEF FrameOK, Frame
    <2> QED BY <1>1, <1>6, <2>2, GotoStep
  <1> QED BY <1>4, <1>5, <1>6 DEF OpenBlock

LEMMA ReadStep ==
    ASSUME StoreInv, ReadBlock, UNCHANGED <<mVars, client>>
    PROVE  StoreInv'
  <1>1. /\ call # <<>> /\ UNCHANGED <<up, ownAddr, disk, cache, known, badq, tasks>>
    BY DEF ReadBlock
  <1>2. FrameOK(Top) /\ Top.at \in Servers /\ Top.path \in {"hot", "cold"}
    BY <1>1, CallFacts, TopOK DEF FrameOK, Frame
  <1>3. ListKept /\ cache' \in [Servers -> OnDisk] /\ CopiesOK'
    <2>1. ListKept
      BY DEF ListKept
    <2> QED BY <1>1, <2>1, CallFacts, Untouched
  <1> DEFINE d == disk[Top.at][Top.path]
  <1>4. d \in OnDisk
    <2>1. disk[Top.at] \in DirType
      BY <1>2, CallFacts DEF DiskType
    <2> QED BY <1>2, <2>1 DEF DirType
  <1>5. CASE Return(Err)
    BY <1>1, <1>3, <1>5, ReturnStep
  <1>6. CASE Goto([Top EXCEPT !.pc = "verify", !.data = d]) /\ UNCHANGED <<jobs, answers>>
    <2> HIDE DEF d
    <2>1. FrameOK([Top EXCEPT !.pc = "verify", !.data = d])
      BY <1>2, <1>4 DEF FrameOK, Frame
    <2> QED BY <1>1, <1>6, <2>1, GotoStep
  <1> QED BY <1>5, <1>6 DEF ReadBlock

LEMMA CheckStep ==
    ASSUME StoreInv, CheckRead, UNCHANGED <<mVars, client>>
    PROVE  StoreInv'
  <1>1. /\ call # <<>> /\ UNCHANGED <<up, ownAddr, disk, known, badq, tasks>>
    BY DEF CheckRead
  <1>2. FrameOK(Top) /\ Top.at \in Servers /\ Top.data \in OnDisk
    BY <1>1, CallFacts, TopOK DEF FrameOK, Frame
  <1>3. ListKept
    BY DEF ListKept
  <1>4. CASE VerifyBlock(Top.at, Top.data)
    <2>1. cache' = [cache EXCEPT ![Top.at] = Top.data] /\ Return(Top.data)
      BY <1>4 DEF CheckRead
    <2>2. Top.at \in Listed => Top.data = Written(Top.at)
      BY <1>4, CallFacts, VerifiedIsWritten
    <2>3. Top.data \in Contents
      BY <1>2, <1>4 DEF VerifyBlock, OnDisk
    <2>4. cache' \in [Servers -> OnDisk]
      BY <1>2, <2>1, CallFacts
    <2>5. CopiesOK'
      BY <1>1, <1>2, <1>3, <2>1, <2>2, CallFacts, SameList DEF CopiesOK
    <2> QED BY <1>1, <2>1, <2>2, <2>3, <2>4, <2>5, ReturnStep
  <1>5. CASE ~VerifyBlock(Top.at, Top.data)
    <2>1. Goto([Top EXCEPT !.pc = "lookup"]) /\ UNCHANGED <<jobs, answers, cache>>
      BY <1>5 DEF CheckRead
    <2>2. FrameOK([Top EXCEPT !.pc = "lookup"])
      BY <1>2, PcFrameOK
    <2> QED BY <1>1, <2>1, <2>2, GotoStep
  <1> QED BY <1>4, <1>5

\* The peers recover_block asks are listed.
LEMMA LocationsListed ==
    ASSUME StoreInv
    PROVE  BlockLocations \in Seq(Servers) /\ ToSet(BlockLocations) \subseteq Listed
  BY DEF StoreInv, TypeOK, MTypeOK, FileOK, BlockLocations, Listed, ToSet, Client

LEMMA WithoutOK ==
    ASSUME NEW S, NEW q \in Seq(S), NEW s
    PROVE  Without(q, s) \in Seq(S)
  <1>1. CASE s \notin ToSet(q)
    BY <1>1 DEF Without
  <1>2. CASE s \in ToSet(q)
    <2> DEFINE k == CHOOSE k \in DOMAIN q : q[k] = s
    <2>1. k \in 1 .. Len(q) /\ Len(q) \in Nat
      BY <1>2 DEF ToSet
    <2>2. Without(q, s) = SubSeq(q, 1, k - 1) \o SubSeq(q, k + 1, Len(q))
      BY <1>2 DEF Without, RemoveAt
    <2> HIDE DEF k
    <2>3. k - 1 \in Int /\ k + 1 \in Int /\ Len(q) \in Int /\ 1 \in Int
      BY <2>1
    <2>4. \A n \in 1 .. Len(q) : q[n] \in S
      OBVIOUS
    <2>5. (\A n \in 1 .. k - 1 : q[n] \in S) /\ (\A n \in k + 1 .. Len(q) : q[n] \in S)
      BY <2>1, <2>4
    <2>6. SubSeq(q, 1, k - 1) \in Seq(S)
      BY <2>3, <2>5, SubSeqProperties
    <2>7. SubSeq(q, k + 1, Len(q)) \in Seq(S)
      BY <2>3, <2>5, SubSeqProperties
    <2> QED BY <2>2, <2>6, <2>7, ConcatProperties
  <1> QED BY <1>1, <1>2

LEMMA LookupStep ==
    ASSUME StoreInv, LookupPeers(BlockLocations), UNCHANGED <<mVars, client>>
    PROVE  StoreInv'
  <1>1. /\ call # <<>> /\ UNCHANGED <<up, ownAddr, disk, cache, known, badq, tasks, jobs, answers>>
    BY DEF LookupPeers
  <1>2. FrameOK(Top)
    BY <1>1, CallFacts, TopOK
  <1> DEFINE q == IF Top.at \in ownAddr THEN Without(BlockLocations, Top.at) ELSE <<>>
  <1>3. q \in Seq(Servers) /\ ToSet(q) \subseteq Listed
    <2>1. BlockLocations \in Seq(Listed) /\ Listed \subseteq Servers
      BY LocationsListed, CallFacts DEF ToSet
    <2>2. q \in Seq(Listed)
      BY <2>1, WithoutOK
    <2> HIDE DEF q
    <2>3. q \in Seq(Servers)
      BY <2>1, <2>2
    <2> QED BY <2>2, <2>3 DEF ToSet
  <1>4. Goto([Top EXCEPT !.pc = "peers", !.left = q])
    BY DEF LookupPeers
  <1> HIDE DEF q
  <1>5. FrameOK([Top EXCEPT !.pc = "peers", !.left = q])
    BY <1>2, <1>3 DEF FrameOK, Frame
  <1> QED BY <1>1, <1>4, <1>5, GotoStep

\* A nested read starts on top of its caller.
LEMMA PushSeq ==
    ASSUME NEW S, NEW r \in Seq(S), NEW f \in S, NEW g \in S, NEW n \in Nat \ {0}, Len(r) = n - 1
    PROVE  \A c : c = Append(r, f) \o <<g>> =>
               /\ c \in Seq(S) /\ Len(c) = n + 1
               /\ \A k \in 1 .. n + 1 : c[k] = IF k = n + 1 THEN g ELSE IF k = n THEN f ELSE r[k]
  <1> DEFINE q == Append(r, f)
             c == q \o <<g>>
  <1>1. q \in Seq(S) /\ Len(q) = Len(r) + 1 /\ \A k \in 1 .. Len(r) + 1 : q[k] = IF k = Len(r) + 1 THEN f ELSE r[k]
    BY AppendProperties
  <1>2. n - 1 + 1 = n
    OBVIOUS
  <1>3. q \in Seq(S) /\ Len(q) = n /\ \A k \in 1 .. n : q[k] = IF k = n THEN f ELSE r[k]
    BY <1>1, <1>2
  <1>4. <<g>> \in Seq(S) /\ Len(<<g>>) = 1 /\ <<g>>[1] = g
    OBVIOUS
  <1> HIDE DEF q
  <1>5. /\ c \in Seq(S) /\ Len(c) = Len(q) + Len(<<g>>)
        /\ \A k \in 1 .. Len(q) + Len(<<g>>) : c[k] = IF k <= Len(q) THEN q[k] ELSE <<g>>[k - Len(q)]
    BY <1>3, <1>4, ConcatProperties
  <1> HIDE DEF c
  <1>6. \A k \in 1 .. n + 1 : c[k] = IF k <= n THEN q[k] ELSE <<g>>[k - n]
    BY <1>3, <1>4, <1>5
  <1>7. (n + 1) - n = 1 /\ \A k \in 1 .. n + 1 : k <= n => k \in 1 .. n /\ k # n + 1
    OBVIOUS
  <1>8. \A k \in 1 .. n + 1 : c[k] = IF k = n + 1 THEN g ELSE IF k = n THEN f ELSE r[k]
    <2> SUFFICES ASSUME NEW k \in 1 .. n + 1
                 PROVE  c[k] = IF k = n + 1 THEN g ELSE IF k = n THEN f ELSE r[k]
      OBVIOUS
    <2>1. CASE k <= n
      BY <1>3, <1>6, <1>7, <2>1
    <2>2. CASE k = n + 1
      <3>1. ~(k <= n) /\ k - n = 1
        BY <2>2
      <3>2. c[k] = <<g>>[1]
        BY <1>6, <3>1
      <3> QED BY <1>4, <2>2, <3>2
    <2> QED BY <2>1, <2>2
  <1> QED BY <1>3, <1>4, <1>5, <1>8 DEF c, q

LEMMA PushOK ==
    ASSUME CallOK, FramesOK, ListKept, call # <<>>, Len(call) < MaxDepth, NEW f, FrameOK(f), NEW g, FrameOK(g),
           call' = Append(Front(call), f) \o <<g>>
    PROVE  CallOK' /\ FramesOK'
  <1> DEFINE rest == Front(call)
             n == Len(call)
  <1>1. Listed' = Listed
    BY SameList
  <1>2. n \in Nat \ {0} /\ DOMAIN call = 1 .. n
    BY DEF CallOK
  <1>3. /\ rest \in Seq(Frame) /\ Len(rest) = n - 1
        /\ \A k \in 1 .. n - 1 : rest[k] = call[k]
    BY FrontFacts
  <1>4. f \in Frame /\ g \in Frame
    BY DEF FrameOK
  <1>5. call' = Append(rest, f) \o <<g>> /\ n < MaxDepth
    OBVIOUS
  <1> HIDE DEF rest, n
  <1>6. /\ call' \in Seq(Frame) /\ Len(call') = n + 1
        /\ \A k \in 1 .. n + 1 : call'[k] = IF k = n + 1 THEN g ELSE IF k = n THEN f ELSE rest[k]
    <2>1. \A c : c = Append(rest, f) \o <<g>> =>
            /\ c \in Seq(Frame) /\ Len(c) = n + 1
            /\ \A k \in 1 .. n + 1 : c[k] = IF k = n + 1 THEN g ELSE IF k = n THEN f ELSE rest[k]
      BY <1>2, <1>3, <1>4, PushSeq
    <2> QED BY <1>5, <2>1
  <1>7. CallOK'
    <2>1. n + 1 <= MaxDepth
      BY <1>2, <1>5, DepthAssumption
    <2> QED BY <1>6, <2>1 DEF CallOK
  <1>8. \A k \in DOMAIN call' : call'[k] = f \/ call'[k] = g \/ (k \in DOMAIN call /\ call'[k] = call[k])
    <2>1. DOMAIN call' = 1 .. n + 1
      BY <1>6
    <2>2. \A k \in 1 .. n + 1 : k # n + 1 /\ k # n => k \in 1 .. n - 1 /\ k \in 1 .. n
      BY <1>2
    <2> QED BY <1>2, <1>3, <1>6, <2>1, <2>2
  <1> QED BY <1>1, <1>7, <1>8 DEF FramesOK, FrameOK

LEMMA TryPeerStep ==
    ASSUME StoreInv, TryPeer, UNCHANGED <<mVars, client>>
    PROVE  StoreInv'
  <1>1. /\ call # <<>> /\ UNCHANGED <<up, ownAddr, disk, cache, known, badq, tasks>>
    BY DEF TryPeer
  <1>2. FrameOK(Top)
    BY <1>1, CallFacts, TopOK
  <1>3. ListKept /\ cache' \in [Servers -> OnDisk] /\ CopiesOK' /\ ~NothingYet /\ badq' \subseteq Servers
    <2>1. ListKept
      BY DEF ListKept
    <2> QED BY <1>1, <2>1, CallFacts, Untouched DEF NothingYet, StoreInv, TypeOK, CSTypeOK
  <1>4. CASE Top.left = <<>>
    <2>1. Return(Err)
      BY <1>4 DEF TryPeer
    <2> QED BY <1>1, <1>3, <2>1, ReturnStep
  <1>5. CASE Top.left # <<>>
    <2> DEFINE peer == Head(Top.left)
               f == [Top EXCEPT !.left = Tail(Top.left)]
               g == NewFrame(peer, "read", "open")
    <2>1. /\ UNCHANGED <<jobs, answers>>
          /\ \/ Len(call) < MaxDepth /\ call' = Append(Front(call), f) \o <<g>>
             \/ Goto(f)
      BY <1>5 DEF TryPeer
    <2>2. Top.left \in Seq(Servers) /\ ToSet(Top.left) \subseteq Listed
      BY <1>2 DEF FrameOK, Frame
    <2>3. peer \in Servers /\ peer \in Listed
      BY <1>5, <2>2 DEF ToSet
    <2>4. Tail(Top.left) \in Seq(Servers) /\ ToSet(Tail(Top.left)) \subseteq Listed
      BY <1>5, <2>2, HeadTailProperties DEF ToSet
    <2>5. FrameOK(g)
      BY <2>3, NewFrameOK
    <2>6. FrameOK(f)
      BY <1>2, <2>4 DEF FrameOK, Frame
    <2> HIDE DEF f, g
    <2>7. CASE Goto(f)
      BY <1>1, <2>1, <2>6, <2>7, GotoStep
    <2>8. CASE Len(call) < MaxDepth /\ call' = Append(Front(call), f) \o <<g>>
      <3>1. CallOK' /\ FramesOK'
        BY <1>1, <1>3, <2>5, <2>6, <2>8, CallFacts, PushOK
      <3>2. JobsOK' /\ AnswersOK' /\ AnswersType'
        BY <1>3, <2>1, CallFacts, Untouched DEF AnswersType
      <3> QED BY <1>1, <1>3, <3>1, <3>2, CallKeeps
    <2> QED BY <2>1, <2>7, <2>8
  <1> QED BY <1>4, <1>5

LEMMA RereadStep ==
    ASSUME StoreInv, Reread, UNCHANGED <<mVars, client>>
    PROVE  StoreInv'
  <1>1. /\ call # <<>> /\ UNCHANGED <<up, ownAddr, disk, cache, known, badq, tasks>>
    BY DEF Reread
  <1>2. FrameOK(Top) /\ Top.at \in Servers
    BY <1>1, CallFacts, TopOK DEF FrameOK, Frame
  <1>3. ListKept /\ cache' \in [Servers -> OnDisk] /\ CopiesOK'
    <2>1. ListKept
      BY DEF ListKept
    <2> QED BY <1>1, <2>1, CallFacts, Untouched
  <1> DEFINE d == FileOf(Top.at)
  <1>4. d \in OnDisk
    BY <1>2, FileIsContent
  <1>5. CASE d # None /\ VerifyBlock(Top.at, d)
    <2>1. Return(d)
      BY <1>5 DEF Reread
    <2>2. d \in Contents /\ (Top.at \in Listed => d = Written(Top.at))
      BY <1>4, <1>5, CallFacts, VerifiedIsWritten DEF OnDisk
    <2> HIDE DEF d
    <2> QED BY <1>1, <1>3, <2>1, <2>2, ReturnStep
  <1>6. CASE ~(d # None /\ VerifyBlock(Top.at, d))
    <2>1. Return(Err)
      BY <1>6 DEF Reread
    <2> QED BY <1>1, <1>3, <2>1, ReturnStep
  <1> QED BY <1>5, <1>6

LEMMA OneFrameOK ==
    ASSUME ListKept, NEW f, FrameOK(f), call' = <<f>>
    PROVE  CallOK' /\ FramesOK'
  <1>1. Listed' = Listed
    BY SameList
  <1>2. f \in Frame /\ DOMAIN <<f>> = {1} /\ <<f>>[1] = f
    BY DEF FrameOK
  <1>3. CallOK'
    BY <1>2, DepthAssumption DEF CallOK
  <1> QED BY <1>1, <1>2, <1>3 DEF FramesOK, FrameOK

\* Nothing is on disk, or cached, before the block is allocated.
LEMMA StoredLater ==
    ASSUME NothingYet, NEW s \in Servers
    PROVE  /\ disk[s].hot = None /\ disk[s].cold = None /\ disk[s].hotMeta = None /\ disk[s].coldMeta = None
           /\ FileOf(s) = None /\ cache[s] = None
  <1>1. disk[s] = [hot |-> None, cold |-> None, hotMeta |-> None, coldMeta |-> None] /\ cache[s] = None
    BY DEF NothingYet
  <1> QED BY <1>1 DEF FileOf, BlockPath

\* recover_block after a partial read, or for the scrubber.
LEMMA RecoverStep ==
    ASSUME StoreInv, NEW s \in Servers, PartialRead(s) \/ Scrub(s), UNCHANGED <<mVars, client>>
    PROVE  StoreInv'
  <1>1. /\ UNCHANGED <<up, ownAddr, disk, cache, known, jobs, tasks, answers>>
        /\ call' = <<NewFrame(s, "recover", "lookup")>> /\ badq' \subseteq Servers
    BY DEF PartialRead, Scrub, StoreInv, TypeOK, CSTypeOK
  <1>2. ListKept
    BY DEF ListKept
  <1>3. ~NothingYet
    BY StoredLater DEF PartialRead, Scrub
  <1>4. CallOK' /\ FramesOK'
    BY <1>1, <1>2, NewFrameOK, OneFrameOK
  <1>5. JobsOK' /\ AnswersOK' /\ CopiesOK' /\ AnswersType' /\ cache' \in [Servers -> OnDisk]
    BY <1>1, <1>2, CallFacts, Untouched DEF AnswersType
  <1> QED BY <1>1, <1>3, <1>4, <1>5, CallKeeps

LEMMA EvictStep ==
    ASSUME StoreInv, NEW s \in Servers, Evict(s), UNCHANGED <<mVars, client>>
    PROVE  StoreInv'
  <1>1. /\ UNCHANGED <<up, ownAddr, disk, known, jobs, tasks, answers, badq, call>>
        /\ cache' = [cache EXCEPT ![s] = None] /\ cache[s] # None
    BY DEF Evict
  <1>2. ListKept /\ badq' \subseteq Servers
    BY <1>1 DEF ListKept, StoreInv, TypeOK, CSTypeOK
  <1>3. ~NothingYet
    BY <1>1, StoredLater
  <1>4. CallOK' /\ FramesOK' /\ JobsOK' /\ AnswersOK' /\ AnswersType'
    BY <1>1, <1>2, CallFacts, Untouched DEF AnswersType, CallOK
  <1>5. cache' \in [Servers -> OnDisk]
    BY <1>1, CallFacts DEF OnDisk
  <1>6. CopiesOK'
    <2>1. MetasKept /\ \A x \in Servers : cache'[x] \in {None, cache[x]}
      BY <1>1, CallFacts DEF MetasKept
    <2> QED BY <1>2, <2>1, CallFacts, CopiesAfter
  <1> QED BY <1>1, <1>2, <1>3, <1>4, <1>5, <1>6, CallKeeps

-----------------------------------------------------------------------------
(* The tasks of a heartbeat's commands.                                    *)

LEMMA TaskFacts ==
    ASSUME StoreInv, NEW t \in tasks
    PROVE  ~NothingYet /\ t.at \in Servers /\ Harmless(t.at, t.type, t.target, t.idx)
  BY DEF StoreInv, TasksOK, NothingYet

LEMMA TasksLess ==
    ASSUME StoreInv, ListKept, tasks' \subseteq tasks
    PROVE  TasksOK'
  <1>1. Listed' = Listed
    BY SameList
  <1> QED BY <1>1 DEF StoreInv, TasksOK, Harmless

\* Copies and rebuilt shards go to servers that are not listed.
LEMMA SpawnStep ==
    ASSUME StoreInv, NEW t \in tasks, Replicate(t) \/ Reconstruct(t, DataShards), UNCHANGED <<mVars, client>>
    PROVE  StoreInv'
  <1>1. /\ UNCHANGED <<up, ownAddr, disk, cache, known, badq, replies, call, answers>>
        /\ tasks' = tasks \ {t}
    BY DEF Replicate, Reconstruct
  <1>2. ListKept
    BY DEF ListKept
  <1>3. ~NothingYet /\ t.at \in Servers /\ Harmless(t.at, t.type, t.target, t.idx)
    BY TaskFacts
  <1>4. JobsOK'
    <2>1. CASE Replicate(t)
      <3>1. t.target \in Servers \ Listed
        BY <1>3, <2>1 DEF Replicate, Harmless
      <3>2. known[t.at] \in Nat /\ FileOf(t.at) \in OnDisk
        BY <1>3, FileIsContent DEF StoreInv, TypeOK, CSTypeOK
      <3>3. ASSUME FileOf(t.at) # None
            PROVE  JobOK(NewJob(<<t.target>>, "load", known[t.at], FileOf(t.at), "nobody"))
        <4>1. FileOf(t.at) \in Contents
          BY <3>2, <3>3 DEF OnDisk
        <4> QED BY <3>1, <3>2, <4>1, NewJobOK
      <3>4. \A j \in jobs' : j \in jobs \/ (/\ FileOf(t.at) # None
                 /\ j = NewJob(<<t.target>>, "load", known[t.at], FileOf(t.at), "nobody"))
        BY <2>1 DEF Replicate
      <3> QED BY <1>2, <3>3, <3>4, CallFacts, JobsAfter
    <2>2. CASE Reconstruct(t, DataShards)
      <3>1. t.at \notin Listed /\ t.idx \in DOMAIN Shards
        BY <1>3, <2>2 DEF Reconstruct, Harmless
      <3>2. PICK d \in {Shards[t.idx], Rotten} :
              jobs' \subseteq jobs \cup {NewJob(<<t.at>>, "data", 0, d, "nobody")}
        BY <2>2 DEF Reconstruct
      <3>3. d \in OnDisk /\ d \in Contents
        BY <3>1 DEF OnDisk, Contents, Range
      <3>4. JobOK(NewJob(<<t.at>>, "data", 0, d, "nobody"))
        BY <1>3, <3>1, <3>3, NewJobOK
      <3> QED BY <1>2, <3>2, <3>4, CallFacts, JobsAfter
    <2> QED BY <2>1, <2>2
  <1>5. CopiesOK' /\ FramesOK' /\ AnswersOK' /\ TasksOK'
    BY <1>1, <1>2, Untouched, TasksLess
  <1>6. CSTypeOK'
    BY <1>1, <1>4 DEF StoreInv, TypeOK, CSTypeOK, JobsOK, JobOK
  <1> QED BY <1>3, <1>4, <1>5, <1>6, ServerKeeps

\* A step that changes files only.
LEMMA FilesStep ==
    ASSUME StoreInv, ~NothingYet, UNCHANGED <<mVars, client>>,
           UNCHANGED <<up, ownAddr, cache, known, badq, jobs, call, answers>>,
           disk' \in DiskType, TasksOK',
           \A s \in Servers : {disk'[s].hotMeta, disk'[s].coldMeta}
                                \subseteq {None, disk[s].hotMeta, disk[s].coldMeta}
    PROVE  StoreInv'
  <1>1. ListKept
    BY DEF ListKept
  <1>2. CopiesOK'
    BY <1>1, CallFacts, SameList DEF CopiesOK
  <1>3. CSTypeOK'
    BY DEF StoreInv, TypeOK, CSTypeOK, DiskType, DirType
  <1> QED BY <1>1, <1>2, <1>3, Untouched, ServerKeeps

LEMMA MoveBlockStep ==
    ASSUME StoreInv, NEW t \in tasks, MoveBlock(t), UNCHANGED <<mVars, client>>
    PROVE  StoreInv'
  <1>1. UNCHANGED <<up, ownAddr, cache, known, badq, jobs, replies, call, answers>>
    BY DEF MoveBlock
  <1>2. ListKept /\ ~NothingYet /\ t.at \in Servers
    BY TaskFacts DEF ListKept
  <1>3. CASE t.at \in ColdDir /\ disk[t.at].hot # None
    <2> DEFINE s == t.at
               u == [t EXCEPT !.type = "coldMeta"]
    <2>1. /\ disk' = [disk EXCEPT ![s].cold = disk[s].hot, ![s].hot = None]
          /\ tasks' = (tasks \ {t}) \cup {u}
      BY <1>3 DEF MoveBlock
    <2>2. /\ disk' \in DiskType
          /\ \A x \in Servers : disk'[x].hotMeta = disk[x].hotMeta /\ disk'[x].coldMeta = disk[x].coldMeta
      <3>1. disk[s] \in DirType /\ disk \in DiskType
        BY <1>2, CallFacts DEF DiskType
      <3>2. disk' = [disk EXCEPT ![s] = [disk[s] EXCEPT !.cold = disk[s].hot, !.hot = None]]
        BY <2>1, <3>1
      <3> DEFINE f == [disk[s] EXCEPT !.cold = disk[s].hot, !.hot = None]
      <3>3. /\ f \in DirType
            /\ f.hotMeta = disk[s].hotMeta /\ f.coldMeta = disk[s].coldMeta
        BY <3>1 DEF OnDisk, DirType
      <3>4. disk' = [disk EXCEPT ![s] = f]
        BY <3>2
      <3> HIDE DEF f
      <3> QED BY <1>2, <3>1, <3>3, <3>4 DEF DiskType
    <2>3. u.at = t.at /\ u.type = "coldMeta"
      BY DEF MoveBlock
    <2>4. TasksOK'
      <3>1. Listed' = Listed
        BY <1>2, SameList
      <3>2. \A x \in tasks' : x \in tasks \/ x = u
        BY <2>1
      <3> QED BY <1>2, <1>3, <2>3, <3>1, <3>2 DEF StoreInv, TasksOK, Harmless
    <2> QED BY <1>1, <1>2, <2>2, <2>4, FilesStep
  <1>4. CASE ~(t.at \in ColdDir /\ disk[t.at].hot # None)
    <2>1. tasks' \subseteq tasks /\ UNCHANGED disk
      BY <1>4 DEF MoveBlock
    <2> QED BY <1>1, <1>2, <2>1, CallFacts, TasksLess, FilesStep DEF DiskType
  <1> QED BY <1>3, <1>4

LEMMA MoveMetaStep ==
    ASSUME StoreInv, NEW t \in tasks, MoveMeta(t), UNCHANGED <<mVars, client>>
    PROVE  StoreInv'
  <1> DEFINE s == t.at
  <1>1. /\ UNCHANGED <<up, ownAddr, cache, known, badq, jobs, replies, call, answers>>
        /\ tasks' = tasks \ {t}
    BY DEF MoveMeta
  <1>2. ListKept /\ ~NothingYet /\ t.at \in Servers
    BY TaskFacts DEF ListKept
  <1>3. TasksOK'
    BY <1>1, <1>2, TasksLess
  <1>4. CASE UNCHANGED disk
    BY <1>1, <1>2, <1>3, <1>4, CallFacts, FilesStep DEF DiskType
  <1>5. CASE disk' = [disk EXCEPT ![s].coldMeta = disk[s].hotMeta, ![s].hotMeta = None]
    <2>1. disk[s] \in DirType /\ disk \in DiskType
      BY <1>2, CallFacts DEF DiskType
    <2>2. disk' = [disk EXCEPT ![s] = [disk[s] EXCEPT !.coldMeta = disk[s].hotMeta, !.hotMeta = None]]
      BY <1>5, <2>1
    <2> DEFINE f == [disk[s] EXCEPT !.coldMeta = disk[s].hotMeta, !.hotMeta = None]
    <2>3. /\ f \in DirType
          /\ f.hotMeta = None /\ f.coldMeta = disk[s].hotMeta /\ disk' = [disk EXCEPT ![s] = f]
      BY <2>1, <2>2 DEF OnDisk, Sums, DirType
    <2> HIDE DEF f
    <2>4. /\ disk' \in DiskType
          /\ \A x \in Servers : {disk'[x].hotMeta, disk'[x].coldMeta}
                                  \subseteq {None, disk[x].hotMeta, disk[x].coldMeta}
      BY <1>2, <2>1, <2>3 DEF DiskType
    <2> QED BY <1>1, <1>2, <1>3, <2>4, FilesStep
  <1> QED BY <1>4, <1>5 DEF MoveMeta

LEMMA RotStep ==
    ASSUME StoreInv, NEW s \in Servers, Rot(s), UNCHANGED <<mVars, client>>
    PROVE  StoreInv'
  <1>1. UNCHANGED <<up, ownAddr, cache, known, badq, jobs, replies, tasks, call, answers>>
    BY DEF Rot
  <1>2. PICK d \in {"hot", "cold"} : disk[s][d] # None /\ disk' = [disk EXCEPT ![s][d] = Rotten]
    BY DEF Rot
  <1>3. disk[s] \in DirType /\ disk \in DiskType
    BY CallFacts DEF DiskType
  <1>4. ListKept /\ ~NothingYet
    BY <1>2, StoredLater DEF ListKept
  <1>5. TasksOK'
    BY <1>1, <1>4, TasksLess
  <1>6. /\ disk' \in DiskType
        /\ \A x \in Servers : disk'[x].hotMeta = disk[x].hotMeta /\ disk'[x].coldMeta = disk[x].coldMeta
    <2>1. disk' = [disk EXCEPT ![s] = [disk[s] EXCEPT ![d] = Rotten]]
      BY <1>2, <1>3
    <2> DEFINE f == [disk[s] EXCEPT ![d] = Rotten]
    <2>2. /\ f \in DirType
          /\ f.hotMeta = disk[s].hotMeta /\ f.coldMeta = disk[s].coldMeta
      <3>1. CASE d = "hot"
        BY <1>3, <3>1 DEF OnDisk, Contents, DirType
      <3>2. CASE d = "cold"
        BY <1>3, <3>2 DEF OnDisk, Contents, DirType
      <3> QED BY <3>1, <3>2
    <2> HIDE DEF f
    <2> QED BY <1>3, <2>1, <2>2 DEF DiskType, f
  <1> QED BY <1>1, <1>4, <1>5, <1>6, FilesStep

LEMMA RestartStep ==
    ASSUME StoreInv, NEW s \in Servers, Restart(s), UNCHANGED <<mVars, client>>
    PROVE  StoreInv'
  <1>1. /\ UNCHANGED <<ownAddr, disk, cache, known, badq, jobs, replies, tasks, call, answers>>
        /\ up' = up \cup {s}
    BY DEF Restart
  <1>2. ListKept
    BY DEF ListKept
  <1>3. CSTypeOK'
    BY <1>1 DEF StoreInv, TypeOK, CSTypeOK
  <1>4. NothingYet => NothingYet'
    BY <1>1 DEF NothingYet, mVars
  <1> QED BY <1>1, <1>2, <1>3, <1>4, Untouched, ServerKeeps

-----------------------------------------------------------------------------
(* A crash.                                                                *)

LEMMA LeastOf ==
    ASSUME NEW T \in SUBSET Nat, T # {}
    PROVE  \E k \in T : \A j \in T : k <= j
  <1> DEFINE R == {ss \in Nat \X Nat : ss[1] < ss[2]}
  <1>1. IsWellFoundedOn(R, Nat)
    BY NatLessThanWellFounded DEF OpToRel
  <1>2. PICK x \in T : \A y \in T : <<y, x>> \notin R
    <2> HIDE DEF R
    <2> QED BY <1>1, WFMin
  <1>3. ASSUME NEW y \in T PROVE x <= y
    <2>1. x \in Nat /\ y \in Nat /\ <<y, x>> \notin R
      BY <1>2
    <2>2. ~(y < x)
      BY <2>1
    <2> QED BY <2>1, <2>2
  <1> QED BY <1>3

HopOf(j, s) == CHOOSE k \in Hop(j, s) : TRUE

\* What becomes of the handlers: they go on, for nobody when recover_block is
\* gone, or the part below the crashed server goes on for nobody.
LEMMA CrashJobs ==
    ASSUME NEW s, Crash(s)
    PROVE  /\ \A h \in jobs' : \E j \in jobs :
                \/ Hop(j, s) = {} /\ h = j
                \/ Hop(j, s) = {} /\ j.for = "recover" /\ h = [j EXCEPT !.for = "nobody"]
                \/ HopOf(j, s) \in Hop(j, s) /\ HopOf(j, s) < j.i /\ h = Below(j, HopOf(j, s))
           /\ \A r \in replies' : r \in replies \/ \E j \in jobs :
                /\ HopOf(j, s) \in Hop(j, s) /\ j.for = "client"
                /\ r = [from |-> j.chain[1], n |-> HopOf(j, s) - 1]
  <1>1. \A j : Hop(j, s) # {} => HopOf(j, s) \in Hop(j, s)
    BY DEF HopOf
  <1> DEFINE hit == {j \in jobs : Hop(j, s) # {}}
             frames == {k \in DOMAIN call : call[k].at = s}
             orphan(j) == IF frames # {} /\ j.for = "recover" THEN [j EXCEPT !.for = "nobody"] ELSE j
  <1>2. jobs' = {orphan(j) : j \in jobs \ hit} \cup {Below(j, HopOf(j, s)) : j \in {j \in hit : HopOf(j, s) < j.i}}
    BY Zenon DEF Crash, HopOf
  <1>3. replies' = replies \cup {[from |-> j.chain[1], n |-> HopOf(j, s) - 1] : j \in {j \in hit : j.for = "client"}}
    BY Zenon DEF Crash, HopOf
  <1>4. \A j : orphan(j) = j \/ (j.for = "recover" /\ orphan(j) = [j EXCEPT !.for = "nobody"])
    BY Zenon
  <1> HIDE DEF orphan
  <1>5. ASSUME NEW h \in jobs'
        PROVE  \E j \in jobs :
                \/ Hop(j, s) = {} /\ h = j
                \/ Hop(j, s) = {} /\ j.for = "recover" /\ h = [j EXCEPT !.for = "nobody"]
                \/ HopOf(j, s) \in Hop(j, s) /\ HopOf(j, s) < j.i /\ h = Below(j, HopOf(j, s))
    <2>1. CASE h \in {orphan(j) : j \in jobs \ hit}
      BY <1>4, <2>1
    <2>2. CASE h \in {Below(j, HopOf(j, s)) : j \in {j \in hit : HopOf(j, s) < j.i}}
      BY <1>1, <2>2
    <2> QED BY <1>2, <2>1, <2>2
  <1>6. ASSUME NEW r \in replies', r \notin replies
        PROVE  \E j \in jobs : /\ HopOf(j, s) \in Hop(j, s) /\ j.for = "client"
                               /\ r = [from |-> j.chain[1], n |-> HopOf(j, s) - 1]
    <2>1. r \in {[from |-> j.chain[1], n |-> HopOf(j, s) - 1] : j \in {j \in hit : j.for = "client"}}
      BY <1>3, <1>6
    <2> QED BY <1>1, <2>1
  <1> QED BY <1>5, <1>6

\* The part of a pipeline below server k.
LEMMA BelowOK ==
    ASSUME NEW j, JobOK(j), NEW k \in 1 .. j.i, k < j.i
    PROVE  /\ JobOK(Below(j, k)) /\ Below(j, k).for = "nobody" /\ j.for # "heartbeat"
  <1> DEFINE h == Below(j, k)
             q == SubSeq(j.chain, k + 1, Len(j.chain))
             n == Len(j.chain)
  <1>1. j \in Job /\ j.i \in Nat /\ j.chain \in Seq(Servers) /\ n \in Nat /\ j.i \in 1 .. n /\ k \in Nat
    BY DEF JobOK, Job
  <1>2. j.for # "heartbeat"
    BY <1>1 DEF JobOK
  <1>3. /\ q \in Seq(Servers)
        /\ Len(q) = IF k + 1 <= n THEN n - (k + 1) + 1 ELSE 0
        /\ \A m \in 1 .. n - (k + 1) + 1 : q[m] = j.chain[(k + 1) + m - 1]
    <2>1. k + 1 \in Int /\ n \in Int /\ \A m \in k + 1 .. n : j.chain[m] \in Servers
      BY <1>1
    <2> QED BY <2>1, SubSeqProperties
  <1>4. h = [j EXCEPT !.chain = q, !.i = j.i - k, !.for = "nobody"]
    BY DEF Below
  <1> HIDE DEF q, n
  <1>5. /\ j.i - k \in Nat /\ j.i - k \in 1 .. n - k /\ k + 1 <= n /\ n - (k + 1) + 1 = n - k
        /\ \A m \in 1 .. n - k : k + m \in 1 .. n /\ (k + 1) + m - 1 = k + m
    BY <1>1
  <1>6. Len(q) = n - k /\ \A m \in 1 .. n - k : q[m] = j.chain[k + m]
    BY <1>3, <1>5
  <1>7. h \in Job /\ h.chain = q /\ h.i = j.i - k /\ h.for = "nobody" /\ h.data = j.data
    <2>1. \A i \in Nat : [j EXCEPT !.chain = q, !.i = i, !.for = "nobody"] \in Job
      BY <1>1, <1>3 DEF Job
    <2>2. \A i \in Nat : LET x == [j EXCEPT !.chain = q, !.i = i, !.for = "nobody"]
                         IN  x.chain = q /\ x.i = i /\ x.for = "nobody" /\ x.data = j.data
      BY <1>1 DEF Job
    <2> HIDE DEF h
    <2> QED BY <1>4, <1>5, <2>1, <2>2
  <1> HIDE DEF h
  <1>8. DOMAIN j.chain = 1 .. n /\ DOMAIN q = 1 .. n - k
    BY <1>1, <1>3, <1>6 DEF n
  <1>9. \A m \in DOMAIN h.chain : h.chain[m] \in Listed => h.data = Written(h.chain[m])
    <2>1. \A m \in DOMAIN q : k + m \in DOMAIN j.chain /\ q[m] = j.chain[k + m]
      BY <1>5, <1>6, <1>8
    <2>2. \A x \in DOMAIN j.chain : j.chain[x] \in Listed => j.data = Written(j.chain[x])
      BY <1>2 DEF JobOK
    <2> QED BY <1>7, <2>1, <2>2
  <1>10. JobOK(h)
    BY <1>5, <1>7, <1>8, <1>9 DEF JobOK
  <1> QED BY <1>2, <1>7, <1>10 DEF h

\* The calls below the first one of the crashed server go on.
LEMMA CutOK ==
    ASSUME CallOK, FramesOK, ListKept, NEW m \in Nat, m >= 1, m < Len(call),
           call' = [SubSeq(call, 1, m) EXCEPT ![m].pc = "peers"]
    PROVE  CallOK' /\ FramesOK'
  <1> DEFINE q == SubSeq(call, 1, m)
             f == [call[m] EXCEPT !.pc = "peers"]
  <1>1. call \in Seq(Frame) /\ Len(call) \in Nat /\ DOMAIN call = 1 .. Len(call) /\ Len(call) <= MaxDepth
    BY DEF CallOK
  <1>2. 1 \in Int /\ m \in Int /\ \A k \in 1 .. m : k \in DOMAIN call /\ call[k] \in Frame
    BY <1>1
  <1>3. /\ q \in Seq(Frame) /\ Len(q) = IF 1 <= m THEN m - 1 + 1 ELSE 0
        /\ \A k \in 1 .. m - 1 + 1 : q[k] = call[1 + k - 1]
    BY <1>2, SubSeqProperties
  <1>4. call' = [q EXCEPT ![m].pc = "peers"]
    OBVIOUS
  <1> HIDE DEF q
  <1>5. m - 1 + 1 = m /\ \A k \in 1 .. m : 1 + k - 1 = k
    OBVIOUS
  <1>6. q \in Seq(Frame) /\ Len(q) = m /\ \A k \in 1 .. m : q[k] = call[k]
    BY <1>3, <1>5
  <1>7. m \in 1 .. m /\ q[m] = call[m]
    BY <1>6
  <1>8. call' = [q EXCEPT ![m] = f]
    BY <1>4, <1>7
  <1>9. FrameOK(f)
    <2>1. FrameOK(call[m])
      BY <1>2, <1>7 DEF FramesOK, FrameOK
    <2> QED BY <2>1, PcFrameOK
  <1> HIDE DEF f
  <1>10. call' \in Seq(Frame) /\ Len(call') = m /\ \A k \in 1 .. m : call'[k] = IF k = m THEN f ELSE q[k]
    <2>1. f \in Frame /\ m \in 1 .. Len(q)
      BY <1>6, <1>7, <1>9 DEF FrameOK
    <2>2. /\ call' \in Seq(Frame) /\ Len(call') = Len(q)
          /\ \A k \in 1 .. Len(q) : call'[k] = IF k = m THEN f ELSE q[k]
      <3>1. q \in Seq(Frame)
        BY <1>6
      <3>2. \A x : x = [q EXCEPT ![m] = f] => /\ x \in Seq(Frame) /\ Len(x) = Len(q)
                                             /\ \A k \in 1 .. Len(q) : x[k] = IF k = m THEN f ELSE q[k]
        BY <2>1, <3>1, ExceptSeq
      <3> QED BY <1>8, <3>2
    <2> QED BY <1>6, <2>2
  <1>11. Listed' = Listed
    BY SameList
  <1>12. CallOK'
    BY <1>1, <1>10, DepthAssumption DEF CallOK
  <1>13. DOMAIN call' = 1 .. m
    BY <1>10
  <1> QED BY <1>2, <1>6, <1>9, <1>10, <1>11, <1>12, <1>13 DEF FramesOK, FrameOK

LEMMA CrashCall ==
    ASSUME CallOK, FramesOK, ListKept, NEW s, Crash(s)
    PROVE  /\ CallOK' /\ FramesOK' /\ answers' \subseteq answers \cup {<<s, Err>>}
           /\ call = <<>> => call' = <<>> /\ answers' = answers
  <1> DEFINE frames == {k \in DOMAIN call : call[k].at = s}
             first == CHOOSE k \in frames : \A l \in frames : k <= l
  <1>1. call \in Seq(Frame) /\ Len(call) \in Nat /\ DOMAIN call = 1 .. Len(call)
    BY DEF CallOK
  <1>2. frames # {} => first \in frames
    <2>1. frames \in SUBSET Nat
      BY <1>1
    <2> HIDE DEF frames
    <2> QED BY <2>1, LeastOf
  <1>3. /\ call' = IF frames = {} THEN call
                   ELSE IF first = 1 THEN <<>>
                   ELSE [SubSeq(call, 1, first - 1) EXCEPT ![first - 1].pc = "peers"]
        /\ answers' = IF frames # {} /\ first = 1 /\ call[1].kind = "read"
                      THEN answers \cup {<<s, Err>>} ELSE answers
    BY DEF Crash
  <1>4. call = <<>> => frames = {}
    OBVIOUS
  <1>5. frames # {} => first \in 1 .. Len(call)
    BY <1>1, <1>2
  <1> HIDE DEF frames, first
  <1>6. CallOK' /\ FramesOK'
    <2>1. CASE frames = {}
      BY <1>3, <2>1, SameList DEF CallOK, FramesOK
    <2>2. CASE frames # {} /\ first = 1
      <3>1. call' = <<>>
        BY <1>3, <2>2
      <3> QED BY <3>1, DepthAssumption DEF CallOK, FramesOK
    <2>3. CASE frames # {} /\ first # 1
      <3>1. call' = [SubSeq(call, 1, first - 1) EXCEPT ![first - 1].pc = "peers"]
        BY <1>3, <2>3
      <3>2. first - 1 \in Nat /\ first - 1 >= 1 /\ first - 1 < Len(call)
        BY <1>1, <1>5, <2>3
      <3> QED BY <3>1, <3>2, CutOK
    <2> QED BY <2>1, <2>2, <2>3
  <1> QED BY <1>3, <1>4, <1>6

LEMMA CrashStep ==
    ASSUME StoreInv, NEW s \in Servers, Crash(s), UNCHANGED <<mVars, client>>
    PROVE  StoreInv'
  <1>1. /\ UNCHANGED <<ownAddr, disk>> /\ up' = up \ {s}
        /\ cache' = [cache EXCEPT ![s] = None] /\ known' = [known EXCEPT ![s] = 0]
        /\ badq' = badq \ {s} /\ tasks' \subseteq tasks
    BY DEF Crash
  <1>2. ListKept
    BY DEF ListKept
  <1>3. /\ CallOK' /\ FramesOK' /\ answers' \subseteq answers \cup {<<s, Err>>}
        /\ call = <<>> => call' = <<>> /\ answers' = answers
    BY <1>2, CallFacts, CrashCall
  <1>4. ASSUME NEW h \in jobs'
        PROVE  /\ h \in jobs \/ JobOK(h)
               /\ NothingYet => h \in jobs
    <2>1. PICK j \in jobs :
                \/ Hop(j, s) = {} /\ h = j
                \/ Hop(j, s) = {} /\ j.for = "recover" /\ h = [j EXCEPT !.for = "nobody"]
                \/ HopOf(j, s) \in Hop(j, s) /\ HopOf(j, s) < j.i /\ h = Below(j, HopOf(j, s))
      BY CrashJobs
    <2>2. JobOK(j) /\ (NothingYet => j.for = "heartbeat")
      BY JobFacts
    <2>3. CASE h = j
      BY <2>3
    <2>4. CASE j.for = "recover" /\ h = [j EXCEPT !.for = "nobody"]
      <3>1. /\ h \in Job /\ h.chain = j.chain /\ h.i = j.i /\ h.for = "nobody" /\ h.data = j.data
        BY <2>2, <2>4 DEF JobOK, Job
      <3> QED BY <2>2, <2>4, <3>1 DEF JobOK
    <2>5. CASE HopOf(j, s) \in Hop(j, s) /\ HopOf(j, s) < j.i /\ h = Below(j, HopOf(j, s))
      <3>1. HopOf(j, s) \in 1 .. j.i
        BY <2>5 DEF Hop
      <3> QED BY <2>2, <2>5, <3>1, BelowOK
    <2> QED BY <2>1, <2>3, <2>4, <2>5
  <1>5. JobsOK'
    BY <1>2, <1>4, CallFacts, JobsAfter
  <1>6. AnswersOK' /\ AnswersType'
    BY <1>2, <1>3, CallFacts, SameList DEF AnswersOK, AnswersType
  <1>7. cache' \in [Servers -> OnDisk] /\ CopiesOK'
    <2>1. cache' \in [Servers -> OnDisk]
      BY <1>1, CallFacts DEF OnDisk
    <2>2. MetasKept /\ \A x \in Servers : cache'[x] \in {None, cache[x]}
      BY <1>1, CallFacts DEF MetasKept
    <2> QED BY <1>2, <2>1, <2>2, CallFacts, CopiesAfter
  <1>8. TasksOK'
    BY <1>1, <1>2, TasksLess
  <1>9. CSTypeOK'
    BY <1>1, <1>3, <1>5, <1>6, <1>7 DEF StoreInv, TypeOK, CSTypeOK, CallOK, AnswersType, JobsOK, JobOK
  <1>10. ASSUME NothingYet PROVE NothingYet'
    <2>1. UNCHANGED <<client, file, cmds, disk>>
      BY <1>1 DEF mVars
    <2>2. call' = <<>> /\ answers' = {} /\ tasks' = {}
      BY <1>1, <1>3, <1>10 DEF NothingYet
    <2>3. \A j \in jobs' : j.for = "heartbeat"
      BY <1>4, <1>10 DEF NothingYet
    <2>4. cache' = [x \in Servers |-> None]
      <3>1. cache = [x \in Servers |-> None]
        BY <1>10 DEF NothingYet
      <3> QED BY <1>1, <3>1
    <2>5. replies' = {}
      <3>1. ASSUME NEW r \in replies' PROVE FALSE
        <4>1. r \in replies \/ \E j \in jobs : j.for = "client"
          BY CrashJobs
        <4> QED BY <1>10, <4>1 DEF NothingYet
      <3> QED BY <3>1
    <2> QED BY <1>10, <2>1, <2>2, <2>3, <2>4, <2>5 DEF NothingYet
  <1> QED BY <1>3, <1>5, <1>6, <1>7, <1>8, <1>9, <1>10, ServerKeeps

-----------------------------------------------------------------------------
(* The master.                                                             *)

HarmlessCmd(s, d) == d.type \in {"replicate", "reconstruct", "cold"} /\ Harmless(s, d.type, d.target, d.idx)

\* Commands that may be added: none before the block is allocated.
NewCmdsOK(new) ==
    /\ \A s \in Servers : \A d \in new[s] : HarmlessCmd(s, d)
    /\ file.locs = <<>> => new = NoCmds

LEMMA CommandsAfter ==
    ASSUME StoreInv, ListKept, \A s \in Servers : \A d \in cmds'[s] : d \in cmds[s] \/ HarmlessCmd(s, d)
    PROVE  CommandsOK'
  <1>1. Listed' = Listed
    BY SameList
  <1> QED BY <1>1 DEF StoreInv, CommandsOK, HarmlessCmd, Harmless

\* The healer sends copies and rebuilt shards to servers that are not listed.
LEMMA HealHarmless ==
    ASSUME StoreInv, NEW servers \in SUBSET Servers, NEW badOn, NEW new \in HealCmds(servers, badOn)
    PROVE  NewCmdsOK(new)
  <1>1. CASE new = NoCmds
    BY <1>1 DEF NoCmds, NewCmdsOK
  <1>2. CASE new # NoCmds
    <2>1. file.locs # <<>> /\ servers # {}
      BY <1>2 DEF HealCmds
    <2>2. file.locs = client.locs /\ file.ec = client.ec
      BY <2>1 DEF StoreInv, FileOK
    <2>3. SpareServers(servers) \subseteq Servers \ Listed
      BY <2>2 DEF SpareServers, Listed
    <2>4. CASE file.ec
      <3>1. new \in ReconstructCmds(servers)
        BY <1>2, <2>4 DEF HealCmds
      <3>2. PICK t, missing, sources :
              /\ t \in SpareServers(servers) /\ missing \subseteq DOMAIN file.locs
              /\ new = [NoCmds EXCEPT ![t] = {Cmd("reconstruct", t, i, sources) : i \in missing}]
        <4> DEFINE gone == {i \in DOMAIN file.locs : file.locs[i] \notin servers}
                   from == [i \in DOMAIN file.locs |-> IF i \in gone THEN Nobody ELSE file.locs[i]]
        <4>1. new \in {NoCmds} \cup {[NoCmds EXCEPT ![t] = {Cmd("reconstruct", t, i, from) : i \in gone}] :
                                     t \in SpareServers(servers)}
          BY <3>1 DEF ReconstructCmds
        <4>2. gone \subseteq DOMAIN file.locs
          OBVIOUS
        <4> HIDE DEF gone, from
        <4> QED BY <1>2, <4>1, <4>2
      <3>3. DOMAIN file.locs \subseteq DOMAIN Shards
        <4>1. client.locs \in Seq(Servers) /\ Len(client.locs) <= DataShards + ParityShards
          BY <2>2, <2>4 DEF StoreInv, TypeOK, FileOK, Client
        <4>2. DOMAIN client.locs = 1 .. Len(client.locs) /\ Len(client.locs) \in Nat
          BY <4>1
        <4>3. DOMAIN file.locs = 1 .. Len(client.locs)
          BY <2>2, <4>2
        <4> QED BY <4>1, <4>2, <4>3, PolicyAssumption
      <3>4. ASSUME NEW s \in Servers, NEW d \in new[s] PROVE HarmlessCmd(s, d)
        <4>1. s = t
          BY <3>2, <3>4 DEF NoCmds
        <4>2. new[t] = {Cmd("reconstruct", t, i, sources) : i \in missing}
          BY <2>3, <3>2 DEF NoCmds
        <4>3. PICK i \in missing : d = Cmd("reconstruct", t, i, sources)
          BY <3>4, <4>1, <4>2
        <4>4. d.type = "reconstruct" /\ d.idx = i /\ d.target = t
          BY <4>3 DEF Cmd
        <4> QED BY <2>3, <3>2, <3>3, <4>1, <4>4 DEF HarmlessCmd, Harmless
      <3> QED BY <2>1, <3>4 DEF NewCmdsOK
    <2>5. CASE ~file.ec
      <3>1. new \in ReplicateCmds(servers, badOn)
        BY <1>2, <2>5 DEF HealCmds
      <3>2. PICK l, ts :
              /\ ts \subseteq SpareServers(servers)
              /\ new = [NoCmds EXCEPT ![l] = {Cmd("replicate", t, 0, <<>>) : t \in ts}]
        BY <1>2, <3>1, Zenon DEF ReplicateCmds
      <3>3. ASSUME NEW s \in Servers, NEW d \in new[s] PROVE HarmlessCmd(s, d)
        <4>1. d \in {Cmd("replicate", t, 0, <<>>) : t \in ts}
          BY <3>2, <3>3 DEF NoCmds
        <4>2. PICK t \in ts : d = Cmd("replicate", t, 0, <<>>)
          BY <4>1
        <4>3. d.type = "replicate" /\ d.target = t
          BY <4>2 DEF Cmd
        <4> QED BY <2>3, <3>2, <4>3 DEF HarmlessCmd, Harmless
      <3> QED BY <2>1, <3>3 DEF NewCmdsOK
    <2> QED BY <2>4, <2>5
  <1> QED BY <1>1, <1>2

LEMMA MasterKeeps ==
    ASSUME StoreInv, UNCHANGED <<csVars, client>>, MTypeOK', CommandsOK', FileOK',
           NothingYet => file'.locs = <<>> /\ cmds' = NoCmds
    PROVE  StoreInv'
  <1>1. ListKept
    BY DEF ListKept
  <1>2. UNCHANGED <<up, ownAddr, disk, cache, known, badq, jobs, replies, tasks, call, answers>>
    BY DEF csVars
  <1>3. TasksOK' /\ JobsOK' /\ CopiesOK' /\ FramesOK' /\ AnswersOK' /\ ReaderOK'
    BY <1>1, <1>2, Untouched
  <1>4. TypeOK'
    BY <1>2 DEF StoreInv, TypeOK, CSTypeOK
  <1>5. NothingYet => NothingYet'
    BY <1>2 DEF NothingYet
  <1> QED BY <1>3, <1>4, <1>5 DEF StoreInv

LEMMA MasterFacts ==
    ASSUME StoreInv
    PROVE  /\ MTypeOK /\ FileOK /\ CommandsOK /\ (NothingYet => file.locs = <<>> /\ cmds = NoCmds)
           /\ reg \subseteq Servers /\ late \subseteq Servers /\ bad \subseteq Servers /\ DOMAIN cmds = Servers
  BY DEF StoreInv, TypeOK, MTypeOK, NothingYet

\* Commands that wait may be dropped; the healer adds harmless ones.
LEMMA AddedCommands ==
    ASSUME StoreInv, ListKept, NEW new, NewCmdsOK(new),
           NEW waiting, \A s \in Servers : waiting[s] \subseteq cmds[s],
           \A s \in Servers : cmds'[s] \subseteq Add(waiting, new)[s],
           DOMAIN cmds' = Servers, cmds' = [s \in Servers |-> cmds'[s]]
    PROVE  CommandsOK' /\ (NothingYet => cmds' = NoCmds)
  <1>1. \A s \in Servers : cmds'[s] \subseteq cmds[s] \cup new[s]
    BY DEF Add
  <1>2. CommandsOK'
    BY <1>1, CommandsAfter DEF NewCmdsOK
  <1>3. ASSUME NothingYet PROVE cmds' = NoCmds
    <2>1. cmds = NoCmds /\ file.locs = <<>>
      BY <1>3, MasterFacts
    <2>2. new = NoCmds
      BY <2>1 DEF NewCmdsOK
    <2>3. \A s \in Servers : cmds'[s] = {}
      BY <1>1, <2>1, <2>2 DEF NoCmds
    <2> QED BY <2>3 DEF NoCmds
  <1> QED BY <1>2, <1>3

LEMMA HealStep ==
    ASSUME StoreInv, LivenessCheck \/ PeriodicHeal, UNCHANGED <<csVars, client>>
    PROVE  StoreInv'
  <1>1. ListKept /\ UNCHANGED <<file, bad, safe, tVars>> /\ reg' \subseteq reg /\ late' \subseteq reg'
    BY MasterFacts DEF ListKept, LivenessCheck, PeriodicHeal, MTypeOK
  <1>2. PICK servers, new, waiting :
          /\ servers \in SUBSET Servers /\ new \in HealCmds(servers, bad)
          /\ \A s \in Servers : waiting[s] \subseteq cmds[s]
          /\ cmds' = Add(waiting, new)
    <2>1. CASE PeriodicHeal
      BY <2>1, MasterFacts DEF PeriodicHeal
    <2>2. CASE LivenessCheck
      <3>1. PICK new \in HealCmds(reg \ late, bad) :
              cmds' = Add([s \in Servers |-> IF s \in late THEN {} ELSE cmds[s]], new)
        BY <2>2 DEF LivenessCheck
      <3>2. \A s \in Servers : [x \in Servers |-> IF x \in late THEN {} ELSE cmds[x]][s] \subseteq cmds[s]
        OBVIOUS
      <3>3. reg \ late \in SUBSET Servers
        BY MasterFacts
      <3> QED BY <3>1, <3>2, <3>3
    <2> QED BY <2>1, <2>2
  <1>3. DOMAIN cmds' = Servers /\ cmds' = [s \in Servers |-> cmds'[s]]
    BY <1>2 DEF Add
  <1>4. CommandsOK' /\ (NothingYet => cmds' = NoCmds)
    <2>1. \A s \in Servers : cmds'[s] \subseteq Add(waiting, new)[s]
      BY <1>2
    <2>2. NewCmdsOK(new)
      BY <1>2, HealHarmless
    <2> QED BY <1>1, <1>2, <1>3, <2>1, <2>2, AddedCommands
  <1>5. MTypeOK'
    BY <1>1, <1>3, MasterFacts DEF MTypeOK
  <1> QED BY <1>1, <1>4, <1>5, MasterFacts, MasterKeeps, Untouched

FileType == [exists : BOOLEAN, ec : BOOLEAN, locs : Seq(Servers), accessed : BOOLEAN, cold : BOOLEAN,
             shuffle : BOOLEAN]

\* The file changes, its list does not, or is dropped.
LEMMA FileStep ==
    ASSUME StoreInv, UNCHANGED <<csVars, client>>, UNCHANGED <<reg, late, bad, safe, tVars>>,
           file' \in FileType, file'.locs # <<>> => file'.locs = file.locs /\ file'.ec = file.ec,
           DOMAIN cmds' = Servers, CommandsOK', NothingYet => cmds' = NoCmds
    PROVE  StoreInv'
  <1>1. MTypeOK'
    BY MasterFacts DEF MTypeOK, FileType
  <1>2. FileOK'
    BY MasterFacts DEF FileOK
  <1> QED BY <1>1, <1>2, MasterFacts, MasterKeeps

LEMMA TieringStep ==
    ASSUME StoreInv, ScanTiering, UNCHANGED <<csVars, client>>
    PROVE  StoreInv'
  <1>1. /\ UNCHANGED <<reg, late, bad, safe, tVars>> /\ file' = [file EXCEPT !.cold = TRUE]
        /\ cmds' = [s \in Servers |-> IF s \in ToSet(file.locs)
                                      THEN cmds[s] \cup {Cmd("cold", s, 0, <<>>)} ELSE cmds[s]]
    BY DEF ScanTiering
  <1>2. ListKept
    BY DEF ListKept
  <1>3. file' \in FileType /\ file'.locs = file.locs /\ file'.ec = file.ec
    BY <1>1, MasterFacts DEF MTypeOK, FileType
  <1>4. CommandsOK'
    <2>1. \A s \in Servers : HarmlessCmd(s, Cmd("cold", s, 0, <<>>))
      BY DEF HarmlessCmd, Harmless, Cmd
    <2> QED BY <1>1, <1>2, <2>1, CommandsAfter
  <1>5. NothingYet => cmds' = NoCmds
    BY <1>1, MasterFacts DEF NoCmds, ToSet
  <1> QED BY <1>1, <1>3, <1>4, <1>5, FileStep

SafeType == [on : BOOLEAN, manual : BOOLEAN, expected : Nat, reported : Nat]

\* A step that touches neither the file nor any command.
LEMMA LocalStep ==
    ASSUME StoreInv, UNCHANGED <<csVars, client>>, UNCHANGED <<file, reg, cmds, bad>>,
           late' \subseteq reg, safe' \in SafeType, {rterm', mterm', oterm'} \subseteq Nat
    PROVE  StoreInv'
  <1>1. ListKept
    BY DEF ListKept
  <1>2. MTypeOK'
    BY MasterFacts DEF MTypeOK, SafeType
  <1> QED BY <1>1, <1>2, MasterFacts, Untouched, MasterKeeps

LEMMA TermStep ==
    ASSUME StoreInv, NewTerm \/ UpdateTerm \/ ElectionElsewhere, UNCHANGED <<csVars, client>>
    PROVE  StoreInv'
  <1>1. {rterm', mterm', oterm'} \subseteq Nat /\ UNCHANGED <<file, reg, late, cmds, bad, safe>>
    BY MasterFacts DEF NewTerm, UpdateTerm, ElectionElsewhere, MTypeOK
  <1> QED BY <1>1, MasterFacts, LocalStep DEF MTypeOK, SafeType

LEMMA SafeModeStep ==
    ASSUME StoreInv, NEW enter \in BOOLEAN, SetSafeMode(enter), UNCHANGED <<csVars, client>>
    PROVE  StoreInv'
  <1>1. UNCHANGED <<file, reg, late, cmds, bad, tVars>>
    BY DEF SetSafeMode
  <1>2. safe \in SafeType /\ late \subseteq reg /\ {rterm, mterm, oterm} \subseteq Nat
    BY MasterFacts DEF MTypeOK, SafeType
  <1>3. safe' \in SafeType
    <2>1. BlockCount \in Nat
      BY DEF BlockCount
    <2>2. \/ safe' = EnterSafeMode(BlockCount, TRUE) \/ safe' = ExitSafeMode(safe)
          \/ safe' = [safe EXCEPT !.manual = FALSE]
      BY DEF SetSafeMode
    <2>3. EnterSafeMode(BlockCount, TRUE) \in SafeType
      BY <2>1 DEF EnterSafeMode, SafeType
    <2>4. ExitSafeMode(safe) \in SafeType /\ [safe EXCEPT !.manual = FALSE] \in SafeType
      BY <1>2 DEF ExitSafeMode, SafeType
    <2> QED BY <2>2, <2>3, <2>4
  <1> QED BY <1>1, <1>2, <1>3, LocalStep

LEMMA SilenceStep ==
    ASSUME StoreInv, NEW s \in Servers, Silence(s), UNCHANGED <<csVars, client>>
    PROVE  StoreInv'
  <1>1. late' \subseteq reg /\ UNCHANGED <<file, reg, cmds, bad, safe, tVars>>
    BY MasterFacts DEF Silence, MTypeOK
  <1> QED BY <1>1, MasterFacts, LocalStep DEF MTypeOK, SafeType

\* A server that registers brings no commands.
LEMMA RegisterStep ==
    ASSUME StoreInv, NEW s \in Servers, RegisterChunkServer(s), UNCHANGED <<csVars, client>>
    PROVE  StoreInv'
  <1>1. /\ reg' = reg \cup {s} /\ late' = late \ {s} /\ UNCHANGED <<file, cmds, bad, safe, tVars>>
    BY DEF RegisterChunkServer
  <1>2. ListKept
    BY DEF ListKept
  <1>3. MTypeOK'
    BY <1>1, MasterFacts DEF MTypeOK
  <1> QED BY <1>1, <1>2, <1>3, MasterFacts, Untouched, MasterKeeps

LEMMA ForgetStep ==
    ASSUME StoreInv, NEW snapshot \in BOOLEAN, ForgetLocalState(snapshot), UNCHANGED <<csVars, client>>
    PROVE  StoreInv'
  <1>1. /\ UNCHANGED file /\ reg' = {} /\ late' = {} /\ cmds' = NoCmds /\ bad' = {}
        /\ safe' = [EnterSafeMode(0, FALSE) EXCEPT !.on = ~snapshot]
    BY DEF ForgetLocalState
  <1>6. {rterm', mterm', oterm'} \subseteq Nat
    BY MasterFacts DEF ForgetLocalState, MTypeOK
  <1>2. ListKept
    BY DEF ListKept
  <1>3. safe' \in SafeType
    BY <1>1 DEF EnterSafeMode, SafeType
  <1>4. MTypeOK'
    BY <1>1, <1>3, <1>6, MasterFacts DEF MTypeOK, SafeType, NoCmds
  <1>5. CommandsOK'
    BY <1>1, <1>2, CommandsAfter DEF NoCmds
  <1> QED BY <1>1, <1>2, <1>4, <1>5, MasterFacts, Untouched, MasterKeeps

\* Balancer and shuffler copy to servers that are not listed.
LEMMA CopyStep ==
    ASSUME StoreInv, UNCHANGED <<csVars, client>>, UNCHANGED <<file, reg, late, bad, safe, tVars>>,
           NEW full, NEW empty \in Servers, Movable(full, empty), CopyTo(full, empty)
    PROVE  StoreInv'
  <1>1. ListKept
    BY DEF ListKept
  <1>2. file.locs # <<>> /\ empty \notin Listed
    BY MasterFacts DEF Movable, FileOK, Listed, ToSet
  <1>3. HarmlessCmd(full, Cmd("replicate", empty, 0, <<>>))
    BY <1>2 DEF HarmlessCmd, Harmless, Cmd
  <1>4. /\ DOMAIN cmds' = Servers
        /\ \A s \in Servers : \A d \in cmds'[s] : d \in cmds[s] \/ (s = full /\ d = Cmd("replicate", empty, 0, <<>>))
    BY MasterFacts DEF CopyTo
  <1>5. CommandsOK'
    BY <1>1, <1>3, <1>4, CommandsAfter
  <1>6. MTypeOK'
    BY <1>4, MasterFacts DEF MTypeOK
  <1> QED BY <1>1, <1>2, <1>5, <1>6, MasterFacts, Untouched, MasterKeeps

LEMMA ShuffleFileStep ==
    ASSUME StoreInv, UNCHANGED <<csVars, client>>, UNCHANGED <<reg, late, cmds, bad, safe, tVars>>,
           \E b \in BOOLEAN : file' = [file EXCEPT !.shuffle = b]
    PROVE  StoreInv'
  <1>1. ListKept
    BY DEF ListKept
  <1>2. file' \in FileType /\ file'.locs = file.locs /\ file'.ec = file.ec
    BY MasterFacts DEF MTypeOK, FileType
  <1>3. CommandsOK' /\ DOMAIN cmds' = Servers /\ (NothingYet => cmds' = NoCmds)
    BY <1>1, MasterFacts, Untouched
  <1> QED BY <1>2, <1>3, FileStep

LEMMA MasterSteps ==
    ASSUME StoreInv, MasterStep, UNCHANGED <<csVars, client>>
    PROVE  StoreInv'
  <1>1. CASE LivenessCheck \/ PeriodicHeal
    BY <1>1, HealStep
  <1>2. CASE ScanTiering
    BY <1>2, TieringStep
  <1>3. CASE NewTerm \/ UpdateTerm \/ ElectionElsewhere
    BY <1>3, TermStep
  <1>4. CASE \E snapshot \in BOOLEAN : ForgetLocalState(snapshot)
    BY <1>4, ForgetStep
  <1>5. CASE \E enter \in BOOLEAN : SetSafeMode(enter)
    BY <1>5, SafeModeStep
  <1>6. CASE InitiateShuffle
    BY <1>6, ShuffleFileStep DEF InitiateShuffle
  <1>7. CASE \E full, empty \in Servers : Balance(full, empty)
    BY <1>7, CopyStep DEF Balance
  <1>8. CASE \E full, empty \in Servers : Shuffle(full, empty)
    <2>1. PICK full \in Servers, empty \in Servers : Shuffle(full, empty)
      BY <1>8
    <2>2. CASE Movable(full, empty)
      BY <2>1, <2>2, CopyStep DEF Shuffle
    <2>3. CASE ~Movable(full, empty)
      BY <2>1, <2>3, ShuffleFileStep DEF Shuffle
    <2> QED BY <2>2, <2>3
  <1>9. CASE \E s \in Servers : RegisterChunkServer(s)
    BY <1>9, RegisterStep
  <1> QED BY <1>1, <1>2, <1>3, <1>4, <1>5, <1>6, <1>7, <1>8, <1>9 DEF MasterStep, Running

-----------------------------------------------------------------------------
(* Heartbeats.                                                             *)

LEMMA EntriesNat == ASSUME NEW s PROVE Entries(s) \in Nat
  <1> DEFINE D == {d \in {"hot", "hotMeta"} : disk[s][d] # None}
  <1>1. IsFiniteSet({"hot", "hotMeta"}) /\ D \subseteq {"hot", "hotMeta"}
    <2>1. IsFiniteSet({"hot"}) /\ {"hot", "hotMeta"} = {"hot"} \cup {"hotMeta"}
      BY FS_Singleton
    <2>2. IsFiniteSet({"hot"} \cup {"hotMeta"})
      BY <2>1, FS_AddElement
    <2> QED BY <2>1, <2>2
  <1>2. IsFiniteSet(D)
    <2> HIDE DEF D
    <2> QED BY <1>1, FS_Subset
  <1> HIDE DEF D
  <1>3. Cardinality(D) \in Nat
    BY <1>2, FS_CardinalityType
  <1> QED BY <1>3 DEF Entries, D

\* What the master does for a heartbeat.
LEMMA HeartbeatOK ==
    ASSUME StoreInv, ListKept, NEW s \in Servers, NEW count \in Nat, NEW timeUp, NEW reports,
           NEW new \in HealAfter(s, reports), Heartbeat(s, count, timeUp, reports, new)
    PROVE  /\ MTypeOK' /\ CommandsOK' /\ FileOK' /\ UNCHANGED file
           /\ NothingYet => cmds' = NoCmds /\ Add(cmds, new)[s] = {}
           /\ \A c \in Add(cmds, new)[s] : HarmlessCmd(s, c)
  <1>1. NewCmdsOK(new)
    <2>1. CASE new = NoCmds
      BY <2>1 DEF NewCmdsOK, NoCmds
    <2>2. CASE new \in HealCmds(reg \cup {s}, bad \cup {s})
      <3>1. reg \cup {s} \in SUBSET Servers
        BY MasterFacts
      <3> QED BY <2>2, <3>1, HealHarmless
    <2> QED BY <2>1, <2>2 DEF HealAfter
  <1>2. /\ reg' = reg \cup {s} /\ late' = late \ {s} /\ UNCHANGED <<file, tVars>>
        /\ bad' \subseteq bad \cup {s} /\ cmds' = [Add(cmds, new) EXCEPT ![s] = {}]
    BY DEF Heartbeat
  <1>3. /\ DOMAIN cmds' = Servers /\ cmds' = [x \in Servers |-> cmds'[x]]
        /\ \A x \in Servers : cmds'[x] \subseteq Add(cmds, new)[x]
    BY <1>2 DEF Add
  <1>4. CommandsOK' /\ (NothingYet => cmds' = NoCmds)
    <2>1. \A x \in Servers : cmds[x] \subseteq cmds[x]
      OBVIOUS
    <2> QED BY <1>1, <1>3, <2>1, AddedCommands
  <1>5. safe' \in SafeType
    <2> DEFINE counted == IF safe.on /\ s \notin reg THEN [safe EXCEPT !.reported = @ + count] ELSE safe
    <2>1. safe \in SafeType
      BY MasterFacts DEF MTypeOK, SafeType
    <2>2. counted \in SafeType
      <3>1. safe.reported + count \in Nat
        BY <2>1 DEF SafeType
      <3>2. \A n \in Nat : [safe EXCEPT !.reported = n] \in SafeType
        BY <2>1 DEF SafeType
      <3> QED BY <2>1, <3>1, <3>2
    <2>3. safe' = ExitSafeMode(counted) \/ safe' = counted
      BY DEF Heartbeat
    <2> HIDE DEF counted
    <2>4. ExitSafeMode(counted) \in SafeType
      BY <2>2 DEF ExitSafeMode, SafeType
    <2> QED BY <2>2, <2>3, <2>4
  <1>6. MTypeOK'
    BY <1>2, <1>3, <1>5, MasterFacts DEF MTypeOK, SafeType
  <1>7. FileOK'
    BY <1>2, Untouched
  <1>8. Add(cmds, new)[s] = cmds[s] \cup new[s]
    BY DEF Add
  <1>9. \A c \in Add(cmds, new)[s] : HarmlessCmd(s, c)
    BY <1>1, <1>8, MasterFacts DEF NewCmdsOK, CommandsOK, HarmlessCmd
  <1>10. ASSUME NothingYet PROVE Add(cmds, new)[s] = {}
    <2>1. cmds = NoCmds /\ file.locs = <<>>
      BY <1>10, MasterFacts
    <2>2. new = NoCmds
      BY <1>1, <2>1 DEF NewCmdsOK
    <2> QED BY <1>8, <2>1, <2>2 DEF NoCmds
  <1> QED BY <1>2, <1>4, <1>6, <1>7, <1>9, <1>10

\* What a heartbeat may change of the servers.
LEMMA BeatKeeps ==
    ASSUME StoreInv, UNCHANGED client, UNCHANGED <<up, ownAddr, disk, cache, known, replies, call, answers>>,
           badq' \subseteq badq, MTypeOK', CommandsOK', FileOK', UNCHANGED file, JobsOK', TasksOK',
           NothingYet => cmds' = NoCmds /\ tasks' = {} /\ \A j \in jobs' : j.for = "heartbeat"
    PROVE  StoreInv'
  <1>1. ListKept
    BY DEF ListKept
  <1>2. CopiesOK' /\ FramesOK' /\ AnswersOK' /\ ReaderOK'
    BY <1>1, Untouched
  <1>3. TypeOK'
    BY DEF StoreInv, TypeOK, CSTypeOK, JobsOK, JobOK
  <1>4. NothingYet => NothingYet'
    BY DEF NothingYet
  <1> QED BY <1>2, <1>3, <1>4 DEF StoreInv

LEMMA BeatStep ==
    ASSUME StoreInv, NEW s \in Servers, Beat(s)
    PROVE  StoreInv'
  <1>1. /\ UNCHANGED <<up, ownAddr, disk, cache, known, replies, call, answers, client>>
        /\ badq' \subseteq badq
        /\ jobs' \subseteq jobs \cup {NewJob(<<s>>, "store", mterm, None, "heartbeat")}
    BY DEF Beat, TakeTerm
  <1>2. ListKept
    BY <1>1 DEF ListKept
  <1>3. PICK timeUp, new :
          /\ new \in HealAfter(s, s \in badq)
          /\ Heartbeat(s, Entries(s), timeUp, s \in badq, new)
          /\ tasks' = tasks \cup {[at |-> s, type |-> c.type, target |-> c.target, idx |-> c.idx,
                                   sources |-> c.sources] : c \in Add(cmds, new)[s]}
    BY Zenon DEF Beat
  <1>4. /\ MTypeOK' /\ CommandsOK' /\ FileOK' /\ UNCHANGED file
        /\ NothingYet => cmds' = NoCmds /\ Add(cmds, new)[s] = {}
        /\ \A c \in Add(cmds, new)[s] : HarmlessCmd(s, c)
    BY <1>2, <1>3, EntriesNat, HeartbeatOK
  <1>5. JobOK(NewJob(<<s>>, "store", mterm, None, "heartbeat"))
    BY MasterFacts, NewJobOK DEF MTypeOK, OnDisk
  <1>6. JobsOK'
    BY <1>1, <1>2, <1>5, CallFacts, JobsAfter
  <1>7. TasksOK'
    <2>1. Listed' = Listed
      BY <1>2, SameList
    <2>2. ASSUME NEW t \in tasks', t \notin tasks
          PROVE  /\ t.at \in Servers /\ t.type \in {"replicate", "reconstruct", "cold", "coldMeta"}
                 /\ Harmless(t.at, t.type, t.target, t.idx)
      <3>1. PICK c \in Add(cmds, new)[s] :
              t = [at |-> s, type |-> c.type, target |-> c.target, idx |-> c.idx, sources |-> c.sources]
        BY <1>3, <2>2
      <3>2. t.at = s /\ t.type = c.type /\ t.target = c.target /\ t.idx = c.idx
        BY <3>1
      <3>3. HarmlessCmd(s, c)
        BY <1>4
      <3> QED BY <3>2, <3>3 DEF HarmlessCmd
    <2> QED BY <2>1, <2>2 DEF StoreInv, TasksOK, Harmless
  <1>8. ASSUME NothingYet PROVE cmds' = NoCmds /\ tasks' = {} /\ \A j \in jobs' : j.for = "heartbeat"
    <2>1. tasks = {} /\ \A j \in jobs : j.for = "heartbeat"
      BY <1>8 DEF NothingYet
    <2>2. NewJob(<<s>>, "store", mterm, None, "heartbeat").for = "heartbeat"
      BY DEF NewJob
    <2> QED BY <1>1, <1>3, <1>4, <1>8, <2>1, <2>2
  <1> QED BY <1>1, <1>4, <1>6, <1>7, <1>8, BeatKeeps

\* The term of another master.
LEMMA BeatElsewhereStep ==
    ASSUME StoreInv, NEW s \in Servers, NEW t \in 1 .. rterm \cup {oterm}, BeatElsewhere(s, t)
    PROVE  StoreInv'
  <1>1. /\ UNCHANGED <<up, ownAddr, disk, cache, known, badq, replies, tasks, call, answers, mVars, client>>
        /\ jobs' \subseteq jobs \cup {NewJob(<<s>>, "store", t, None, "heartbeat")}
    BY DEF BeatElsewhere, TakeTerm
  <1>2. ListKept /\ UNCHANGED <<file, reg, late, cmds, bad, safe, tVars>>
    BY <1>1 DEF ListKept, mVars
  <1>3. MTypeOK' /\ CommandsOK' /\ FileOK' /\ TasksOK'
    BY <1>1, <1>2, MasterFacts, Untouched DEF MTypeOK
  <1>4. t \in Nat
    BY MasterFacts DEF MTypeOK
  <1>5. JobOK(NewJob(<<s>>, "store", t, None, "heartbeat"))
    BY <1>4, NewJobOK DEF OnDisk
  <1>6. JobsOK'
    BY <1>1, <1>2, <1>5, CallFacts, JobsAfter
  <1>7. ASSUME NothingYet PROVE cmds' = NoCmds /\ tasks' = {} /\ \A j \in jobs' : j.for = "heartbeat"
    <2>1. tasks = {} /\ cmds = NoCmds /\ \A j \in jobs : j.for = "heartbeat"
      BY <1>7 DEF NothingYet
    <2>2. NewJob(<<s>>, "store", t, None, "heartbeat").for = "heartbeat"
      BY DEF NewJob
    <2> QED BY <1>1, <1>2, <2>1, <2>2
  <1> QED BY <1>1, <1>2, <1>3, <1>6, <1>7, BeatKeeps

LEMMA BeatLostStep ==
    ASSUME StoreInv, NEW s \in Servers, BeatLost(s)
    PROVE  StoreInv'
  <1>1. /\ UNCHANGED <<up, ownAddr, disk, cache, known, jobs, replies, tasks, call, answers, client>>
        /\ badq' \subseteq badq
    BY DEF BeatLost
  <1>2. ListKept
    BY <1>1 DEF ListKept
  <1>3. JobsOK' /\ TasksOK'
    BY <1>1, <1>2, Untouched
  <1>4. NothingYet => tasks' = {} /\ \A j \in jobs' : j.for = "heartbeat"
    BY <1>1 DEF NothingYet
  <1>5. CASE UNCHANGED mVars
    <2>1. UNCHANGED <<file, reg, late, cmds, bad, safe, tVars>>
      BY <1>5 DEF mVars
    <2>2. MTypeOK' /\ CommandsOK' /\ FileOK'
      BY <1>2, <2>1, MasterFacts, Untouched DEF MTypeOK
    <2> QED BY <1>1, <1>3, <1>4, <2>1, <2>2, MasterFacts, BeatKeeps
  <1>6. CASE ~UNCHANGED mVars
    <2>1. PICK timeUp, new :
            /\ new \in HealAfter(s, s \in badq)
            /\ Heartbeat(s, Entries(s), timeUp, s \in badq, new)
      BY <1>6, Zenon DEF BeatLost
    <2>2. /\ MTypeOK' /\ CommandsOK' /\ FileOK' /\ UNCHANGED file
          /\ NothingYet => cmds' = NoCmds
      BY <1>2, <2>1, EntriesNat, HeartbeatOK
    <2> QED BY <1>1, <1>3, <1>4, <2>2, BeatKeeps
  <1> QED BY <1>5, <1>6

-----------------------------------------------------------------------------
(* The client.                                                             *)

LEMMA ClientKeeps ==
    ASSUME StoreInv, ListKept, UNCHANGED <<mVars, up, ownAddr, disk, cache, known, badq, tasks>>,
           client' \in Client, client'.pc \notin {"create", "allocate"}, ReaderOK',
           CallOK', FramesOK', JobsOK', AnswersOK', AnswersType'
    PROVE  StoreInv'
  <1>1. UNCHANGED <<file, reg, late, cmds, bad, safe, tVars>>
    BY DEF mVars
  <1>2. CommandsOK' /\ FileOK' /\ TasksOK' /\ CopiesOK'
    BY <1>1, Untouched
  <1>3. TypeOK'
    BY <1>1 DEF StoreInv, TypeOK, CSTypeOK, MTypeOK, CallOK, AnswersType, JobsOK, JobOK
  <1> QED BY <1>2, <1>3 DEF StoreInv

\* A step of the client alone.
LEMMA ClientAlone ==
    ASSUME StoreInv, ListKept, UNCHANGED <<mVars, up, ownAddr, disk, cache, known, badq, tasks>>,
           UNCHANGED <<call, jobs>>, answers' \subseteq answers,
           client' \in Client, client'.pc \notin {"create", "allocate"}, ReaderOK'
    PROVE  StoreInv'
  <1>1. CallOK' /\ FramesOK' /\ JobsOK' /\ AnswersOK' /\ AnswersType'
    BY CallFacts, Untouched, SameList DEF CallOK, AnswersOK, AnswersType
  <1> QED BY <1>1, ClientKeeps

LEMMA ClientFacts ==
    ASSUME StoreInv
    PROVE  /\ client \in Client /\ ReaderOK
           /\ client.locs \in Seq(Servers) /\ client.order \in Seq(Servers) /\ client.ec \in BOOLEAN
           /\ client.pc \in {"create", "allocate"} => NothingYet
           /\ IsInjective(client.locs) /\ (client.ec => Len(client.locs) <= DataShards + ParityShards)
  BY DEF StoreInv, TypeOK, Client, FileOK

LEMMA CreateStep ==
    ASSUME StoreInv, ClientCreate
    PROVE  StoreInv'
  <1> DEFINE ec == (budget.ec = 1)
  <1>1. ec \in BOOLEAN
    OBVIOUS
  <1>2. /\ file' = [NoFile EXCEPT !.exists = TRUE, !.ec = ec, !.shuffle = file.shuffle]
        /\ UNCHANGED <<reg, late, cmds, bad, safe, tVars>>
        /\ UNCHANGED <<up, ownAddr, disk, cache, known, badq, jobs, replies, tasks, call, answers>>
        /\ client' = [client EXCEPT !.pc = "allocate"]
    BY Zenon DEF ClientCreate, CreateFile, ClientGoto, csVars
  <1> HIDE DEF ec
  <1>3. NothingYet /\ client \in Client
    BY ClientFacts DEF ClientCreate, ClientAt
  <1>4. /\ client' \in Client /\ ListKept /\ client'.read = client.read /\ client'.order = client.order
        /\ client'.copies = client.copies
    BY <1>2, <1>3 DEF Client, ListKept
  <1>5. file' \in FileType /\ file'.locs = <<>>
    <2>1. file.shuffle \in BOOLEAN
      BY MasterFacts DEF MTypeOK
    <2>2. ASSUME NEW b \in BOOLEAN, NEW c \in BOOLEAN
          PROVE  /\ [NoFile EXCEPT !.exists = TRUE, !.ec = b, !.shuffle = c] \in FileType
                 /\ [NoFile EXCEPT !.exists = TRUE, !.ec = b, !.shuffle = c].locs = <<>>
      <3>1. NoFile \in FileType /\ NoFile.locs = <<>>
        BY DEF FileType, NoFile
      <3>2. \A f \in FileType : /\ [f EXCEPT !.exists = TRUE, !.ec = b, !.shuffle = c] \in FileType
                                /\ [f EXCEPT !.exists = TRUE, !.ec = b, !.shuffle = c].locs = f.locs
        BY DEF FileType
      <3> QED BY <3>1, <3>2
    <2> QED BY <1>1, <1>2, <2>1, <2>2
  <1>6. NothingYet'
    BY <1>2, <1>3, <1>4, <1>5 DEF NothingYet, ListKept
  <1>7. CommandsOK' /\ TasksOK' /\ JobsOK' /\ CopiesOK' /\ FramesOK' /\ AnswersOK'
    BY <1>2, <1>4, Untouched
  <1>8. FileOK' /\ ReaderOK'
    <2>1. FileOK'
      BY <1>4, <1>5, MasterFacts DEF FileOK, ListKept
    <2>2. Listed' = Listed
      BY <1>4, SameList
    <2> QED BY <1>4, <2>1, <2>2, ClientFacts DEF ReaderOK
  <1>9. TypeOK'
    BY <1>2, <1>4, <1>5 DEF StoreInv, TypeOK, CSTypeOK, MTypeOK, FileType
  <1> QED BY <1>6, <1>7, <1>8, <1>9 DEF StoreInv

LEMMA AllocateStep ==
    ASSUME StoreInv, ClientAllocate
    PROVE  StoreInv' /\ client'.pc = "write" /\ client'.copies = 0 /\ client'.locs # <<>>
           /\ replies' = {} /\ \A j \in jobs' : j.for = "heartbeat"
  <1> DEFINE n == IF file.ec \/ Cardinality(reg) >= ReplicationFactor THEN Width(file.ec) ELSE Cardinality(reg)
  <1>1. NothingYet /\ client \in Client
    BY ClientFacts DEF ClientAllocate, ClientAt
  <1>2. PICK q \in SelectServersRackAware(reg, n) : file' = [file EXCEPT !.locs = q]
    BY DEF ClientAllocate, AllocateBlock
  <1>3. n > 0 /\ UNCHANGED <<reg, late, cmds, bad, safe, tVars>>
    BY DEF ClientAllocate, AllocateBlock
  <1>4. /\ UNCHANGED <<up, ownAddr, disk, cache, known, badq, jobs, replies, tasks, call, answers>>
        /\ client' = [client EXCEPT !.pc = "write", !.ec = file.ec, !.locs = file'.locs, !.term = mterm]
    BY DEF ClientAllocate, csVars
  <1>5. n \in Nat /\ (file.ec => n = DataShards + ParityShards)
    <2>1. IsFiniteSet(reg)
      BY MasterFacts, ServersAssumption, FS_Subset
    <2>2. Cardinality(reg) \in Nat
      BY <2>1, FS_CardinalityType
    <2> QED BY <2>2, PolicyAssumption DEF Width
  <1> HIDE DEF n
  <1>6. q \in Seq(reg) /\ Len(q) = n /\ IsInjective(q)
    BY <1>2, <1>5, SelectOK
  <1>7. q \in Seq(Servers) /\ q # <<>>
    BY <1>3, <1>5, <1>6, MasterFacts
  <1>8. file \in FileType /\ mterm \in Nat
    BY MasterFacts DEF MTypeOK, FileType
  <1>9. file' \in FileType /\ file'.locs = q /\ file'.ec = file.ec
    BY <1>2, <1>7, <1>8 DEF FileType
  <1>10. /\ client' \in Client /\ client'.locs = q /\ client'.ec = file.ec /\ client'.pc = "write"
         /\ client'.read = client.read /\ client'.order = client.order /\ client'.copies = client.copies
    BY <1>1, <1>4, <1>7, <1>8, <1>9 DEF Client, FileType
  <1>11. FileOK' /\ ReaderOK'
    <2>1. client.order = <<>> /\ client.read = "no"
      BY <1>1 DEF NothingYet
    <2>2. FileOK'
      BY <1>5, <1>6, <1>9, <1>10 DEF FileOK
    <2>3. ReaderOK'
      BY <1>10, <2>1 DEF ReaderOK, ToSet
    <2> QED BY <2>2, <2>3
  <1>12. /\ cmds' = NoCmds /\ tasks' = {} /\ call' = <<>> /\ answers' = {} /\ replies' = {}
         /\ \A j \in jobs' : j \in jobs /\ j.for = "heartbeat"
    BY <1>1, <1>3, <1>4 DEF NothingYet
  <1>13. CommandsOK' /\ TasksOK' /\ FramesOK' /\ AnswersOK'
    BY <1>12 DEF CommandsOK, TasksOK, FramesOK, AnswersOK, NoCmds
  <1>14. JobsOK'
    BY <1>12, CallFacts DEF JobsOK, JobOK
  <1>15. TypeOK'
    BY <1>3, <1>4, <1>9, <1>10 DEF StoreInv, TypeOK, CSTypeOK, MTypeOK, FileType
  <1>16. CopiesOK'
    <2>1. Listed' \subseteq Servers
      BY <1>7, <1>10 DEF Listed, ToSet
    <2>2. \A s \in Servers : disk'[s].hotMeta = None /\ disk'[s].coldMeta = None /\ cache'[s] = None
      BY <1>1, <1>4, StoredLater
    <2> QED BY <2>1, <2>2 DEF CopiesOK
  <1>17. StoreInv'
    BY <1>10, <1>11, <1>13, <1>14, <1>15, <1>16 DEF StoreInv
  <1> QED BY <1>1, <1>7, <1>10, <1>12, <1>17 DEF NothingYet

Chains == IF client.ec THEN {<<s>> : s \in Listed} ELSE {client.locs}

\* A chain the client writes to: its servers get the same content.
LEMMA ChainOK ==
    ASSUME StoreInv, client.locs # <<>>, NEW c \in Chains
    PROVE  /\ c \in Seq(Servers) /\ 1 \in DOMAIN c /\ c[1] \in Listed /\ Len(c) \in Nat
           /\ \A k \in DOMAIN c : c[k] \in Listed /\ Written(c[k]) = Written(c[1])
           /\ client.ec => Len(c) = 1
           /\ ~client.ec => c = client.locs
  <1>1. Listed \subseteq Servers /\ client.locs \in Seq(Servers)
    BY CallFacts, ClientFacts
  <1>2. CASE client.ec
    <2>1. PICK s \in Listed : c = <<s>>
      BY <1>2 DEF Chains
    <2>2. DOMAIN <<s>> = {1} /\ <<s>>[1] = s /\ Len(<<s>>) = 1
      OBVIOUS
    <2>3. c \in Seq(Servers)
      BY <1>1, <2>1
    <2> QED BY <1>2, <2>1, <2>2, <2>3
  <1>3. CASE ~client.ec
    <2>1. c = client.locs
      BY <1>3 DEF Chains
    <2>2. DOMAIN c = 1 .. Len(c) /\ 1 \in DOMAIN c /\ Len(c) \in Nat
      BY <1>1, <2>1
    <2>3. \A k \in DOMAIN c : c[k] \in Listed
      BY <2>1 DEF Listed, ToSet
    <2>4. \A s : Written(s) = Whole
      BY <1>3 DEF Written, Sum
    <2> QED BY <1>1, <1>3, <2>1, <2>2, <2>3, <2>4
  <1> QED BY <1>2, <1>3

WriteOf(c) == NewJob(c, "load", client.term, Written(c[1]), "client")

LEMMA ClientWrites ==
    ASSUME ClientWrite
    PROVE  LET reached == {c \in Chains : c[1] \in up}
           IN  /\ jobs' = jobs \cup {WriteOf(c) : c \in reached}
               /\ client' = [client EXCEPT !.pc = IF reached = Chains THEN "wait" ELSE "failed",
                                           !.left = Cardinality(Chains)]
               /\ client.pc = "write"
               /\ UNCHANGED <<up, ownAddr, disk, cache, known, badq, replies, tasks, call, answers, mVars>>
  BY Zenon DEF ClientWrite, Chains, WriteOf, ClientAt, Listed

LEMMA ChainsFinite ==
    ASSUME StoreInv
    PROVE  IsFiniteSet(Chains) /\ Cardinality(Chains) \in Nat /\ (~client.ec => Cardinality(Chains) = 1)
           /\ (client.ec => Cardinality(Chains) = Cardinality(Listed)) /\ IsFiniteSet(Listed)
  <1>1. IsFiniteSet(Listed)
    BY CallFacts, ServersAssumption, FS_Subset
  <1>2. CASE ~client.ec
    <2>1. Chains = {client.locs}
      BY <1>2 DEF Chains
    <2>2. IsFiniteSet({client.locs}) /\ Cardinality({client.locs}) = 1
      BY FS_Singleton
    <2> QED BY <1>1, <1>2, <2>1, <2>2
  <1>3. CASE client.ec
    <2> DEFINE f == [s \in Listed |-> <<s>>]
               C == {<<s>> : s \in Listed}
    <2>1. f \in Injection(Listed, C)
      BY DEF Injection, IsInjective
    <2>2. f \in Surjection(Listed, C)
      BY DEF Surjection
    <2>3. ExistsBijection(Listed, C)
      BY <2>1, <2>2 DEF ExistsBijection, Bijection
    <2>4. Chains = C
      BY <1>3 DEF Chains
    <2> HIDE DEF C
    <2>5. IsFiniteSet(C) /\ Cardinality(C) = Cardinality(Listed)
      BY <1>1, <2>3, FS_Bijection
    <2> QED BY <1>1, <1>3, <2>4, <2>5, FS_CardinalityType
  <1> QED BY <1>2, <1>3

LEMMA WriteOfOK ==
    ASSUME StoreInv, client.locs # <<>>, NEW c \in Chains
    PROVE  /\ JobOK(WriteOf(c)) /\ WriteOf(c).chain = c /\ WriteOf(c).i = 1 /\ WriteOf(c).for = "client"
  <1> DEFINE h == WriteOf(c)
  <1>1. /\ c \in Seq(Servers) /\ 1 \in DOMAIN c /\ c[1] \in Listed
        /\ \A k \in DOMAIN c : c[k] \in Listed /\ Written(c[k]) = Written(c[1])
    BY ChainOK
  <1>2. Written(c[1]) \in OnDisk /\ Written(c[1]) \in Contents
    BY <1>1, ClientFacts, WrittenIsContent DEF OnDisk
  <1>3. client.term \in Nat
    BY ClientFacts DEF Client
  <1>4. h.chain = c /\ h.i = 1 /\ h.for = "client" /\ h.data = Written(c[1]) /\ h.pc = "load"
    BY DEF WriteOf, NewJob
  <1>5. h \in Job
    BY <1>1, <1>2, <1>3 DEF WriteOf, NewJob, Job
  <1> HIDE DEF h
  <1>6. JobOK(h)
    BY <1>1, <1>2, <1>4, <1>5 DEF JobOK
  <1> QED BY <1>4, <1>6 DEF h

LEMMA PipelineStep ==
    ASSUME StoreInv, ClientWrite, client.locs # <<>>
    PROVE  StoreInv'
  <1> DEFINE reached == {c \in Chains : c[1] \in up}
             pc == IF reached = Chains THEN "wait" ELSE "failed"
  <1>1. /\ jobs' = jobs \cup {WriteOf(c) : c \in reached}
        /\ client' = [client EXCEPT !.pc = pc, !.left = Cardinality(Chains)]
        /\ UNCHANGED <<up, ownAddr, disk, cache, known, badq, replies, tasks, call, answers, mVars>>
    BY ClientWrites
  <1>2. pc \in {"wait", "failed"} /\ reached \subseteq Chains
    OBVIOUS
  <1> HIDE DEF pc, reached
  <1>3. Cardinality(Chains) \in Nat /\ client \in Client
    BY ChainsFinite, ClientFacts
  <1>4. /\ client' \in Client /\ ListKept /\ client'.pc = pc
        /\ client'.read = client.read /\ client'.order = client.order
    BY <1>1, <1>2, <1>3 DEF Client, ListKept
  <1>5. JobsOK'
    <2>1. \A h \in jobs' : h \in jobs \/ JobOK(h)
      BY <1>1, <1>2, WriteOfOK
    <2> QED BY <1>4, <2>1, CallFacts, JobsAfter
  <1>6. CallOK' /\ FramesOK' /\ AnswersOK' /\ AnswersType'
    BY <1>1, <1>4, CallFacts, Untouched DEF CallOK, AnswersType
  <1>7. ReaderOK'
    BY <1>4, ClientFacts, SameList DEF ReaderOK
  <1> QED BY <1>1, <1>2, <1>4, <1>5, <1>6, <1>7, ClientKeeps

LEMMA ReplyStep ==
    ASSUME StoreInv, NEW r \in replies, ClientReply(r), r.n \in Nat, client.left > 0
    PROVE  StoreInv'
  <1> DEFINE pc == IF r.n = 0 THEN "failed" ELSE IF client.left = 1 THEN "complete" ELSE client.pc
  <1>1. /\ client' = [client EXCEPT !.pc = pc, !.left = client.left - 1, !.copies = client.copies + r.n]
        /\ UNCHANGED <<up, ownAddr, disk, cache, known, badq, jobs, tasks, call, answers, mVars>>
    BY DEF ClientReply
  <1>2. client \in Client /\ client.left - 1 \in Nat /\ client.copies + r.n \in Nat
    BY ClientFacts DEF Client
  <1>3. pc \in {"failed", "complete", "wait"}
    BY DEF ClientReply, ClientAt
  <1> HIDE DEF pc
  <1>4. \A x, y \in Nat :
          LET d == [client EXCEPT !.pc = pc, !.left = x, !.copies = y]
          IN  /\ d \in Client /\ d.pc = pc /\ d.locs = client.locs /\ d.ec = client.ec
              /\ d.read = client.read /\ d.order = client.order
    BY <1>2, <1>3 DEF Client
  <1>5. /\ client' \in Client /\ client'.pc = pc /\ ListKept
        /\ client'.read = client.read /\ client'.order = client.order
    BY <1>1, <1>2, <1>4 DEF ListKept
  <1>6. ReaderOK'
    BY <1>5, ClientFacts, SameList DEF ReaderOK
  <1> QED BY <1>1, <1>3, <1>5, <1>6, ClientAlone

LEMMA CompleteStep ==
    ASSUME StoreInv, ClientComplete
    PROVE  StoreInv'
  <1>1. client' = [client EXCEPT !.pc = "done"]
    BY DEF ClientComplete, ClientGoto
  <1>2. UNCHANGED <<up, ownAddr, disk, cache, known, badq, jobs, tasks, call, answers, mVars>>
    BY DEF ClientComplete, csVars
  <1>3. /\ client' \in Client /\ client'.pc = "done" /\ ListKept
        /\ client'.read = client.read /\ client'.order = client.order
    BY <1>1, ClientFacts DEF Client, ListKept
  <1>4. ReaderOK'
    BY <1>3, ClientFacts, SameList DEF ReaderOK
  <1> QED BY <1>2, <1>3, <1>4, ClientAlone

\* The second location may be asked first.
LEMMA SwappedOK ==
    ASSUME NEW S, NEW q \in Seq(S), Len(q) > 1
    PROVE  Swapped(q) \in Seq(S)
  <1>1. q[1] \in S /\ q[2] \in S /\ Len(q) \in Int /\ 3 \in Int /\ \A k \in 3 .. Len(q) : q[k] \in S
    OBVIOUS
  <1>2. SubSeq(q, 3, Len(q)) \in Seq(S)
    BY <1>1, SubSeqProperties
  <1>3. <<q[2], q[1]>> \in Seq(S)
    BY <1>1
  <1> QED BY <1>2, <1>3, ConcatProperties DEF Swapped

\* The client's record after a step of the reader.
LEMMA ReaderStepOK ==
    ASSUME StoreInv, ~NothingYet, NEW read \in {"no", "ask", "wait", "ok", "failed"}, NEW order \in Seq(Listed),
           NEW got \in Nat, read = "wait" => order # <<>>,
           client' = [client EXCEPT !.read = read, !.order = order, !.got = got]
    PROVE  /\ client' \in Client /\ ListKept /\ ReaderOK' /\ client'.pc \notin {"create", "allocate"}
  <1>1. order \in Seq(Servers) /\ ToSet(order) \subseteq Listed
    BY CallFacts DEF ToSet
  <1>2. /\ client' \in Client /\ client'.locs = client.locs /\ client'.ec = client.ec
        /\ client'.read = read /\ client'.order = order /\ client'.pc = client.pc
    BY <1>1, ClientFacts DEF Client
  <1>3. ListKept
    BY <1>2 DEF ListKept
  <1>4. ReaderOK'
    BY <1>1, <1>2, <1>3, SameList DEF ReaderOK
  <1> QED BY <1>2, <1>3, <1>4, ClientFacts

LEMMA ReadFileStep ==
    ASSUME StoreInv, ReadFile
    PROVE  StoreInv'
  <1>1. UNCHANGED <<up, ownAddr, disk, cache, known, badq, jobs, tasks, call, answers, mVars>>
    BY DEF ReadFile, csVars
  <1>2. PICK q \in {BlockLocations} \cup IF Len(BlockLocations) > 1 /\ ~file.ec
                                         THEN {Swapped(BlockLocations)} ELSE {} :
           client' = [client EXCEPT !.read = "ask", !.order = q]
    BY DEF ReadFile
  <1>3. BlockLocations \in Seq(Listed)
    BY LocationsListed DEF ToSet
  <1>4. q \in Seq(Listed)
    BY <1>2, <1>3, SwappedOK
  <1>5. ~NothingYet
    BY DEF NothingYet, ReadFile, BlockLocations
  <1>6. client.got \in Nat /\ client' = [client EXCEPT !.read = "ask", !.order = q, !.got = client.got]
    BY <1>2, ClientFacts DEF Client
  <1>7. /\ client' \in Client /\ ListKept /\ ReaderOK' /\ client'.pc \notin {"create", "allocate"}
    BY <1>4, <1>5, <1>6, ReaderStepOK
  <1> QED BY <1>1, <1>7, ClientAlone

LEMMA ReaderFacts ==
    ASSUME StoreInv
    PROVE  /\ client.order \in Seq(Listed) /\ client.got \in Nat
           /\ client.read # "no" => ~NothingYet
  BY ClientFacts DEF Client, ReaderOK, ToSet, NothingYet

LEMMA AskStep ==
    ASSUME StoreInv, AskLocation
    PROVE  StoreInv'
  <1>1. /\ client.read = "ask" /\ client.order # <<>> /\ UNCHANGED mVars
    BY DEF AskLocation
  <1>2. ~NothingYet /\ client.order \in Seq(Listed) /\ client.got \in Nat
    BY <1>1, ReaderFacts
  <1>3. Head(client.order) \in Listed /\ Tail(client.order) \in Seq(Listed)
    BY <1>1, <1>2
  <1>4. CASE StartRead(Head(client.order)) /\ client' = [client EXCEPT !.read = "wait"]
    <2>1. /\ call' = <<NewFrame(Head(client.order), "read", "open")>>
          /\ UNCHANGED <<up, ownAddr, disk, cache, known, badq, jobs, tasks, answers>>
      BY <1>4 DEF StartRead
    <2>2. client' = [client EXCEPT !.read = "wait", !.order = client.order, !.got = client.got]
      BY <1>4, ClientFacts DEF Client
    <2>3. /\ client' \in Client /\ ListKept /\ ReaderOK' /\ client'.pc \notin {"create", "allocate"}
      BY <1>1, <1>2, <2>2, ReaderStepOK
    <2>4. FrameOK(NewFrame(Head(client.order), "read", "open"))
      BY <1>3, CallFacts, NewFrameOK
    <2>5. CallOK' /\ FramesOK'
      BY <2>1, <2>3, <2>4, OneFrameOK
    <2>6. JobsOK' /\ AnswersOK' /\ AnswersType'
      BY <2>1, <2>3, CallFacts, Untouched DEF AnswersType
    <2> QED BY <1>1, <2>1, <2>3, <2>5, <2>6, ClientKeeps
  <1>5. CASE client' = [client EXCEPT !.order = Tail(client.order)] /\ UNCHANGED csVars
    <2>1. UNCHANGED <<up, ownAddr, disk, cache, known, badq, jobs, tasks, call, answers>>
      BY <1>5 DEF csVars
    <2>2. client' = [client EXCEPT !.read = "ask", !.order = Tail(client.order), !.got = client.got]
      BY <1>1, <1>5, ClientFacts DEF Client
    <2>3. /\ client' \in Client /\ ListKept /\ ReaderOK' /\ client'.pc \notin {"create", "allocate"}
      BY <1>2, <1>3, <2>2, ReaderStepOK
    <2> QED BY <1>1, <2>1, <2>3, ClientAlone
  <1> QED BY <1>4, <1>5 DEF AskLocation

LEMMA TakeStep ==
    ASSUME StoreInv, NEW a \in answers, TakeAnswer(a)
    PROVE  StoreInv'
  <1>1. /\ client.read = "wait" /\ answers' \subseteq answers
        /\ UNCHANGED <<up, ownAddr, disk, cache, known, badq, jobs, tasks, call, mVars>>
    BY DEF TakeAnswer
  <1>2. ~NothingYet /\ client.order \in Seq(Listed) /\ client.got \in Nat /\ client.order # <<>>
    BY <1>1, ReaderFacts, ClientFacts DEF ReaderOK
  <1>3. Tail(client.order) \in Seq(Listed)
    BY <1>2
  <1> DEFINE read == IF a[2] # Err /\ ~client.ec THEN "ok" ELSE "ask"
             got == IF a[2] = Err THEN client.got ELSE client.got + 1
  <1>4. client' = [client EXCEPT !.order = Tail(client.order), !.got = got, !.read = read]
    BY DEF TakeAnswer
  <1>5. got \in Nat /\ read \in {"no", "ask", "wait", "ok", "failed"} /\ read # "wait"
    BY <1>2
  <1> HIDE DEF read, got
  <1>6. client' = [client EXCEPT !.read = read, !.order = Tail(client.order), !.got = got]
    BY <1>4, ClientFacts DEF Client
  <1>7. /\ client' \in Client /\ ListKept /\ ReaderOK' /\ client'.pc \notin {"create", "allocate"}
    BY <1>2, <1>3, <1>5, <1>6, ReaderStepOK
  <1> QED BY <1>1, <1>7, ClientAlone

LEMMA EndReadStep ==
    ASSUME StoreInv, EndRead
    PROVE  StoreInv'
  <1>1. /\ client.read = "ask"
        /\ UNCHANGED <<up, ownAddr, disk, cache, known, badq, jobs, tasks, call, answers, mVars>>
    BY DEF EndRead, csVars
  <1>2. ~NothingYet /\ client.order \in Seq(Listed) /\ client.got \in Nat
    BY <1>1, ReaderFacts
  <1>3. PICK read \in {"no", "ask", "wait", "ok", "failed"} :
          read # "wait" /\ client' = [client EXCEPT !.read = read]
    BY DEF EndRead
  <1> DEFINE order == client.order
             got == client.got
  <1>4. client' = [client EXCEPT !.read = read, !.order = order, !.got = got]
    BY <1>3, ClientFacts DEF Client
  <1>5. order \in Seq(Listed) /\ got \in Nat /\ ~NothingYet /\ read # "wait"
    BY <1>2, <1>3
  <1> HIDE DEF order, got
  <1>6. /\ client' \in Client /\ ListKept /\ ReaderOK' /\ client'.pc \notin {"create", "allocate"}
    BY <1>4, <1>5, ReaderStepOK
  <1> QED BY <1>1, <1>6, ClientAlone

LEMMA NamespaceStep ==
    ASSUME StoreInv, Lookup \/ Delete
    PROVE  StoreInv'
  <1>1. /\ UNCHANGED <<csVars, client>> /\ UNCHANGED <<reg, late, cmds, bad, safe, tVars>>
        /\ \/ file' = [file EXCEPT !.accessed = TRUE]
           \/ file' = [NoFile EXCEPT !.shuffle = file.shuffle]
    BY DEF Lookup, Delete, GetFileInfo, DeleteFile
  <1>2. ListKept
    BY <1>1 DEF ListKept
  <1>3. file \in FileType /\ NoFile \in FileType /\ NoFile.locs = <<>>
    BY MasterFacts DEF FileType, MTypeOK, NoFile
  <1>4. file' \in FileType /\ (file'.locs # <<>> => file'.locs = file.locs /\ file'.ec = file.ec)
    <2>1. \A b \in BOOLEAN, f \in FileType : [f EXCEPT !.shuffle = b] \in FileType
                                             /\ [f EXCEPT !.shuffle = b].locs = f.locs
      BY DEF FileType
    <2>2. file.shuffle \in BOOLEAN
      BY <1>3 DEF FileType
    <2>3. CASE file' = [file EXCEPT !.accessed = TRUE]
      BY <1>3, <2>3 DEF FileType
    <2>4. CASE file' = [NoFile EXCEPT !.shuffle = file.shuffle]
      BY <1>3, <2>1, <2>2, <2>4
    <2> QED BY <1>1, <2>3, <2>4
  <1>5. CommandsOK' /\ DOMAIN cmds' = Servers /\ (NothingYet => cmds' = NoCmds)
    BY <1>1, <1>2, MasterFacts, Untouched
  <1> QED BY <1>1, <1>4, <1>5, FileStep

-----------------------------------------------------------------------------
(* Every step.                                                             *)

LEMMA StoreStutter ==
    ASSUME StoreInv, UNCHANGED vars
    PROVE  StoreInv'
  <1>1. /\ UNCHANGED <<up, ownAddr, disk, cache, known, badq, jobs, replies, tasks, call, answers>>
        /\ UNCHANGED <<mVars, client>>
    BY DEF vars, csVars
  <1>2. UNCHANGED <<file, cmds>> /\ ListKept
    BY <1>1 DEF mVars, ListKept
  <1>3. CSTypeOK'
    BY <1>1 DEF StoreInv, TypeOK, CSTypeOK
  <1>4. NothingYet => NothingYet'
    BY <1>1, <1>2 DEF NothingYet
  <1> QED BY <1>1, <1>2, <1>3, <1>4, Untouched, ServerKeeps

LEMMA StoreJobs ==
    ASSUME StoreInv, UNCHANGED <<mVars, client>>, NEW j \in jobs, JobStep(j) \/ WriteFails(j)
    PROVE  StoreInv'
  BY LoadStep, StoreStep, WriteStep, WriteFailsStep DEF JobStep

LEMMA StoreTasks ==
    ASSUME StoreInv, UNCHANGED <<mVars, client>>, NEW t \in tasks, TaskStep(t)
    PROVE  StoreInv'
  BY SpawnStep, MoveBlockStep, MoveMetaStep DEF TaskStep

LEMMA StoreCalls ==
    ASSUME StoreInv, UNCHANGED <<mVars, client>>, CallStep
    PROVE  StoreInv'
  BY OpenStep, ReadStep, CheckStep, LookupStep, TryPeerStep, RereadStep DEF CallStep

\* What the client waits for, and what it is answered, makes sense.
ClientOK ==
    /\ client.pc = "write" => client.locs # <<>>
    /\ client.pc = "wait" => client.left > 0
    /\ \A r \in replies : r.n \in Nat

LEMMA StoreNext ==
    ASSUME StoreInv, ClientOK, [Next]_vars
    PROVE  StoreInv'
  <1>1. CASE ClientStep
    <2>1. CASE ClientWrite
      <3>1. client.locs # <<>>
        BY <2>1 DEF ClientOK, ClientWrite, ClientAt
      <3> QED BY <2>1, <3>1, PipelineStep
    <2>2. CASE \E r \in replies : ClientReply(r)
      <3>1. PICK r \in replies : ClientReply(r)
        BY <2>2
      <3>2. r.n \in Nat /\ client.left > 0
        BY <3>1 DEF ClientOK, ClientReply, ClientAt
      <3> QED BY <3>1, <3>2, ReplyStep
    <2> QED BY <1>1, <2>1, <2>2, CreateStep, AllocateStep, CompleteStep DEF ClientStep
  <1>2. CASE ReadFile \/ ReaderStep \/ Lookup \/ Delete
    BY <1>2, ReadFileStep, AskStep, EndReadStep, TakeStep, NamespaceStep DEF ReaderStep
  <1>3. ASSUME NEW s \in Servers, ReadRange(s) \/ Beat(s) \/ BeatLost(s) \/ Quiet(s)
        PROVE  StoreInv'
    <2>1. CASE ReadRange(s)
      BY <2>1, RecoverStep DEF ReadRange
    <2>2. CASE Quiet(s)
      BY <2>2, SilenceStep DEF Quiet
    <2> QED BY <1>3, <2>1, <2>2, BeatStep, BeatLostStep
  <1>8. CASE \E s \in Servers, t \in 1 .. rterm \cup {oterm} : BeatElsewhere(s, t)
    BY <1>8, BeatElsewhereStep
  <1>4. CASE ServerStep /\ UNCHANGED <<mVars, client>>
    <2>1. CASE CallStep
      BY <1>4, <2>1, StoreCalls
    <2>2. CASE \E s \in Servers : HandlerStep(s) \/ Evict(s)
      BY <1>4, <2>2, StoreJobs, StoreTasks, EvictStep DEF HandlerStep
    <2> QED BY <1>4, <2>1, <2>2 DEF ServerStep
  <1>5. CASE ServerFault /\ UNCHANGED <<mVars, client>>
    <2>1. CASE \E j \in jobs : WriteFails(j)
      BY <1>5, <2>1, StoreJobs
    <2>2. CASE \E s \in Servers : Rot(s) \/ Crash(s) \/ Restart(s) \/ Scrub(s)
      BY <1>5, <2>2, RotStep, CrashStep, RestartStep, RecoverStep
    <2> QED BY <1>5, <2>1, <2>2 DEF ServerFault
  <1>6. CASE MasterStep /\ UNCHANGED <<csVars, client>>
    BY <1>6, MasterSteps
  <1>7. CASE UNCHANGED vars
    BY <1>7, StoreStutter
  <1> QED BY <1>1, <1>2, <1>3, <1>4, <1>5, <1>6, <1>7, <1>8 DEF Next

-----------------------------------------------------------------------------
(* Acknowledged writes: what was written stays.                            *)

\* A listed server that has the checksums of what the client wrote keeps them,
\* but for a recovery that empties the file to write them again.
HeldStays == \A s \in Listed : Holds(s) => Holds(s)'

\* What a step may do to the checksums of a listed server: nothing, empty the
\* file, write it or write it again, or move it to the cold directory.
MetaStep(s) ==
    \/ disk'[s].hotMeta = disk[s].hotMeta /\ disk'[s].coldMeta = disk[s].coldMeta
    \/ disk'[s].hotMeta \in {Written(s), Emptied}
    \/ MetaOf(s) \in {None, Torn}
    \/ MetaPath(s) = "coldMeta" /\ disk'[s].hotMeta = disk[s].hotMeta /\ disk'[s].coldMeta = Written(s)
    \/ s \in ColdDir /\ disk[s].hotMeta # None /\ disk'[s].hotMeta = None /\ disk'[s].coldMeta = disk[s].hotMeta

LEMMA MetaStepHolds ==
    ASSUME StoreInv, ListKept, \A s \in Listed : MetaStep(s)
    PROVE  HeldStays
  <1> SUFFICES ASSUME NEW s \in Listed, Holds(s) PROVE Holds(s)'
    BY DEF HeldStays
  <1>1. Written(s)' = Written(s) /\ Written(s) \notin {None, Torn, Emptied}
    BY SameList, ClientFacts, WrittenIsContent
  <1>2. MetaOf(s) \in {Written(s), Emptied} /\ MetaOf(s) \notin {None, Torn}
    BY <1>1 DEF Holds
  <1>3. MetaOf(s)' \in {Written(s), Emptied}
    BY <1>1, <1>2 DEF MetaStep, MetaOf, MetaPath
  <1> QED BY <1>1, <1>3 DEF Holds

LEMMA SameDiskHolds ==
    ASSUME StoreInv, ListKept, UNCHANGED disk
    PROVE  HeldStays
  BY MetaStepHolds DEF MetaStep

\* The same client, for all that its writes are concerned.
SameWriter ==
    /\ ListKept /\ client'.pc = client.pc /\ client'.left = client.left /\ client'.copies = client.copies

LEMMA WroteStays ==
    ASSUME StoreInv, ListKept, HeldStays, NEW from, NEW n, Wrote(from, n)
    PROVE  Wrote(from, n)'
  <1>1. Listed' = Listed
    BY SameList
  <1>2. n \in Nat /\ (~client.ec => \A k \in 1 .. n : k \in DOMAIN client.locs)
    <2>1. Len(client.locs) \in Nat /\ DOMAIN client.locs = 1 .. Len(client.locs)
      BY ClientFacts
    <2> QED BY <2>1 DEF Wrote
  <1>3. ~client.ec => \A k \in 1 .. n : client.locs[k] \in Listed
    BY <1>2 DEF Listed, ToSet
  <1>4. from \in Listed /\ (client.ec => n <= 1 /\ (n = 1 => Holds(from)'))
    BY DEF Wrote, HeldStays
  <1>5. ASSUME ~client.ec, NEW k \in 1 .. n PROVE Holds(client.locs[k])'
    <2>1. PICK s : s = client.locs[k]
      OBVIOUS
    <2>2. Holds(s)'
      BY <1>3, <1>5, <2>1 DEF Wrote, HeldStays
    <2>3. s = client'.locs[k]
      BY <2>1 DEF ListKept
    <2> QED BY <2>2, <2>3 DEF Holds, MetaOf, MetaPath, Written
  <1>6. ~client.ec => n <= Len(client.locs)
    BY DEF Wrote
  <1> QED BY <1>1, <1>2, <1>4, <1>5, <1>6 DEF Wrote, ListKept

Held == {s \in Listed : Holds(s)}

LEMMA HeldFinite ==
    ASSUME StoreInv
    PROVE  IsFiniteSet(Held) /\ Cardinality(Held) \in Nat /\ HeldCount = Cardinality(Held)
  <1>1. IsFiniteSet(Listed) /\ Held \subseteq Listed
    BY ChainsFinite DEF Held
  <1>2. IsFiniteSet(Held)
    BY <1>1, FS_Subset
  <1> QED BY <1>2, FS_CardinalityType DEF HeldCount, Held

HeldOK == IsFiniteSet(Held) /\ Cardinality(Held) \in Nat /\ HeldCount = Cardinality(Held)

LEMMA HeldFacts == StoreInv => HeldOK
  BY HeldFinite DEF HeldOK

LEMMA HeldFactsNext == StoreInv' => HeldOK'
  BY HeldFacts, PTL

LEMMA HeldGrows ==
    ASSUME StoreInv, StoreInv', ListKept, HeldStays
    PROVE  Held \subseteq Held' /\ HeldCount <= HeldCount'
  <1>1. Held \subseteq Held'
    BY SameList DEF Held, HeldStays
  <1>2. /\ IsFiniteSet(Held) /\ HeldCount = Cardinality(Held)
        /\ IsFiniteSet(Held') /\ HeldCount' = Cardinality(Held')
    BY HeldFacts, HeldFactsNext DEF HeldOK
  <1>3. Cardinality(Held) <= Cardinality(Held')
    BY <1>1, <1>2, FS_Subset
  <1> QED BY <1>1, <1>2, <1>3

\* A step of a server: nothing new is waited for.
LEMMA AckAfter ==
    ASSUME AckInv, StoreInv', SameWriter, HeldStays, WritesOK', OncePerServer', Pending' \subseteq Pending
    PROVE  AckInv'
  <1>1. Held \subseteq Held' /\ HeldCount <= HeldCount' /\ ListKept
    BY HeldGrows DEF AckInv, SameWriter
  <1>2. HeldCount \in Nat /\ HeldCount' \in Nat /\ client.copies \in Nat
    BY HeldFacts, HeldFactsNext, ClientFacts DEF HeldOK, AckInv, Client
  <1>3. client'.pc \in {"complete", "done"} => HeldCount' >= client'.copies
    <2>1. client'.pc \in {"complete", "done"} => HeldCount >= client'.copies /\ client'.copies \in Nat
      BY <1>2 DEF AckInv, CountOK, SameWriter
    <2> QED BY <1>1, <1>2, <2>1
  <1>4. client'.pc = "write" => client'.copies = 0 /\ Pending' = {} /\ client'.locs # <<>>
    BY DEF AckInv, CountOK, SameWriter, ListKept
  <1>5. client'.pc = "wait" => client'.left > 0 /\ (~client'.ec => client'.left = 1 /\ client'.copies = 0)
    BY DEF AckInv, CountOK, SameWriter, ListKept
  <1>6. ASSUME client'.pc = "wait", client'.ec
        PROVE  \E C \in SUBSET Held' : Cardinality(C) = client'.copies /\ C \cap Pending' = {}
    <2>1. PICK C \in SUBSET Held : Cardinality(C) = client.copies /\ C \cap Pending = {}
      BY <1>6 DEF AckInv, CountOK, SameWriter, ListKept, Held
    <2> QED BY <1>1, <2>1 DEF SameWriter
  <1>7. CountOK'
    BY <1>3, <1>4, <1>5, <1>6 DEF CountOK, Held
  <1> QED BY <1>7 DEF AckInv

\* No write of the client is touched.
WritesKept == ClientJobs' = ClientJobs /\ UNCHANGED replies

LEMMA AckKept ==
    ASSUME AckInv, StoreInv', SameWriter, HeldStays, WritesKept
    PROVE  AckInv'
  <1>1. ListKept /\ StoreInv
    BY DEF SameWriter, AckInv
  <1>2. OncePerServer' /\ Pending' = Pending
    BY DEF AckInv, OncePerServer, WritesKept, Pending
  <1>3. WritesOK'
    <2>1. \A from, n : Wrote(from, n) => Wrote(from, n)'
      BY <1>1, WroteStays
    <2>2. \A r \in replies' : Wrote(r.from, r.n)'
      BY <2>1 DEF AckInv, WritesOK, WritesKept
    <2>3. \A j \in ClientJobs' : Wrote(j.chain[1], j.i - 1)'
      BY <2>1 DEF AckInv, WritesOK, WritesKept
    <2>4. \A j \in ClientJobs' : IF client'.ec THEN Len(j.chain) = 1 ELSE j.chain = client'.locs
      BY <1>1 DEF AckInv, WritesOK, WritesKept, ListKept
    <2> QED BY <2>2, <2>3, <2>4 DEF WritesOK
  <1> QED BY <1>2, <1>3, AckAfter

\* A handler of the client goes on.
LEMMA AckAdvance ==
    ASSUME AckInv, StoreInv', SameWriter, HeldStays, NEW j \in ClientJobs, NEW h,
           ClientJobs' = (ClientJobs \ {j}) \cup {h}, UNCHANGED replies,
           h.chain = j.chain, Wrote(h.chain[1], h.i - 1)'
    PROVE  AckInv'
  <1>1. ListKept /\ StoreInv
    BY DEF SameWriter, AckInv
  <1>2. \A g \in ClientJobs' : g = h \/ (g \in ClientJobs /\ g # j)
    OBVIOUS
  <1>3. OncePerServer'
    BY <1>2 DEF AckInv, OncePerServer
  <1>4. Pending' \subseteq Pending
    BY <1>2 DEF Pending
  <1>5. WritesOK'
    <2>1. \A from, n : Wrote(from, n) => Wrote(from, n)'
      BY <1>1, WroteStays
    <2>2. \A r \in replies' : Wrote(r.from, r.n)'
      BY <2>1 DEF AckInv, WritesOK
    <2>3. \A g \in ClientJobs' : Wrote(g.chain[1], g.i - 1)'
      BY <1>2, <2>1 DEF AckInv, WritesOK
    <2>4. \A g \in ClientJobs' : IF client'.ec THEN Len(g.chain) = 1 ELSE g.chain = client'.locs
      BY <1>1, <1>2 DEF AckInv, WritesOK, ListKept
    <2> QED BY <2>2, <2>3, <2>4 DEF WritesOK
  <1> QED BY <1>3, <1>4, <1>5, AckAfter

\* Handlers of the client end, and are answered for.
LEMMA AckAnswers ==
    ASSUME AckInv, StoreInv', SameWriter, HeldStays, ClientJobs' \subseteq ClientJobs,
           \A r \in replies' : r \in replies \/
               /\ Wrote(r.from, r.n)'
               /\ \E j \in ClientJobs : j \notin ClientJobs' /\ r.from = j.chain[1],
           \A r, q \in replies' : r \notin replies /\ q \notin replies /\ r.from = q.from => r = q
    PROVE  AckInv'
  <1>1. ListKept /\ StoreInv
    BY DEF SameWriter, AckInv
  <1>2. OncePerServer'
    <2>1. \A r \in replies', j \in ClientJobs' : r.from # j.chain[1]
      BY DEF AckInv, OncePerServer
    <2>2. \A r, q \in replies' : r.from = q.from => r = q
      BY DEF AckInv, OncePerServer
    <2>3. \A j, h \in ClientJobs' : j.chain[1] = h.chain[1] => j = h
      BY DEF AckInv, OncePerServer
    <2> QED BY <2>1, <2>2, <2>3 DEF OncePerServer
  <1>3. Pending' \subseteq Pending
    BY DEF Pending
  <1>4. WritesOK'
    <2>1. \A from, n : Wrote(from, n) => Wrote(from, n)'
      BY <1>1, WroteStays
    <2>2. \A r \in replies' : Wrote(r.from, r.n)'
      BY <2>1 DEF AckInv, WritesOK
    <2>3. \A j \in ClientJobs' : Wrote(j.chain[1], j.i - 1)'
      BY <2>1 DEF AckInv, WritesOK
    <2>4. \A j \in ClientJobs' : IF client'.ec THEN Len(j.chain) = 1 ELSE j.chain = client'.locs
      BY <1>1 DEF AckInv, WritesOK, ListKept
    <2> QED BY <2>2, <2>3, <2>4 DEF WritesOK
  <1> QED BY <1>2, <1>3, <1>4, AckAfter

LEMMA JobHeld ==
    ASSUME StoreInv, NEW j \in jobs, JobStep(j) \/ WriteFails(j), UNCHANGED client
    PROVE  HeldStays /\ (WriteMeta(j) /\ At(j) \in Listed => Holds(At(j))')
  <1>1. ListKept
    BY DEF ListKept
  <1>2. /\ At(j) \in Servers /\ disk \in DiskType /\ Listed \subseteq Servers
        /\ j.for # "heartbeat" /\ At(j) \in Listed => j.data = Written(At(j))
    BY JobFacts, CallFacts
  <1>3. CASE (LoadTerm(j) \/ StoreTerm(j) \/ WriteFails(j)) /\ ~WriteMeta(j)
    <2>1. UNCHANGED disk
      BY <1>3 DEF LoadTerm, StoreTerm, WriteFails
    <2> QED BY <1>1, <1>3, <2>1, SameDiskHolds
  <1>4. CASE CreateBlock(j) \/ SyncBlock(j)
    <2>1. MetasKept
      BY <1>4, FillStep
    <2>2. j.pc # "fill"
      BY <1>4 DEF CreateBlock, SyncBlock
    <2> QED BY <1>1, <1>2, <2>1, <2>2, MetaStepHolds DEF MetaStep, WriteMeta, MetasKept
  <1>5. CASE CreateMeta(j)
    <2>1. \A s \in Servers : s # At(j) =>
            disk'[s].hotMeta = disk[s].hotMeta /\ disk'[s].coldMeta = disk[s].coldMeta
      BY <1>5, FillStep
    <2>2. MetaOf(At(j)) \in {None, Torn} \/ disk'[At(j)].hotMeta = Emptied
      BY <1>5, FillStep
    <2>3. j.pc # "fill"
      BY <1>5 DEF CreateMeta
    <2> QED BY <1>1, <1>2, <2>1, <2>2, <2>3, MetaStepHolds DEF MetaStep, WriteMeta
  <1>6. CASE WriteMeta(j)
    <2>1. j.for # "heartbeat"
      BY <1>6, JobFacts DEF WriteMeta, JobOK
    <2>2. \A s \in Servers : s # At(j) =>
            disk'[s].hotMeta = disk[s].hotMeta /\ disk'[s].coldMeta = disk[s].coldMeta
      BY <1>6, FillStep
    <2>3. ASSUME At(j) \in Listed
          PROVE  \/ disk'[At(j)].hotMeta = Written(At(j))
                 \/ /\ MetaPath(At(j)) = "coldMeta" /\ disk'[At(j)].hotMeta = disk[At(j)].hotMeta
                    /\ disk'[At(j)].coldMeta = Written(At(j))
      <3>1. MetaPath(At(j)) \in {"hotMeta", "coldMeta"}
        BY DEF MetaPath
      <3> QED BY <1>2, <1>6, <2>1, <2>3, <3>1, FillStep
    <2>4. HeldStays
      BY <1>1, <1>2, <2>2, <2>3, MetaStepHolds DEF MetaStep
    <2>5. ASSUME At(j) \in Listed PROVE Holds(At(j))'
      <3> DEFINE s == At(j)
      <3>1. Written(s) # None /\ \A x : Written(x)' = Written(x)
        BY <1>1, <2>5, SameList, ClientFacts, WrittenIsContent
      <3>2. \/ disk'[s].hotMeta = Written(s)
            \/ /\ MetaPath(s) = "coldMeta" /\ disk'[s].hotMeta = disk[s].hotMeta
               /\ disk'[s].coldMeta = Written(s)
        BY <2>3, <2>5
      <3>3. MetaPath(s) = "coldMeta" => disk[s].hotMeta = None /\ s \in ColdDir
        BY DEF MetaPath
      <3> HIDE DEF s
      <3>4. MetaOf(s)' = Written(s)
        BY <3>1, <3>2, <3>3 DEF MetaOf, MetaPath
      <3>5. Holds(s)'
        BY <3>1, <3>4 DEF Holds
      <3> QED BY <3>5 DEF s, Holds, MetaOf, MetaPath, At
    <2> QED BY <2>4, <2>5
  <1> QED BY <1>3, <1>4, <1>5, <1>6 DEF JobStep

LEMMA ClientJobFacts ==
    ASSUME AckInv, NEW j \in ClientJobs
    PROVE  /\ j \in jobs /\ JobOK(j) /\ j.for = "client" /\ j.i \in Nat \ {0} /\ At(j) \in Listed
           /\ Wrote(j.chain[1], j.i - 1) /\ j.i <= Len(j.chain) /\ Len(j.chain) \in Nat
           /\ client.ec => Len(j.chain) = 1 /\ j.i = 1
           /\ ~client.ec => j.chain = client.locs
  <1>1. j \in jobs /\ j.for = "client" /\ StoreInv
    BY DEF ClientJobs, AckInv
  <1>2. /\ JobOK(j) /\ j \in Job /\ j.chain \in Seq(Servers) /\ j.i \in DOMAIN j.chain
    BY <1>1, JobFacts DEF JobOK, Job
  <1>3. j.i \in Nat \ {0} /\ j.i <= Len(j.chain) /\ Len(j.chain) \in Nat
    BY <1>2
  <1>4. /\ Wrote(j.chain[1], j.i - 1) /\ (client.ec => Len(j.chain) = 1) /\ (~client.ec => j.chain = client.locs)
    BY DEF AckInv, WritesOK
  <1>5. ASSUME client.ec PROVE j.i = 1
    <2>1. Len(j.chain) = 1
      BY <1>4, <1>5
    <2>2. j.i <= 1
      BY <1>3, <2>1
    <2> QED BY <1>3, <2>2
  <1>6. At(j) \in Listed
    <2>1. CASE client.ec
      BY <1>4, <1>5, <2>1 DEF At, Wrote
    <2>2. CASE ~client.ec
      BY <1>2, <1>4, <2>2 DEF At, Listed, ToSet
    <2> QED BY <2>1, <2>2
  <1> QED BY <1>1, <1>2, <1>3, <1>4, <1>5, <1>6

\* The server at work has written, too.
LEMMA WroteOneMore ==
    ASSUME AckInv, UNCHANGED client, HeldStays, NEW j \in ClientJobs, Holds(At(j))'
    PROVE  Wrote(j.chain[1], j.i)'
  <1>1. ListKept /\ StoreInv
    BY DEF ListKept, AckInv
  <1> DEFINE n == j.i
  <1>2. /\ n \in Nat \ {0} /\ n <= Len(j.chain) /\ Len(j.chain) \in Nat /\ Wrote(j.chain[1], n - 1)
        /\ client.ec => n = 1
        /\ ~client.ec => j.chain = client.locs
    BY ClientJobFacts
  <1>3. Wrote(j.chain[1], n - 1)'
    BY <1>1, <1>2, WroteStays
  <1>4. j.chain[1] \in Listed'
    BY <1>3 DEF Wrote
  <1>5. client.ec => Holds(j.chain[1])'
    BY <1>2 DEF At
  <1>6. ASSUME ~client.ec, NEW k \in 1 .. n PROVE Holds(client.locs[k])'
    <2>1. CASE k = n
      <3>1. At(j) = client.locs[k]
        BY <1>2, <1>6, <2>1 DEF At
      <3> QED BY <3>1 DEF Holds, MetaOf, MetaPath, Written
    <2>2. CASE k # n
      <3>1. k \in 1 .. n - 1
        BY <1>2, <2>2
      <3>2. client'.ec = client.ec
        OBVIOUS
      <3> QED BY <1>3, <1>6, <3>1, <3>2 DEF Wrote
    <2> QED BY <2>1, <2>2
  <1>7. ~client.ec => n <= Len(client.locs)
    BY <1>2
  <1> HIDE DEF n
  <1>8. Wrote(j.chain[1], n)'
    BY <1>2, <1>4, <1>5, <1>6, <1>7 DEF Wrote
  <1> QED BY <1>8 DEF n

\* What a step of handler j does to the handlers and answers.
LEMMA JobMoves ==
    ASSUME NEW j \in jobs, JobOK(j), JobStep(j) \/ WriteFails(j)
    PROVE  \/ /\ \E h : /\ jobs' = (jobs \ {j}) \cup {h} /\ h.for = j.for /\ h.chain = j.chain
                        /\ h.i = j.i \/ (h.i = j.i + 1 /\ WriteMeta(j))
              /\ UNCHANGED replies
           \/ j.for = "heartbeat" /\ jobs' = jobs \ {j} /\ UNCHANGED replies
           \/ \E n : Answer(j, n) /\ (n = j.i - 1 \/ (n = j.i /\ WriteMeta(j)))
  <1>1. j \in Job
    BY DEF JobOK
  <1>2. ASSUME NEW pc, Advance(j, pc), UNCHANGED replies
        PROVE  \E h : /\ jobs' = (jobs \ {j}) \cup {h} /\ h.for = j.for /\ h.chain = j.chain
                      /\ h.i = j.i
    <2>1. LET h == [j EXCEPT !.pc = pc] IN h.for = j.for /\ h.chain = j.chain /\ h.i = j.i
      BY <1>1 DEF Job
    <2> QED BY <1>2, <2>1 DEF Advance
  <1>3. CASE LoadTerm(j)
    BY <1>2, <1>3 DEF LoadTerm
  <1>4. CASE StoreTerm(j)
    BY <1>2, <1>4 DEF StoreTerm
  <1>5. CASE CreateBlock(j) \/ SyncBlock(j) \/ CreateMeta(j)
    BY <1>2, <1>5 DEF CreateBlock, SyncBlock, CreateMeta
  <1>6. CASE WriteFails(j)
    BY <1>6 DEF WriteFails
  <1>7. CASE WriteMeta(j)
    <2>1. \/ jobs' = (jobs \ {j}) \cup {[j EXCEPT !.i = j.i + 1, !.pc = "load"]} /\ UNCHANGED replies
          \/ Answer(j, j.i)
      BY <1>7 DEF WriteMeta
    <2>2. \A i : LET h == [j EXCEPT !.i = i, !.pc = "load"] IN h.for = j.for /\ h.chain = j.chain /\ h.i = i
      BY <1>1 DEF Job
    <2>3. CASE Answer(j, j.i)
      BY <1>7, <2>3
    <2>4. CASE jobs' = (jobs \ {j}) \cup {[j EXCEPT !.i = j.i + 1, !.pc = "load"]} /\ UNCHANGED replies
      BY <1>7, <2>2, <2>4
    <2> QED BY <2>1, <2>3, <2>4
  <1> QED BY <1>3, <1>4, <1>5, <1>6, <1>7 DEF JobStep

LEMMA AckJobs ==
    ASSUME AckInv, StoreInv', NEW j \in jobs, JobStep(j) \/ WriteFails(j), UNCHANGED client
    PROVE  AckInv'
  <1>1. SameWriter /\ StoreInv /\ ListKept
    BY DEF SameWriter, ListKept, AckInv
  <1>2. HeldStays /\ (WriteMeta(j) /\ At(j) \in Listed => Holds(At(j))')
    BY <1>1, JobHeld
  <1>3. JobOK(j)
    BY <1>1, JobFacts
  <1>4. CASE j.for # "client"
    <2>1. WritesKept
      BY <1>3, <1>4, JobMoves DEF WritesKept, ClientJobs, Answer
    <2> QED BY <1>1, <1>2, <2>1, AckKept
  <1>5. CASE j.for = "client"
    <2>1. j \in ClientJobs
      BY <1>5 DEF ClientJobs
    <2>2. Wrote(j.chain[1], j.i - 1)' /\ j.i \in Nat
      BY <1>1, <1>2, <2>1, WroteStays, ClientJobFacts
    <2>3. WriteMeta(j) => Wrote(j.chain[1], j.i)'
      BY <1>2, <2>1, WroteOneMore, ClientJobFacts
    <2>4. CASE /\ \E h : /\ jobs' = (jobs \ {j}) \cup {h} /\ h.for = j.for /\ h.chain = j.chain
                         /\ h.i = j.i \/ (h.i = j.i + 1 /\ WriteMeta(j))
               /\ UNCHANGED replies
      <3>1. PICK h : /\ jobs' = (jobs \ {j}) \cup {h} /\ h.for = j.for /\ h.chain = j.chain
                     /\ h.i = j.i \/ (h.i = j.i + 1 /\ WriteMeta(j))
        BY <2>4
      <3>2. Wrote(h.chain[1], h.i - 1)'
        <4>1. CASE h.i = j.i
          BY <2>2, <3>1, <4>1
        <4>2. CASE h.i = j.i + 1 /\ WriteMeta(j)
          <5>1. h.i - 1 = j.i
            BY <2>2, <4>2
          <5> QED BY <2>3, <3>1, <4>2, <5>1
        <4> QED BY <3>1, <4>1, <4>2
      <3>3. ClientJobs' = (ClientJobs \ {j}) \cup {h}
        BY <1>5, <3>1 DEF ClientJobs
      <3> QED BY <1>1, <1>2, <2>1, <2>4, <3>1, <3>2, <3>3, AckAdvance
    <2>5. CASE \E n : Answer(j, n) /\ (n = j.i - 1 \/ (n = j.i /\ WriteMeta(j)))
      <3>1. PICK n : Answer(j, n) /\ (n = j.i - 1 \/ (n = j.i /\ WriteMeta(j)))
        BY <2>5
      <3>2. Wrote(j.chain[1], n)'
        BY <2>2, <2>3, <3>1
      <3>3. /\ ClientJobs' = ClientJobs \ {j}
            /\ replies' = replies \cup {[from |-> j.chain[1], n |-> n]}
        BY <1>5, <3>1 DEF ClientJobs, Answer
      <3> DEFINE r == [from |-> j.chain[1], n |-> n]
      <3>4. r.from = j.chain[1] /\ r.n = n
        OBVIOUS
      <3>5. \A q \in replies' : q \in replies \/ q = r
        BY <3>3
      <3> HIDE DEF r
      <3>6. \A q \in replies' : q \in replies \/
               /\ Wrote(q.from, q.n)'
               /\ \E g \in ClientJobs : g \notin ClientJobs' /\ q.from = g.chain[1]
        BY <2>1, <3>2, <3>3, <3>4, <3>5
      <3> QED BY <1>1, <1>2, <3>3, <3>5, <3>6, AckAnswers
    <2> QED BY <1>3, <1>5, <2>4, <2>5, JobMoves
  <1> QED BY <1>4, <1>5

\* A handler started for somebody else.
LEMMA OtherJob ==
    ASSUME NEW g, g.for # "client", jobs' = jobs \/ jobs' = jobs \cup {g}
    PROVE  ClientJobs' = ClientJobs
  BY DEF ClientJobs

LEMMA AckTasks ==
    ASSUME AckInv, StoreInv', UNCHANGED client, NEW t \in tasks, TaskStep(t)
    PROVE  AckInv'
  <1>1. SameWriter /\ StoreInv /\ ListKept /\ t.at \in Servers /\ disk \in DiskType /\ Listed \subseteq Servers
    BY TaskFacts, CallFacts DEF SameWriter, ListKept, AckInv
  <1>2. CASE Replicate(t)
    <2> DEFINE g == NewJob(<<t.target>>, "load", known[t.at], FileOf(t.at), "nobody")
    <2>1. UNCHANGED <<disk, replies>> /\ (jobs' = jobs \/ jobs' = jobs \cup {g})
      BY <1>2 DEF Replicate
    <2>2. g.for = "nobody"
      BY DEF NewJob
    <2> HIDE DEF g
    <2>3. WritesKept
      BY <2>1, <2>2, OtherJob DEF WritesKept
    <2> QED BY <1>1, <2>1, <2>3, SameDiskHolds, AckKept
  <1>3. CASE Reconstruct(t, DataShards)
    <2>1. UNCHANGED <<disk, replies>>
      BY <1>3 DEF Reconstruct
    <2>2. PICK d : jobs' = jobs \/ jobs' = jobs \cup {NewJob(<<t.at>>, "data", 0, d, "nobody")}
      BY <1>3 DEF Reconstruct
    <2> DEFINE g == NewJob(<<t.at>>, "data", 0, d, "nobody")
    <2>3. g.for = "nobody"
      BY DEF NewJob
    <2>4. jobs' = jobs \/ jobs' = jobs \cup {g}
      BY <2>2
    <2> HIDE DEF g
    <2>5. WritesKept
      BY <2>1, <2>3, <2>4, OtherJob DEF WritesKept
    <2> QED BY <1>1, <2>1, <2>5, SameDiskHolds, AckKept
  <1>4. CASE MoveBlock(t)
    <2>1. UNCHANGED <<jobs, replies>>
      BY <1>4 DEF MoveBlock
    <2>2. \A s \in Servers : disk'[s].hotMeta = disk[s].hotMeta /\ disk'[s].coldMeta = disk[s].coldMeta
      <3>1. CASE UNCHANGED disk
        BY <3>1
      <3>2. CASE disk' = [disk EXCEPT ![t.at].cold = disk[t.at].hot, ![t.at].hot = None]
        BY <1>1, <3>2 DEF DiskType, DirType
      <3> QED BY <1>4, <3>1, <3>2 DEF MoveBlock
    <2>3. WritesKept
      BY <2>1 DEF WritesKept, ClientJobs
    <2>4. HeldStays
      BY <1>1, <2>2, MetaStepHolds DEF MetaStep
    <2> QED BY <1>1, <2>3, <2>4, AckKept
  <1>5. CASE MoveMeta(t)
    <2>1. UNCHANGED <<jobs, replies>> /\ t.type = "coldMeta"
      BY <1>5 DEF MoveMeta
    <2>2. t.at \in ColdDir
      BY <1>1, <2>1, TaskFacts DEF Harmless
    <2>3. WritesKept
      BY <2>1 DEF WritesKept, ClientJobs
    <2>4. CASE UNCHANGED disk
      BY <1>1, <2>3, <2>4, SameDiskHolds, AckKept
    <2>5. CASE /\ disk[t.at].hotMeta # None
               /\ disk' = [disk EXCEPT ![t.at].coldMeta = disk[t.at].hotMeta, ![t.at].hotMeta = None]
      <3>1. \A s \in Servers :
              IF s = t.at THEN disk'[s].hotMeta = None /\ disk'[s].coldMeta = disk[s].hotMeta
              ELSE disk'[s].hotMeta = disk[s].hotMeta /\ disk'[s].coldMeta = disk[s].coldMeta
        BY <1>1, <2>5 DEF DiskType, DirType
      <3>2. HeldStays
        BY <1>1, <2>2, <2>5, <3>1, MetaStepHolds DEF MetaStep
      <3> QED BY <1>1, <2>3, <3>2, AckKept
    <2> QED BY <1>5, <2>4, <2>5 DEF MoveMeta
  <1> QED BY <1>2, <1>3, <1>4, <1>5 DEF TaskStep

LEMMA ReturnKeeps ==
    ASSUME NEW d, Return(d)
    PROVE  ClientJobs' = ClientJobs
  <1> DEFINE g == NewJob(<<Last(Front(call)).at>>, "data", 0, d, "recover")
  <1>1. jobs' = jobs \/ jobs' = jobs \cup {g}
    BY DEF Return
  <1>2. g.for = "recover"
    BY DEF NewJob
  <1> HIDE DEF g
  <1> QED BY <1>1, <1>2, OtherJob

LEMMA AckCalls ==
    ASSUME AckInv, StoreInv', UNCHANGED client, CallStep
    PROVE  AckInv'
  <1>1. SameWriter /\ StoreInv /\ ListKept
    BY DEF SameWriter, ListKept, AckInv
  <1>2. UNCHANGED <<disk, replies>>
    BY DEF CallStep, OpenBlock, ReadBlock, CheckRead, LookupPeers, TryPeer, Reread
  <1>3. (\E d : Return(d)) \/ UNCHANGED jobs
    BY DEF CallStep, OpenBlock, ReadBlock, CheckRead, LookupPeers, TryPeer, Reread
  <1>4. ClientJobs' = ClientJobs
    BY <1>3, ReturnKeeps DEF ClientJobs
  <1> QED BY <1>1, <1>2, <1>4, SameDiskHolds, AckKept DEF WritesKept

\* Steps that touch neither files nor handlers.
LEMMA AckAside ==
    ASSUME AckInv, StoreInv', UNCHANGED <<client, disk, jobs, replies>>
    PROVE  AckInv'
  <1>1. SameWriter /\ StoreInv /\ ListKept /\ WritesKept
    BY DEF SameWriter, ListKept, AckInv, WritesKept, ClientJobs
  <1> QED BY <1>1, SameDiskHolds, AckKept

LEMMA AckRot ==
    ASSUME AckInv, StoreInv', UNCHANGED client, NEW s \in Servers, Rot(s)
    PROVE  AckInv'
  <1>1. SameWriter /\ StoreInv /\ ListKept /\ WritesKept /\ disk \in DiskType /\ Listed \subseteq Servers
    BY CallFacts DEF SameWriter, ListKept, AckInv, WritesKept, ClientJobs, Rot
  <1>2. \A x \in Servers : disk'[x].hotMeta = disk[x].hotMeta /\ disk'[x].coldMeta = disk[x].coldMeta
    <2>1. CASE disk' = [disk EXCEPT ![s]["hot"] = Rotten]
      BY <1>1, <2>1 DEF DiskType, DirType
    <2>2. CASE disk' = [disk EXCEPT ![s]["cold"] = Rotten]
      BY <1>1, <2>2 DEF DiskType, DirType
    <2> QED BY <2>1, <2>2 DEF Rot
  <1>3. HeldStays
    BY <1>1, <1>2, MetaStepHolds DEF MetaStep
  <1> QED BY <1>1, <1>3, AckKept

LEMMA WroteFewer ==
    ASSUME StoreInv, NEW from, NEW n, Wrote(from, n), NEW m \in Nat, m <= n
    PROVE  Wrote(from, m)
  <1>1. n \in Nat /\ Len(client.locs) \in Nat /\ \A k \in 1 .. m : k \in 1 .. n
    BY ClientFacts DEF Wrote
  <1>2. client.ec => m <= 1 /\ (m = 1 => Holds(from))
    BY <1>1 DEF Wrote
  <1>3. ~client.ec => m <= Len(client.locs)
    BY <1>1 DEF Wrote
  <1> QED BY <1>1, <1>2, <1>3 DEF Wrote

LEMMA AckCrash ==
    ASSUME AckInv, StoreInv', UNCHANGED client, NEW s \in Servers, Crash(s)
    PROVE  AckInv'
  <1>1. SameWriter /\ StoreInv /\ ListKept /\ UNCHANGED disk
    BY DEF SameWriter, ListKept, AckInv, Crash
  <1>2. HeldStays
    BY <1>1, SameDiskHolds
  <1>3. ASSUME NEW h \in ClientJobs' PROVE h \in ClientJobs /\ Hop(h, s) = {}
    <2>1. h \in jobs' /\ h.for = "client"
      BY DEF ClientJobs
    <2>2. PICK j \in jobs :
                \/ Hop(j, s) = {} /\ h = j
                \/ Hop(j, s) = {} /\ j.for = "recover" /\ h = [j EXCEPT !.for = "nobody"]
                \/ HopOf(j, s) \in Hop(j, s) /\ HopOf(j, s) < j.i /\ h = Below(j, HopOf(j, s))
      BY <2>1, CrashJobs
    <2>3. JobOK(j) /\ j \in Job
      BY <1>1, JobFacts DEF JobOK
    <2>4. [j EXCEPT !.for = "nobody"].for = "nobody"
      BY <2>3 DEF Job
    <2>5. ~(HopOf(j, s) \in Hop(j, s) /\ HopOf(j, s) < j.i /\ h = Below(j, HopOf(j, s)))
      BY <2>1, <2>3, BelowOK DEF Hop
    <2> QED BY <2>1, <2>2, <2>4, <2>5 DEF ClientJobs
  <1>4. ASSUME NEW r \in replies', r \notin replies
        PROVE  \E j \in ClientJobs : /\ HopOf(j, s) \in Hop(j, s)
                                     /\ r = [from |-> j.chain[1], n |-> HopOf(j, s) - 1]
    BY <1>4, CrashJobs DEF ClientJobs
  <1>5. ASSUME NEW r \in replies', r \notin replies
        PROVE  /\ Wrote(r.from, r.n)'
               /\ \E j \in ClientJobs : j \notin ClientJobs' /\ r.from = j.chain[1]
    <2>1. PICK j \in ClientJobs : /\ HopOf(j, s) \in Hop(j, s)
                                  /\ r = [from |-> j.chain[1], n |-> HopOf(j, s) - 1]
      BY <1>4, <1>5
    <2>2. r.from = j.chain[1] /\ r.n = HopOf(j, s) - 1
      BY <2>1
    <2>3. j \notin ClientJobs'
      BY <1>3, <2>1
    <2>4. j.i \in Nat \ {0} /\ Wrote(j.chain[1], j.i - 1)
      BY ClientJobFacts
    <2>5. HopOf(j, s) \in 1 .. j.i
      BY <2>1 DEF Hop
    <2>6. HopOf(j, s) - 1 \in Nat /\ HopOf(j, s) - 1 <= j.i - 1
      BY <2>4, <2>5
    <2>7. Wrote(j.chain[1], HopOf(j, s) - 1)
      BY <1>1, <2>4, <2>6, WroteFewer
    <2>8. Wrote(r.from, r.n)'
      BY <1>1, <1>2, <2>2, <2>7, WroteStays
    <2> QED BY <2>2, <2>3, <2>8
  <1>6. ASSUME NEW r \in replies', NEW q \in replies', r \notin replies, q \notin replies, r.from = q.from
        PROVE  r = q
    <2>1. PICK j \in ClientJobs : r = [from |-> j.chain[1], n |-> HopOf(j, s) - 1]
      BY <1>4, <1>6
    <2>2. PICK h \in ClientJobs : q = [from |-> h.chain[1], n |-> HopOf(h, s) - 1]
      BY <1>4, <1>6
    <2>3. j = h
      BY <1>6, <2>1, <2>2 DEF AckInv, OncePerServer
    <2> QED BY <2>1, <2>2, <2>3
  <1> QED BY <1>1, <1>2, <1>3, <1>5, <1>6, AckAnswers

LEMMA AckBeat ==
    ASSUME AckInv, StoreInv', NEW s \in Servers, NEW t, TakeTerm(s, t), UNCHANGED <<client, disk, replies>>
    PROVE  AckInv'
  <1> DEFINE g == NewJob(<<s>>, "store", t, None, "heartbeat")
  <1>1. UNCHANGED <<client, disk, replies>> /\ (jobs' = jobs \/ jobs' = jobs \cup {g})
    BY DEF TakeTerm
  <1>2. g.for = "heartbeat"
    BY DEF NewJob
  <1> HIDE DEF g
  <1>3. SameWriter /\ StoreInv /\ ListKept
    BY <1>1 DEF SameWriter, ListKept, AckInv
  <1>4. WritesKept
    BY <1>1, <1>2, OtherJob DEF WritesKept
  <1> QED BY <1>1, <1>3, <1>4, SameDiskHolds, AckKept

\* A read of the file leaves the writes alone.
LEMMA AckReader ==
    ASSUME AckInv, StoreInv', ReadFile \/ ReaderStep
    PROVE  AckInv'
  <1>1. StoreInv /\ client \in Client
    BY ClientFacts DEF AckInv
  <1>2. UNCHANGED <<disk, jobs, replies>>
    BY DEF ReadFile, ReaderStep, AskLocation, EndRead, TakeAnswer, StartRead, csVars
  <1>3. SameWriter
    <2>1. ASSUME NEW read, NEW order, NEW got,
                 \/ client' = [client EXCEPT !.read = read, !.order = order]
                 \/ client' = [client EXCEPT !.read = read]
                 \/ client' = [client EXCEPT !.order = order]
                 \/ client' = [client EXCEPT !.order = order, !.got = got, !.read = read]
          PROVE  SameWriter
      BY <1>1, <2>1 DEF Client, SameWriter, ListKept
    <2>2. CASE ReadFile
      BY <2>1, <2>2 DEF ReadFile
    <2>3. CASE AskLocation
      BY <2>1, <2>3 DEF AskLocation
    <2>4. CASE EndRead
      BY <2>1, <2>4 DEF EndRead
    <2>5. ASSUME NEW a \in answers, TakeAnswer(a) PROVE SameWriter
      <3> DEFINE got == IF a[2] = Err THEN client.got ELSE client.got + 1
                 read == IF a[2] # Err /\ ~client.ec THEN "ok" ELSE "ask"
                 order == Tail(client.order)
      <3>1. client' = [client EXCEPT !.order = order, !.got = got, !.read = read]
        BY <2>5 DEF TakeAnswer
      <3> HIDE DEF got, read, order
      <3> QED BY <2>1, <3>1
    <2> QED BY <2>2, <2>3, <2>4, <2>5 DEF ReaderStep
  <1>4. ListKept /\ WritesKept
    BY <1>2, <1>3 DEF SameWriter, WritesKept, ClientJobs
  <1> QED BY <1>1, <1>2, <1>3, <1>4, SameDiskHolds, AckKept

\* No write is under way.
LEMMA AckIdle ==
    ASSUME StoreInv', ClientJobs' = {}, replies' = {}, client'.pc \in {"create", "allocate", "write"},
           client'.pc = "write" => client'.copies = 0 /\ client'.locs # <<>>
    PROVE  AckInv'
  <1>1. WritesOK' /\ OncePerServer' /\ Pending' = {}
    BY DEF WritesOK, OncePerServer, Pending
  <1>2. CountOK'
    BY <1>1 DEF CountOK
  <1> QED BY <1>1, <1>2 DEF AckInv

LEMMA AckCreate ==
    ASSUME AckInv, StoreInv', ClientCreate \/ ClientAllocate
    PROVE  AckInv'
  <1>1. StoreInv /\ client \in Client
    BY ClientFacts DEF AckInv
  <1>2. CASE ClientCreate
    <2>1. NothingYet
      BY <1>1, <1>2, ClientFacts DEF ClientCreate, ClientAt
    <2>2. UNCHANGED <<jobs, replies>> /\ client'.pc = "allocate"
      BY <1>1, <1>2 DEF ClientCreate, ClientGoto, csVars, Client
    <2>3. ClientJobs' = {} /\ replies' = {}
      BY <2>1, <2>2 DEF NothingYet, ClientJobs
    <2> QED BY <2>2, <2>3, AckIdle
  <1>3. CASE ClientAllocate
    <2>1. /\ client'.pc = "write" /\ client'.copies = 0 /\ client'.locs # <<>>
          /\ replies' = {} /\ \A j \in jobs' : j.for = "heartbeat"
      BY <1>1, <1>3, AllocateStep
    <2>2. ClientJobs' = {}
      BY <2>1 DEF ClientJobs
    <2> QED BY <2>1, <2>2, AckIdle
  <1> QED BY <1>2, <1>3

LEMMA AckWrite ==
    ASSUME AckInv, StoreInv', ClientWrite
    PROVE  AckInv'
  <1> DEFINE reached == {c \in Chains : c[1] \in up}
             pc == IF reached = Chains THEN "wait" ELSE "failed"
             left == Cardinality(Chains)
  <1>1. /\ jobs' = jobs \cup {WriteOf(c) : c \in reached} /\ client.pc = "write"
        /\ client' = [client EXCEPT !.pc = pc, !.left = left]
        /\ UNCHANGED <<disk, replies>>
    BY ClientWrites
  <1>2. pc \in {"wait", "failed"} /\ reached \subseteq Chains
    OBVIOUS
  <1> HIDE DEF pc, reached
  <1>3. StoreInv /\ client \in Client /\ client.copies = 0 /\ client.locs # <<>> /\ Pending = {}
    BY <1>1, ClientFacts DEF AckInv, CountOK
  <1>4. ClientJobs = {} /\ replies = {}
    BY <1>3 DEF Pending
  <1>5. left \in Nat /\ left > 0 /\ (~client.ec => left = 1)
    <2>1. /\ left \in Nat /\ (~client.ec => left = 1) /\ (client.ec => left = Cardinality(Listed))
          /\ IsFiniteSet(Listed)
      BY <1>3, ChainsFinite
    <2>2. Listed # {}
      <3>1. 1 \in DOMAIN client.locs
        BY <1>3, ClientFacts
      <3> QED BY <3>1 DEF Listed, ToSet
    <2>3. Cardinality(Listed) # 0
      BY <2>1, <2>2, FS_EmptySet
    <2> QED BY <2>1, <2>3
  <1> HIDE DEF left
  <1>6. /\ client'.pc = pc /\ client'.left = left /\ client'.copies = 0 /\ ListKept
    BY <1>1, <1>3 DEF Client, ListKept
  <1>7. ASSUME NEW j \in ClientJobs'
        PROVE  \E c \in Chains : j = WriteOf(c)
    BY <1>1, <1>2, <1>4 DEF ClientJobs
  <1>8. HeldStays
    BY <1>1, <1>3, <1>6, SameDiskHolds
  <1>9. ASSUME NEW c \in Chains
        PROVE  /\ WriteOf(c).chain = c /\ WriteOf(c).i = 1
               /\ Wrote(c[1], 0)' /\ (client.ec => Len(c) = 1) /\ (~client.ec => c = client.locs)
    <2>1. c[1] \in Listed /\ (client.ec => Len(c) = 1) /\ (~client.ec => c = client.locs)
      BY <1>3, ChainOK
    <2>2. Len(client.locs) \in Nat
      BY <1>3, ClientFacts
    <2>3. Wrote(c[1], 0)
      BY <2>1, <2>2 DEF Wrote
    <2> QED BY <1>3, <1>6, <1>8, <2>1, <2>3, WriteOfOK, WroteStays
  <1>10. WritesOK'
    <2>1. ASSUME NEW j \in ClientJobs'
          PROVE  /\ Wrote(j.chain[1], j.i - 1)'
                 /\ IF client'.ec THEN Len(j.chain) = 1 ELSE j.chain = client'.locs
      <3>1. PICK c \in Chains : j = WriteOf(c)
        BY <1>7
      <3>2. j.chain = c /\ j.i - 1 = 0
        BY <1>9, <3>1
      <3> QED BY <1>6, <1>9, <3>2 DEF ListKept
    <2> QED BY <1>1, <1>4, <2>1 DEF WritesOK
  <1>11. OncePerServer'
    <2>1. ASSUME NEW j \in ClientJobs', NEW h \in ClientJobs', j.chain[1] = h.chain[1]
          PROVE  j = h
      <3>1. PICK c \in Chains : j = WriteOf(c)
        BY <1>7
      <3>2. PICK d \in Chains : h = WriteOf(d)
        BY <1>7
      <3>3. c[1] = d[1]
        BY <1>9, <2>1, <3>1, <3>2
      <3>4. c = d
        BY <3>3 DEF Chains
      <3> QED BY <3>1, <3>2, <3>4
    <2> QED BY <1>1, <1>4, <2>1 DEF OncePerServer
  <1>12. CountOK'
    <2>1. Cardinality({}) = 0
      BY FS_EmptySet
    <2>2. client'.ec = client.ec
      BY <1>6 DEF ListKept
    <2>3. \E C \in SUBSET Held' : Cardinality(C) = client'.copies /\ C \cap Pending' = {}
      <3>1. {} \in SUBSET Held' /\ {} \cap Pending' = {} /\ Cardinality({}) = client'.copies
        BY <1>6, <2>1
      <3> QED BY <3>1
    <2> QED BY <1>2, <1>5, <1>6, <2>2, <2>3 DEF CountOK, Held
  <1> QED BY <1>10, <1>11, <1>12 DEF AckInv

LEMMA AckComplete ==
    ASSUME AckInv, StoreInv', ClientComplete
    PROVE  AckInv'
  <1>1. StoreInv /\ client \in Client
    BY ClientFacts DEF AckInv
  <1>2. /\ UNCHANGED <<disk, jobs, replies>> /\ client.pc = "complete"
        /\ client' = [client EXCEPT !.pc = "done"]
    BY DEF ClientComplete, csVars, ClientGoto, ClientAt
  <1>3. ListKept /\ client'.pc = "done" /\ client'.copies = client.copies /\ client.copies \in Nat
    BY <1>1, <1>2 DEF ListKept, Client
  <1>4. HeldStays
    BY <1>1, <1>2, <1>3, SameDiskHolds
  <1>5. WritesOK'
    <2>1. \A from, n : Wrote(from, n) => Wrote(from, n)'
      BY <1>1, <1>3, <1>4, WroteStays
    <2>2. ClientJobs' = ClientJobs
      BY <1>2 DEF ClientJobs
    <2> QED BY <1>2, <1>3, <2>1, <2>2 DEF AckInv, WritesOK, ListKept
  <1>6. OncePerServer'
    BY <1>2 DEF AckInv, OncePerServer, ClientJobs
  <1>7. HeldCount \in Nat /\ HeldCount' \in Nat /\ HeldCount <= HeldCount' /\ HeldCount >= client.copies
    BY <1>1, <1>2, <1>3, <1>4, HeldGrows, HeldFacts, HeldFactsNext DEF HeldOK, AckInv, CountOK
  <1>8. HeldCount' >= client'.copies
    BY <1>3, <1>7
  <1> QED BY <1>3, <1>5, <1>6, <1>8 DEF AckInv, CountOK

\* The first n servers of the pipeline have written: that many hold the block.
LEMMA PipelineHeld ==
    ASSUME StoreInv, ~client.ec, NEW from, NEW n, Wrote(from, n)
    PROVE  HeldCount >= n
  <1>1. /\ client.locs \in Seq(Servers) /\ IsInjective(client.locs) /\ n \in Nat /\ n <= Len(client.locs)
        /\ \A k \in 1 .. n : Holds(client.locs[k])
    BY ClientFacts DEF Wrote
  <1> DEFINE f == [k \in 1 .. n |-> client.locs[k]]
  <1>2. \A k \in 1 .. n : k \in DOMAIN client.locs
    BY <1>1
  <1>3. \A k \in 1 .. n : client.locs[k] \in Held
    BY <1>1, <1>2 DEF Held, Listed, ToSet
  <1>4. f \in Injection(1 .. n, Held)
    <2>1. f \in [1 .. n -> Held]
      BY <1>3
    <2>2. \A a, b \in 1 .. n : f[a] = f[b] => a = b
      BY <1>1, <1>2 DEF IsInjective
    <2> QED BY <2>1, <2>2 DEF Injection, IsInjective
  <1>5. IsFiniteSet(1 .. n) /\ Cardinality(1 .. n) = n
    BY <1>1, FS_Interval
  <1>6. IsFiniteSet(Held) /\ HeldCount = Cardinality(Held) /\ Cardinality(Held) \in Nat
    BY HeldFacts DEF HeldOK
  <1>7. Cardinality(1 .. n) <= Cardinality(Held)
    <2> HIDE DEF f
    <2> QED BY <1>4, <1>6, FS_Injection
  <1> QED BY <1>1, <1>5, <1>6, <1>7

LEMMA AckReply ==
    ASSUME AckInv, StoreInv', NEW r \in replies, ClientReply(r)
    PROVE  AckInv'
  <1> DEFINE pc == IF r.n = 0 THEN "failed" ELSE IF client.left = 1 THEN "complete" ELSE client.pc
             left == client.left - 1
             copies == client.copies + r.n
  <1>1. /\ client' = [client EXCEPT !.pc = pc, !.left = left, !.copies = copies]
        /\ client.pc = "wait" /\ replies' = replies \ {r} /\ UNCHANGED <<disk, jobs>>
    BY DEF ClientReply, ClientAt
  <1>2. StoreInv /\ client \in Client /\ client.left \in Nat /\ client.copies \in Nat /\ client.ec \in BOOLEAN
    BY ClientFacts DEF AckInv, Client
  <1>3. \A x, y, z : LET d == [client EXCEPT !.pc = x, !.left = y, !.copies = z]
                     IN  /\ d.pc = x /\ d.left = y /\ d.copies = z /\ d.locs = client.locs /\ d.ec = client.ec
    BY <1>2 DEF Client
  <1>4. /\ client'.pc = pc /\ client'.left = left /\ client'.copies = copies /\ ListKept
    BY <1>1, <1>3 DEF ListKept
  <1>5. /\ Wrote(r.from, r.n) /\ r.n \in Nat /\ client.left > 0
        /\ ~client.ec => client.left = 1 /\ client.copies = 0
    BY <1>1 DEF AckInv, WritesOK, CountOK, Wrote
  <1>6. HeldStays
    BY <1>1, <1>2, <1>4, SameDiskHolds
  <1>7. Held \subseteq Held' /\ HeldCount <= HeldCount' /\ HeldCount \in Nat /\ HeldCount' \in Nat
    BY <1>2, <1>4, <1>6, HeldGrows, HeldFacts, HeldFactsNext DEF HeldOK
  <1>8. ClientJobs' = ClientJobs /\ replies' \subseteq replies
    BY <1>1 DEF ClientJobs
  <1>9. WritesOK'
    <2>1. \A from, n : Wrote(from, n) => Wrote(from, n)'
      BY <1>2, <1>4, <1>6, WroteStays
    <2> QED BY <1>4, <1>8, <2>1 DEF AckInv, WritesOK, ListKept
  <1>10. OncePerServer'
    BY <1>8 DEF AckInv, OncePerServer
  <1>11. r.from \in Pending /\ r.from \notin Pending' /\ Pending' \subseteq Pending
    BY <1>1, <1>8 DEF Pending, AckInv, OncePerServer
  <1>12. ASSUME client.ec, r.n # 0
         PROVE  \E C \in SUBSET Held' : /\ Cardinality(C) = copies /\ IsFiniteSet(C) /\ C \cap Pending' = {}
                                        /\ C \subseteq Held
    <2>1. r.n = 1 /\ Holds(r.from) /\ r.from \in Listed
      BY <1>5, <1>12 DEF Wrote
    <2>2. PICK C \in SUBSET Held : Cardinality(C) = client.copies /\ C \cap Pending = {}
      BY <1>1, <1>12 DEF AckInv, CountOK, Held
    <2>3. IsFiniteSet(C) /\ r.from \notin C
      BY <1>2, <1>11, <2>2, HeldFacts, FS_Subset DEF HeldOK
    <2>4. IsFiniteSet(C \cup {r.from}) /\ Cardinality(C \cup {r.from}) = Cardinality(C) + 1
      BY <2>3, FS_AddElement
    <2>5. C \cup {r.from} \subseteq Held
      BY <2>1, <2>2 DEF Held
    <2>6. (C \cup {r.from}) \cap Pending' = {}
      BY <1>11, <2>2
    <2>7. C \cup {r.from} \in SUBSET Held' /\ Cardinality(C \cup {r.from}) = copies
      BY <1>2, <1>7, <2>1, <2>2, <2>4, <2>5
    <2> QED BY <2>4, <2>5, <2>6, <2>7
  <1>13. ASSUME pc = "complete" PROVE HeldCount' >= copies
    <2>1. r.n # 0
      BY <1>13
    <2>2. CASE client.ec
      <3>1. PICK C \in SUBSET Held' : Cardinality(C) = copies /\ C \subseteq Held
        BY <1>12, <2>1, <2>2
      <3>2. Cardinality(C) <= Cardinality(Held) /\ HeldCount = Cardinality(Held)
        BY <1>2, <3>1, HeldFacts, FS_Subset DEF HeldOK
      <3>3. copies \in Nat
        BY <1>2, <1>5
      <3> HIDE DEF copies
      <3> QED BY <1>7, <3>1, <3>2, <3>3
    <2>3. CASE ~client.ec
      <3>1. HeldCount >= r.n
        BY <1>2, <1>5, <2>3, PipelineHeld
      <3>2. copies = r.n
        BY <1>5, <2>3
      <3> QED BY <1>5, <1>7, <3>1, <3>2
    <2> QED BY <2>2, <2>3
  <1>14. ASSUME pc = "wait"
         PROVE  /\ left > 0 /\ client.ec
                /\ \E C \in SUBSET Held' : Cardinality(C) = copies /\ C \cap Pending' = {}
    <2>1. r.n # 0 /\ client.left # 1
      BY <1>14
    <2> QED BY <1>2, <1>5, <1>12, <2>1
  <1>15. pc \in {"failed", "complete", "wait"}
    BY <1>1
  <1> HIDE DEF pc, left, copies
  <1>16. CountOK'
    <2>1. client'.ec = client.ec
      BY <1>4 DEF ListKept
    <2>2. CASE pc = "wait"
      BY <1>4, <1>14, <2>1, <2>2 DEF CountOK, Held
    <2>3. CASE pc = "complete"
      BY <1>4, <1>13, <2>3 DEF CountOK
    <2>4. CASE pc = "failed"
      BY <1>4, <2>4 DEF CountOK
    <2> QED BY <1>15, <2>2, <2>3, <2>4
  <1> QED BY <1>9, <1>10, <1>16 DEF AckInv

LEMMA AckClientOK == ASSUME AckInv PROVE ClientOK
  BY DEF AckInv, ClientOK, CountOK, WritesOK, Wrote

LEMMA AckNext ==
    ASSUME AckInv, [Next]_vars
    PROVE  AckInv'
  <1>1. StoreInv'
    BY AckClientOK, StoreNext DEF AckInv
  <1>2. CASE ClientStep
    BY <1>1, <1>2, AckCreate, AckWrite, AckComplete, AckReply DEF ClientStep
  <1>3. CASE ReadFile \/ ReaderStep
    BY <1>1, <1>3, AckReader
  <1>4. CASE Lookup \/ Delete
    <2>1. UNCHANGED <<client, disk, jobs, replies>>
      BY <1>4 DEF Lookup, Delete, csVars
    <2> QED BY <1>1, <2>1, AckAside
  <1>5. ASSUME NEW s \in Servers, ReadRange(s) \/ BeatLost(s) \/ Quiet(s)
        PROVE  AckInv'
    <2>1. UNCHANGED <<client, disk, jobs, replies>>
      BY <1>5 DEF ReadRange, PartialRead, BeatLost, Quiet, csVars
    <2> QED BY <1>1, <2>1, AckAside
  <1>10. ASSUME NEW s \in Servers, Beat(s) \/ \E t \in 1 .. rterm \cup {oterm} : BeatElsewhere(s, t)
         PROVE  AckInv'
    <2>1. UNCHANGED <<client, disk, replies>> /\ \E t : TakeTerm(s, t)
      BY <1>10 DEF Beat, BeatElsewhere
    <2> QED BY <1>1, <2>1, AckBeat
  <1>6. CASE ServerStep /\ UNCHANGED <<mVars, client>>
    <2>1. CASE CallStep
      BY <1>1, <1>6, <2>1, AckCalls
    <2>2. ASSUME NEW s \in Servers, Evict(s) PROVE AckInv'
      <3>1. UNCHANGED <<client, disk, jobs, replies>>
        BY <1>6, <2>2 DEF Evict
      <3> QED BY <1>1, <3>1, AckAside
    <2>3. CASE \E s \in Servers : HandlerStep(s)
      BY <1>1, <1>6, <2>3, AckJobs, AckTasks DEF HandlerStep
    <2> QED BY <1>6, <2>1, <2>2, <2>3 DEF ServerStep
  <1>7. CASE ServerFault /\ UNCHANGED <<mVars, client>>
    <2>1. CASE \E j \in jobs : WriteFails(j)
      BY <1>1, <1>7, <2>1, AckJobs
    <2>2. ASSUME NEW s \in Servers, Restart(s) \/ Scrub(s) PROVE AckInv'
      <3>1. UNCHANGED <<client, disk, jobs, replies>>
        BY <1>7, <2>2 DEF Restart, Scrub
      <3> QED BY <1>1, <3>1, AckAside
    <2> QED BY <1>1, <1>7, <2>1, <2>2, AckRot, AckCrash DEF ServerFault
  <1>8. CASE UNCHANGED <<csVars, client>>
    <2>1. UNCHANGED <<client, disk, jobs, replies>>
      BY <1>8 DEF csVars
    <2> QED BY <1>1, <2>1, AckAside
  <1>9. CASE UNCHANGED vars
    BY <1>8, <1>9 DEF vars
  <1> QED BY <1>1, <1>2, <1>3, <1>4, <1>5, <1>6, <1>7, <1>8, <1>9, <1>10 DEF Next

-----------------------------------------------------------------------------
(* The theorems.                                                           *)

\* The inductive invariant holds throughout: what waits for or runs on a chunkserver
\* (write_block, recover_block, the tasks of a heartbeat answer) puts on a listed
\* server nothing but what the client wrote there, and every write the client waits
\* for has left its checksums on the servers it has passed, there or emptied since by a
\* recovery that writes them again.
THEOREM StoreInvariant == Spec => []AckInv
  <1>1. AckInv /\ [Next]_vars => AckInv'
    BY AckNext
  <1> QED BY AckInvInit, <1>1, PTL DEF Spec

\* The chunkservers, the registry of the master and the client keep their types; call
\* never grows past the bound on recoveries that ask one another.
THEOREM TypeCorrect == Spec => []TypeOK
  <1>1. AckInv => TypeOK
    BY DEF AckInv, StoreInv
  <1> QED BY StoreInvariant, <1>1, PTL

\* A full read of a listed server (read_block) that does not fail answers what the
\* client wrote there, for any number of servers, crashes, damaged files, repairs,
\* copies of damaged files and moves to the cold directory.
THEOREM ReadsAreRight == Spec => []FullReadsRight
  <1>1. AckInv => FullReadsRight
    BY DEF AckInv, StoreInv, AnswersOK, FullReadsRight
  <1> QED BY StoreInvariant, <1>1, PTL

\* The replicas write_block reports to the client were written: as many listed servers
\* have the checksums of what it wrote, or had them until a recovery emptied the .meta
\* file to write them again (a crash or an I/O error in write_block_async may leave it
\* so).  Nothing else takes them away: write_block counts a replica before the next one
\* answers, servers of the pipeline die in between, files move to the cold directory
\* and are copied, and none of it removes or replaces the checksums.
THEOREM AcknowledgedIsStored == Spec => []AckedIsStored
  <1>1. AckInv => AckedIsStored
    BY DEF AckInv, CountOK, HeldCount, Holds, Listed, AckedIsStored
  <1> QED BY StoreInvariant, <1>1, PTL
=============================================================================

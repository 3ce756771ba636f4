----------------------- MODULE CrossShardRenameProofs -----------------------
(***************************************************************************)
(* Proofs about CrossShardRename, for every set of renames and any number  *)
(* of failures: as long as no two different files are renamed to one path, *)
(* no file is lost, and a rename that is called committed has moved its    *)
(* file.  The record of a commit is kept until it is acknowledged.         *)
(*                                                                         *)
(* The argument: once a file has arrived at its destination it stays there *)
(* (Arrived is stable), and everything that can lead to the deletion of    *)
(* the source, be it a state of a handler, a proposal that is waiting or   *)
(* one that may still be committed late, exists only once the file has     *)
(* arrived.  For the records: what is coming for the record of an old      *)
(* transaction leads along the way it is on (GuardOK).                     *)
(***************************************************************************)
EXTENDS CrossShardRename, TLAPS

\* Renames to one path are renames of one file.
NoCollision == \A t, u \in Tx : Dest[t] = Dest[u] => Source[t] = Source[u]

\* A file is at the destination of t: that of t, unless another rename leads there.
Arrived(t) == files["dst"][Dest[t]] # Nil

\* The rename handler of t has read the file that t moves.
Begun(t) == rename[t].content = Source[t]

\* A command that may be applied at shard s at any time.
GoodCommand(s, c) ==
    /\ c.tx \in Tx /\ Begun(c.tx)
    /\ c.op = "Delete" => s = "src" /\ c.path = Source[c.tx] /\ Arrived(c.tx)
    /\ c.op = "Create" => s = "dst" /\ c.path = Dest[c.tx] /\ c.content = Source[c.tx]
    /\ c.op = "CreateTransactionRecord" =>
         c.record \in Record /\ c.record.content = Source[c.tx] /\ c.record.state # "Committed"
    /\ c.op = "UpdateTransactionState" =>
         c.state \in TxState /\ (c.state = "Committed" => Arrived(c.tx))

\* The renames to the path that t leads to, t included.
Rivals(t) == {u \in Tx : Dest[u] = Dest[t]}

\* Only the files being renamed are anywhere, and none is lost.
FilesOK ==
    /\ files \in [Shard -> [Path -> Content \cup {Nil}]]
    /\ \A p \in SourcePath : files["src"][p] \in {p, Nil}
    /\ \A t \in Tx : files["dst"][Dest[t]] \in {Source[u] : u \in Rivals(t)} \cup {Nil}
    /\ \A p \in SourcePath : files["src"][p] = Nil => \E t \in Tx : Source[t] = p /\ Arrived(t)

RecordsOK ==
    /\ records \in [Shard -> [Tx -> Record \cup {Nil}]]
    /\ \A s \in Shard, t \in Tx : records[s][t] # Nil =>
         /\ Begun(t) /\ records[s][t].content = Source[t]
         /\ records[s][t].state = "Committed" => Arrived(t)

LimboOK == \A p \in limbo : p[1] \in Shard /\ GoodCommand(p[1], p[2])

\* What the two shards hold, and what may still be applied to them.
ShardsOK == FilesOK /\ RecordsOK /\ LimboOK

RenamePc == {"idle", "record", "prepared", "prepare", "commit", "abort", "abort_and_return",
             "aborted", "delete", "committed", "acked", "done"}

\* A handler knows what it moves, and deletes its source only once it has moved.
RenameOK ==
    /\ rename \in [Tx -> [pc : RenamePc, content : Content \cup {Nil}]]
    /\ told \in [Tx -> {Nil, "success", "failure", "pending", "crashed"}]
    /\ \A t \in Tx :
         /\ rename[t].pc \notin {"idle", "done"} => Begun(t)
         /\ rename[t].pc \in {"delete", "committed", "acked"} => Arrived(t)
         /\ told[t] = "success" => Begun(t) /\ Arrived(t)

CallRecord == [kind : {"prepare", "commit", "abort"}, tx : Tx,
               stage : {"arrived", "create", "apply", "update"}, caller : {"rename", "recovery", Nil},
               operation : Content \cup {Nil}]

\* An RPC handler of the participant has read what the rename moves; its caller, if
\* that is the rename handler, waits for just this RPC.
GoodCall(c) ==
    /\ Begun(c.tx)
    /\ c.stage = "apply" => c.operation = Source[c.tx]
    /\ c.stage = "update" => Arrived(c.tx)
    /\ c.caller = "rename" =>
         rename[c.tx].pc \in DOMAIN RpcAt /\ c.kind = RpcAt[rename[c.tx].pc]
    /\ c.caller = "recovery" => c.kind = "commit"

CallsOK ==
    /\ calls \subseteq CallRecord
    /\ \A c \in calls : GoodCall(c)
    /\ \A c, d \in calls : (c.caller = "rename" /\ d.caller = "rename" /\ c.tx = d.tx) => c = d

ShardOf(k) == IF k = "cleanup_dst" THEN "dst" ELSE "src"

TaskCommand ==
         [op : {"UpdateTransactionState"}, tx : Tx, state : TxState]
    \cup [op : {"Delete"}, tx : Tx, path : SourcePath]
    \cup [op : {"Create"}, tx : Tx, path : DestPath, content : Content]
    \cup [op : {"SetParticipantAcked", "IncrementInquiryCount", "DeleteTransactionRecord"}, tx : Tx]

Round == [pc : {"idle", "commit", "inquire", "run"}, copy : Record \cup {Nil},
          todo : Seq(TaskCommand)]

\* What a round of a background task has left to do about t may be done at any time.
GoodRound(k, t, w) ==
    /\ \A n \in 1 .. Len(w.todo) : GoodCommand(ShardOf(k), w.todo[n])
    /\ w.pc = "run" => w.todo # <<>>
    /\ w.pc = "inquire" => w.copy # Nil /\ Begun(t) /\ w.copy.content = Source[t]

TaskOK ==
    /\ task \in [Task -> [Tx -> Round]]
    /\ \A k \in Task, t \in Tx : GoodRound(k, t, task[k][t])

RenameInv ==
    /\ ShardsOK /\ RenameOK /\ CallsOK /\ TaskOK
    /\ aged \subseteq Tx /\ failures \in 0 .. MaxFailures

-----------------------------------------------------------------------------
(* What a step leaves true.                                                *)

\* A step takes no file away from a destination ...
StillArrived == \A t \in Tx : Arrived(t) => Arrived(t)'

\* ... and no rename forgets what it moves.
StillBegun == \A t \in Tx : Begun(t) => Begun(t)'

\* A command that may be applied may be applied after a step as well.
LEMMA GoodStays ==
    ASSUME StillArrived, StillBegun, NEW s, NEW c, GoodCommand(s, c)
    PROVE  GoodCommand(s, c)'
  BY DEF StillArrived, StillBegun, GoodCommand

\* The paths of a rename are among the paths of the shards.
LEMMA Paths ==
    ASSUME NEW t \in Tx
    PROVE  /\ Source[t] \in SourcePath /\ Source[t] \in Path /\ Source[t] \in Content
           /\ Dest[t] \in DestPath /\ Dest[t] \in Path /\ Source[t] # Nil
  BY PathAssumption DEF SourcePath, DestPath, Path, Content

\* apply_command keeps the files: nothing leaves a destination, and a source is
\* deleted only once the file has arrived.
LEMMA ApplyFiles ==
    ASSUME FilesOK, NEW s \in Shard, NEW c, GoodCommand(s, c), ApplyCommand(s, c)
    PROVE  FilesOK' /\ StillArrived
  <1> DEFINE F == files[s]
  <1>1. /\ files' = [files EXCEPT ![s] = FilesAfter(F, c)]
        /\ c.tx \in Tx
    BY DEF ApplyCommand, GoodCommand
  <1>2. F \in [Path -> Content \cup {Nil}]
    BY DEF FilesOK
  <1>3. CASE c.op = "Delete"
    <2>1. s = "src" /\ c.path = Source[c.tx] /\ Arrived(c.tx)
      BY <1>3 DEF GoodCommand
    <2>2. files' = [files EXCEPT !["src"] = [files["src"] EXCEPT ![Source[c.tx]] = Nil]]
      BY <1>1, <1>3, <2>1 DEF FilesAfter
    <2>3. files'["dst"] = files["dst"] /\ files' \in [Shard -> [Path -> Content \cup {Nil}]]
      BY <2>2, <1>1, Paths DEF FilesOK, Shard
    <2>4. StillArrived
      BY <2>3 DEF StillArrived, Arrived
    <2>5. \A p \in SourcePath : files'["src"][p] = IF p = Source[c.tx] THEN Nil ELSE files["src"][p]
      BY <2>2, <1>1, Paths DEF FilesOK, Shard, Path
    <2> QED  BY <1>1, <2>1, <2>3, <2>4, <2>5 DEF FilesOK, Arrived
  <1>4. CASE c.op = "Create" /\ F[c.path] = Nil
    <2>1. s = "dst" /\ c.path = Dest[c.tx] /\ c.content = Source[c.tx]
      BY <1>4 DEF GoodCommand
    <2>2. files' = [files EXCEPT !["dst"] = [files["dst"] EXCEPT ![Dest[c.tx]] = Source[c.tx]]]
      BY <1>1, <1>4, <2>1 DEF FilesAfter
    <2>3. files'["src"] = files["src"] /\ files' \in [Shard -> [Path -> Content \cup {Nil}]]
      BY <2>2, <1>1, Paths DEF FilesOK, Shard
    <2>4. \A t \in Tx : files'["dst"][Dest[t]] =
            IF Dest[t] = Dest[c.tx] THEN Source[c.tx] ELSE files["dst"][Dest[t]]
      BY <2>2, <1>1, Paths DEF FilesOK, Shard
    <2>5. StillArrived
      BY <2>4, <1>1, Paths DEF StillArrived, Arrived
    <2>6. ASSUME NEW t \in Tx
          PROVE  files'["dst"][Dest[t]] \in {Source[u] : u \in Rivals(t)} \cup {Nil}
      <3>1. CASE Dest[t] = Dest[c.tx]
        <4>1. c.tx \in Rivals(t) /\ files'["dst"][Dest[t]] = Source[c.tx]
          BY <1>1, <2>4, <3>1 DEF Rivals
        <4> QED  BY <4>1
      <3>2. CASE Dest[t] # Dest[c.tx]
        BY <2>4, <3>2 DEF FilesOK
      <3> QED  BY <3>1, <3>2
    <2> QED  BY <2>3, <2>5, <2>6 DEF FilesOK, StillArrived
  <1>5. CASE ~(c.op = "Delete") /\ ~(c.op = "Create" /\ F[c.path] = Nil)
    <2>1. files' = files
      BY <1>1, <1>2, <1>5 DEF FilesAfter, FilesOK
    <2> QED  BY <2>1 DEF FilesOK, Arrived, StillArrived
  <1> QED  BY <1>3, <1>4, <1>5

\* apply_command keeps the records: what is called Committed has moved.
LEMMA ApplyRecords ==
    ASSUME RecordsOK, StillArrived, StillBegun,
           NEW s \in Shard, NEW c, GoodCommand(s, c), ApplyCommand(s, c)
    PROVE  RecordsOK'
  <1> DEFINE R == records[s]
             t0 == c.tx
  <1>1. records' = [records EXCEPT ![s] = RecordsAfter(R, c)] /\ t0 \in Tx /\ Begun(t0)
    BY DEF ApplyCommand, GoodCommand
  <1>2. R \in [Tx -> Record \cup {Nil}]
    BY DEF RecordsOK
  <1>3. \E r : /\ RecordsAfter(R, c) = [R EXCEPT ![t0] = r]
               /\ r = Nil \/ /\ r \in Record /\ r.content = Source[t0]
                             /\ r.state = "Committed" => Arrived(t0)
    <2>1. CASE c.op = "CreateTransactionRecord"
      <3>1. RecordsAfter(R, c) = [R EXCEPT ![t0] = c.record]
        BY <2>1 DEF RecordsAfter
      <3>2. c.record \in Record /\ c.record.content = Source[t0] /\ c.record.state # "Committed"
        BY <2>1 DEF GoodCommand
      <3> HIDE DEF R, t0
      <3> QED  BY <3>1, <3>2
    <2>2. CASE c.op # "CreateTransactionRecord" /\ R[t0] = Nil
      <3>1. RecordsAfter(R, c) = [R EXCEPT ![t0] = Nil]
        BY <1>1, <1>2, <2>2 DEF RecordsAfter
      <3> HIDE DEF R, t0
      <3> QED  BY <3>1
    <2>3. CASE c.op # "CreateTransactionRecord" /\ R[t0] # Nil
      <3>1. /\ R[t0] \in Record /\ R[t0].content = Source[t0]
            /\ R[t0].state = "Committed" => Arrived(t0)
        BY <1>1, <1>2, <2>3 DEF RecordsOK
      <3>2. CASE c.op = "UpdateTransactionState"
        <4>1. RecordsAfter(R, c) = [R EXCEPT ![t0] = [R[t0] EXCEPT !.state = c.state]]
          BY <2>3, <3>2 DEF RecordsAfter
        <4>2. c.state \in TxState /\ (c.state = "Committed" => Arrived(t0))
          BY <3>2 DEF GoodCommand
        <4> DEFINE r1 == [R[t0] EXCEPT !.state = c.state]
        <4>3. r1 \in Record /\ r1.content = R[t0].content /\ r1.state = c.state
          BY <3>1, <4>2 DEF Record
        <4>4. RecordsAfter(R, c) = [R EXCEPT ![t0] = r1]
          BY <4>1
        <4> HIDE DEF r1, R, t0
        <4> QED  BY <4>2, <4>3, <4>4, <3>1
      <3>3. CASE c.op = "SetParticipantAcked"
        <4>1. RecordsAfter(R, c) = [R EXCEPT ![t0] = [R[t0] EXCEPT !.participant_acked = TRUE]]
          BY <2>3, <3>3 DEF RecordsAfter
        <4> DEFINE r1 == [R[t0] EXCEPT !.participant_acked = TRUE]
        <4>2. r1 \in Record /\ r1.content = R[t0].content /\ r1.state = R[t0].state
          BY <3>1 DEF Record
        <4>3. RecordsAfter(R, c) = [R EXCEPT ![t0] = r1]
          BY <4>1
        <4> HIDE DEF r1, R, t0
        <4> QED  BY <4>2, <4>3, <3>1
      <3>4. CASE c.op = "IncrementInquiryCount"
        <4>1. RecordsAfter(R, c) =
                [R EXCEPT ![t0] = [R[t0] EXCEPT !.inquiry_count = R[t0].inquiry_count + 1]]
          BY <2>3, <3>4 DEF RecordsAfter
        <4> DEFINE r1 == [R[t0] EXCEPT !.inquiry_count = R[t0].inquiry_count + 1]
        <4>2. r1 \in Record /\ r1.content = R[t0].content /\ r1.state = R[t0].state
          BY <3>1 DEF Record
        <4>3. RecordsAfter(R, c) = [R EXCEPT ![t0] = r1]
          BY <4>1
        <4> HIDE DEF r1, R, t0
        <4> QED  BY <4>2, <4>3, <3>1
      <3>5. CASE c.op = "DeleteTransactionRecord"
        <4>1. RecordsAfter(R, c) = [R EXCEPT ![t0] = Nil]
          BY <2>3, <3>5 DEF RecordsAfter
        <4> HIDE DEF R, t0
        <4> QED  BY <4>1
      <3>6. CASE c.op \notin {"UpdateTransactionState", "SetParticipantAcked",
                              "IncrementInquiryCount", "DeleteTransactionRecord"}
        <4>1. RecordsAfter(R, c) = [R EXCEPT ![t0] = R[t0]]
          BY <1>1, <1>2, <2>3, <3>6 DEF RecordsAfter
        <4> QED  BY <4>1, <3>1
      <3> QED  BY <3>2, <3>3, <3>4, <3>5, <3>6
    <2> QED  BY <2>1, <2>2, <2>3
  <1>4. PICK r : /\ RecordsAfter(R, c) = [R EXCEPT ![t0] = r]
                 /\ r = Nil \/ /\ r \in Record /\ r.content = Source[t0]
                               /\ r.state = "Committed" => Arrived(t0)
    BY <1>3
  <1>5. records' = [records EXCEPT ![s] = [R EXCEPT ![t0] = r]]
    BY <1>1, <1>4
  <1>6. records' \in [Shard -> [Tx -> Record \cup {Nil}]]
    BY <1>2, <1>4, <1>5 DEF RecordsOK
  <1>7. \A s1 \in Shard, t \in Tx : records'[s1][t] =
          IF s1 = s /\ t = t0 THEN r ELSE records[s1][t]
    BY <1>1, <1>2, <1>5 DEF RecordsOK
  <1>8. ASSUME NEW s1 \in Shard, NEW t \in Tx, records'[s1][t] # Nil
        PROVE  /\ Begun(t)' /\ records'[s1][t].content = Source[t]
               /\ records'[s1][t].state = "Committed" => Arrived(t)'
    BY <1>1, <1>4, <1>7, <1>8 DEF RecordsOK, StillArrived, StillBegun
  <1> QED  BY <1>6, <1>8 DEF RecordsOK

\* A proposal, applied now, later or never, keeps the shards.
LEMMA ProposeKeeps ==
    ASSUME ShardsOK, StillBegun, failures \in 0 .. MaxFailures,
           NEW s \in Shard, NEW c, GoodCommand(s, c), NEW ok, Propose(s, c, ok)
    PROVE  ShardsOK' /\ StillArrived /\ failures' \in 0 .. MaxFailures
  <1>1. CASE ok
    <2>1. ApplyCommand(s, c) /\ limbo' = limbo /\ failures' = failures
      BY <1>1 DEF Propose
    <2>2. FilesOK' /\ StillArrived
      BY <2>1, ApplyFiles DEF ShardsOK
    <2>3. RecordsOK'
      BY <2>1, <2>2, ApplyRecords DEF ShardsOK
    <2>4. LimboOK'
      BY <2>1, <2>2, GoodStays DEF ShardsOK, LimboOK
    <2> QED  BY <2>1, <2>2, <2>3, <2>4 DEF ShardsOK
  <1>2. CASE ~ok
    <2>1. /\ files' = files /\ records' = records /\ limbo' = limbo \cup {<<s, c>>}
          /\ failures < MaxFailures /\ failures' = failures + 1
      BY <1>2 DEF Propose, Fail
    <2>2. StillArrived
      BY <2>1 DEF StillArrived, Arrived
    <2>3. FilesOK'
      BY <2>1 DEF ShardsOK, FilesOK, Arrived
    <2>4. RecordsOK'
      BY <2>1, <2>2 DEF ShardsOK, RecordsOK, StillBegun, StillArrived
    <2>5. \A p \in limbo' : p[1] \in Shard /\ GoodCommand(p[1], p[2])
      BY <2>1 DEF ShardsOK, LimboOK
    <2>6. LimboOK'
      BY <2>2, <2>5, GoodStays DEF LimboOK
    <2>7. failures' \in 0 .. MaxFailures
      BY <2>1, LimitAssumption
    <2> QED  BY <2>2, <2>3, <2>4, <2>6, <2>7 DEF ShardsOK
  <1> QED  BY <1>1, <1>2

\* A step that leaves the shards alone keeps them, and what may be applied to them.
LEMMA ShardsRest ==
    ASSUME ShardsOK, StillBegun, UNCHANGED <<files, records>>, limbo' \subseteq limbo
    PROVE  ShardsOK' /\ StillArrived
  <1>1. StillArrived
    BY DEF StillArrived, Arrived
  <1>2. FilesOK'
    BY DEF ShardsOK, FilesOK, Arrived
  <1>3. RecordsOK'
    BY <1>1 DEF ShardsOK, RecordsOK, StillBegun, StillArrived
  <1>4. LimboOK'
    BY <1>1, GoodStays DEF ShardsOK, LimboOK
  <1> QED  BY <1>1, <1>2, <1>3, <1>4 DEF ShardsOK

\* A step that leaves the handlers, the RPCs or the tasks alone keeps them.
LEMMA RenameRest ==
    ASSUME RenameOK, StillArrived, UNCHANGED <<rename, told>>
    PROVE  RenameOK' /\ StillBegun
  BY DEF RenameOK, StillArrived, StillBegun, Begun

LEMMA TaskRest ==
    ASSUME TaskOK, StillArrived, StillBegun, UNCHANGED task
    PROVE  TaskOK'
  <1>1. ASSUME NEW k \in Task, NEW t \in Tx
        PROVE  GoodRound(k, t, task[k][t])'
    <2>1. GoodRound(k, t, task[k][t])
      BY DEF TaskOK
    <2> QED  BY <2>1, GoodStays DEF GoodRound, StillBegun, ShardOf
  <1> QED  BY <1>1 DEF TaskOK

\* One round of one task is replaced by another.
LEMMA TaskUpdate ==
    ASSUME TaskOK, StillArrived, StillBegun, NEW k \in Task, NEW t \in Tx, NEW w \in Round,
           GoodRound(k, t, w), task' = [task EXCEPT ![k][t] = w]
    PROVE  TaskOK'
  <1>1. \A k1 \in Task, t1 \in Tx : task'[k1][t1] = IF k1 = k /\ t1 = t THEN w ELSE task[k1][t1]
    BY DEF TaskOK
  <1>2. task' \in [Task -> [Tx -> Round]]
    BY DEF TaskOK
  <1>3. ASSUME NEW k1 \in Task, NEW t1 \in Tx
        PROVE  GoodRound(k1, t1, task[k1][t1])'
    <2>1. GoodRound(k1, t1, task'[k1][t1])
      BY <1>1 DEF TaskOK
    <2> QED  BY <2>1, GoodStays DEF GoodRound, StillBegun, ShardOf
  <1> QED  BY <1>2, <1>3 DEF TaskOK

\* A round that has nothing to do may be had at any time.
LEMMA IdleRound ==
    ASSUME NEW k, NEW t
    PROVE  /\ Idle \in Round
           /\ GoodRound(k, t, Idle)
  <1>1. <<>> \in Seq(TaskCommand) /\ Len(<<>>) = 0
    OBVIOUS
  <1>2. Idle.todo = <<>> /\ Idle.pc = "idle" /\ Idle.copy = Nil
    BY DEF Idle
  <1>3. \A n \in 1 .. Len(Idle.todo) : FALSE
    BY <1>1, <1>2
  <1>4. Idle \in Round
    BY <1>1 DEF Idle, Round
  <1> QED  BY <1>2, <1>3, <1>4 DEF GoodRound

-----------------------------------------------------------------------------
(* What the handlers do besides their proposals.                           *)

LEMMA RpcNames ==
    /\ DOMAIN RpcAt = {"prepare", "commit", "abort", "abort_and_return"}
    /\ RpcAt["prepare"] = "prepare" /\ RpcAt["commit"] = "commit"
    /\ RpcAt["abort"] = "abort" /\ RpcAt["abort_and_return"] = "abort"
  BY DEF RpcAt

\* The RPCs of C are RPCs under way, some of them without their caller.
Remaining(C) == \A d \in C : d \in calls \/ \E e \in calls : d = [e EXCEPT !.caller = Nil]

\* An RPC that remains is as good as it was.
LEMMA RemainingGood ==
    ASSUME CallsOK, NEW C, Remaining(C), NEW d \in C
    PROVE  d \in CallRecord /\ GoodCall(d) /\ (d.caller = "rename" => d \in calls)
  <1>1. CASE d \in calls
    BY <1>1 DEF CallsOK
  <1>2. ASSUME NEW e \in calls, d = [e EXCEPT !.caller = Nil]
        PROVE  d \in CallRecord /\ GoodCall(d) /\ d.caller # "rename"
    <2>1. e \in CallRecord /\ GoodCall(e)
      BY DEF CallsOK
    <2>2. /\ d \in CallRecord /\ d.caller = Nil /\ d.tx = e.tx /\ d.kind = e.kind
          /\ d.stage = e.stage /\ d.operation = e.operation
      BY <1>2, <2>1 DEF CallRecord
    <2> QED  BY <2>1, <2>2, NilAssumption DEF GoodCall
  <1> QED  BY <1>1, <1>2 DEF Remaining

\* A step after which only RPCs that remain are under way.
LEMMA CallsRest ==
    ASSUME CallsOK, StillArrived, StillBegun, UNCHANGED rename, Remaining(calls')
    PROVE  CallsOK'
  <1>1. \A d \in calls' : d \in CallRecord /\ GoodCall(d) /\ (d.caller = "rename" => d \in calls)
    BY RemainingGood
  <1>2. \A d \in calls' : GoodCall(d)'
    BY <1>1 DEF GoodCall, StillArrived, StillBegun, CallRecord
  <1> QED  BY <1>1, <1>2 DEF CallsOK

LEMMA GoToBegun ==
    ASSUME RenameOK, NEW t \in Tx, NEW pc, NEW answer, NEW C, GoTo(t, pc, answer, C)
    PROVE  StillBegun
  BY DEF RenameOK, GoTo, StillBegun, Begun

\* The handler of t goes on; what it may go on to depends on whether t has moved.
LEMMA GoToKeeps ==
    ASSUME RenameOK, CallsOK, StillArrived, NEW t \in Tx, Begun(t),
           NEW pc \in RenamePc, pc # "idle",
           NEW answer \in {Nil, "success", "failure", "pending"},
           pc \in {"delete", "committed", "acked"} => Arrived(t),
           pc = "done" /\ answer = "success" => Arrived(t),
           NEW C, Remaining(C), \A d \in C : d.caller = "rename" => d.tx # t,
           GoTo(t, pc, answer, C)
    PROVE  RenameOK' /\ CallsOK'
  <1>1. StillBegun
    BY GoToBegun
  <1>2. /\ rename' \in [Tx -> [pc : RenamePc, content : Content \cup {Nil}]]
        /\ \A u \in Tx : rename'[u].pc = IF u = t THEN pc ELSE rename[u].pc
    BY DEF GoTo, RenameOK
  <1>3. /\ told' \in [Tx -> {Nil, "success", "failure", "pending", "crashed"}]
        /\ \A u \in Tx : told'[u] = IF u = t /\ pc = "done" THEN answer ELSE told[u]
    BY DEF GoTo, RenameOK
  <1>4. RenameOK'
    <2>1. ASSUME NEW u \in Tx
          PROVE  /\ rename'[u].pc \notin {"idle", "done"} => Begun(u)'
                 /\ rename'[u].pc \in {"delete", "committed", "acked"} => Arrived(u)'
                 /\ told'[u] = "success" => Begun(u)' /\ Arrived(u)'
      BY <1>1, <1>2, <1>3 DEF RenameOK, StillBegun, StillArrived
    <2> QED  BY <1>2, <1>3, <2>1 DEF RenameOK
  <1>5. ASSUME NEW d \in C
        PROVE  d \in CallRecord /\ GoodCall(d)' /\ (d.caller = "rename" => d \in calls)
    <2>1. d \in CallRecord /\ GoodCall(d) /\ (d.caller = "rename" => d \in calls)
      BY RemainingGood
    <2>2. d.caller = "rename" => rename'[d.tx].pc = rename[d.tx].pc
      BY <1>2, <2>1 DEF CallRecord
    <2> QED  BY <1>1, <2>1, <2>2 DEF GoodCall, StillBegun, StillArrived, CallRecord
  <1>6. CASE pc \notin DOMAIN RpcAt
    <2>1. calls' = C
      BY <1>6 DEF GoTo
    <2> QED  BY <1>4, <1>5, <2>1 DEF CallsOK
  <1>7. CASE pc \in DOMAIN RpcAt
    <2> DEFINE n == Call(RpcAt[pc], t, "rename")
    <2>1. calls' = C \cup {n}
      BY <1>7 DEF GoTo
    <2>2. /\ n.kind = RpcAt[pc] /\ n.tx = t /\ n.stage = "arrived"
          /\ n.caller = "rename" /\ n \in CallRecord
      BY <1>7, RpcNames DEF Call, CallRecord
    <2>3. GoodCall(n)'
      BY <1>1, <1>2, <1>7, <2>2 DEF GoodCall, StillBegun
    <2> HIDE DEF n
    <2>4. \A c, d \in calls' : c.caller = "rename" /\ d.caller = "rename" /\ c.tx = d.tx => c = d
      BY <1>5, <2>1, <2>2 DEF CallsOK
    <2> QED  BY <1>4, <1>5, <2>1, <2>2, <2>3, <2>4 DEF CallsOK
  <1> QED  BY <1>6, <1>7

\* C is the RPCs under way without c, or with c without its caller.
Without(c, C) == \A d \in C : d \in calls \ {c} \/ d = [c EXCEPT !.caller = Nil]

LEMMA WithoutRemains ==
    ASSUME CallsOK, NEW c \in calls, NEW C, Without(c, C)
    PROVE  /\ Remaining(C)
           /\ c.caller = "rename" => \A d \in C : d.caller = "rename" => d.tx # c.tx
  <1>1. Remaining(C)
    BY DEF Without, Remaining
  <1>2. ASSUME NEW d \in C, d.caller = "rename", c.caller = "rename"
        PROVE  d.tx # c.tx
    <2>1. d \in calls \ {c}
      BY <1>2, NilAssumption DEF Without, CallsOK, CallRecord
    <2> QED  BY <1>2, <2>1 DEF CallsOK
  <1> QED  BY <1>1, <1>2

\* The handler that waits for RPC c is at a pc that waits for such an RPC.
LEMMA WaitingPc ==
    ASSUME CallsOK, NEW c \in calls, c.caller = "rename"
    PROVE  /\ rename[c.tx].pc \in {"prepare", "commit", "abort", "abort_and_return"}
           /\ rename[c.tx].pc = "commit" <=> c.kind = "commit"
           /\ c.tx \in Tx /\ Begun(c.tx)
  BY RpcNames DEF CallsOK, GoodCall, CallRecord

LEMMA ReplyBegun ==
    ASSUME RenameOK, CallsOK, NEW c \in calls, NEW ok, NEW C, Reply(c, ok, C)
    PROVE  StillBegun
  <1>1. CASE c.caller = "rename"
    <2>1. AfterRpc(c.tx, ok, C)
      BY <1>1 DEF Reply
    <2>2. /\ rename[c.tx].pc \in {"prepare", "commit", "abort", "abort_and_return"}
          /\ c.tx \in Tx
      BY <1>1, WaitingPc
    <2>3. \E pc, answer : GoTo(c.tx, pc, answer, C)
      BY <2>1, <2>2 DEF AfterRpc
    <2> QED  BY <2>2, <2>3, GoToBegun
  <1>2. CASE c.caller # "rename"
    <2>1. rename' = rename
      BY <1>2 DEF Reply
    <2> QED  BY <2>1 DEF StillBegun, Begun
  <1> QED  BY <1>1, <1>2

\* What the recovery task does after a commit it may do once the file has moved.
LEMMA RecoveryTodoGood ==
    ASSUME NEW t \in Tx, Begun(t), Arrived(t), NEW copy
    PROVE  /\ RecoveryTodo(t, copy) \in Seq(TaskCommand) /\ RecoveryTodo(t, copy) # <<>>
           /\ \A n \in 1 .. Len(RecoveryTodo(t, copy)) : GoodCommand("src", RecoveryTodo(t, copy)[n])
  <1> DEFINE d == DeleteSource(t)
             u == UpdateTransactionState(t, "Committed")
             a == SetParticipantAcked(t)
  <1>1. d \in TaskCommand /\ GoodCommand("src", d)
    BY Paths DEF DeleteSource, TaskCommand, GoodCommand
  <1>2. u \in TaskCommand /\ GoodCommand("src", u)
    BY DEF UpdateTransactionState, TaskCommand, GoodCommand, TxState
  <1>3. a \in TaskCommand /\ GoodCommand("src", a)
    BY DEF SetParticipantAcked, TaskCommand, GoodCommand
  <1>4. RecoveryTodo(t, copy) = <<a>> \/ RecoveryTodo(t, copy) = <<d, u, a>>
    BY DEF RecoveryTodo
  <1> HIDE DEF d, u, a
  <1> DEFINE todo == RecoveryTodo(t, copy)
  <1> HIDE DEF todo
  <1>5. CASE todo = <<a>>
    <2>1. todo \in Seq(TaskCommand) /\ Len(todo) = 1 /\ todo[1] = a /\ todo # <<>>
      BY <1>3, <1>5
    <2>2. \A n \in 1 .. Len(todo) : n = 1
      BY <2>1
    <2>3. \A n \in 1 .. Len(todo) : GoodCommand("src", todo[n])
      BY <1>3, <2>1, <2>2
    <2> QED  BY <2>1, <2>3 DEF todo
  <1>6. CASE todo = <<d, u, a>>
    <2>1. /\ todo \in Seq(TaskCommand) /\ todo # <<>>
          /\ Len(todo) = 3 /\ todo[1] = d /\ todo[2] = u /\ todo[3] = a
      BY <1>1, <1>2, <1>3, <1>6
    <2>2. \A n \in 1 .. Len(todo) : n = 1 \/ n = 2 \/ n = 3
      BY <2>1
    <2>3. \A n \in 1 .. Len(todo) : GoodCommand("src", todo[n])
      BY <1>1, <1>2, <1>3, <2>1, <2>2
    <2> QED  BY <2>1, <2>3 DEF todo
  <1> QED  BY <1>4, <1>5, <1>6 DEF todo

\* An answer keeps the handlers, the RPCs and the tasks.  The answer TRUE to a
\* commit comes only once the file has moved.
LEMMA ReplyKeeps ==
    ASSUME RenameOK, CallsOK, TaskOK, StillArrived,
           NEW c \in calls, NEW ok \in BOOLEAN, ok /\ c.kind = "commit" => Arrived(c.tx),
           NEW C, Without(c, C), Reply(c, ok, C)
    PROVE  RenameOK' /\ CallsOK' /\ TaskOK'
  <1>1. StillBegun
    BY ReplyBegun
  <1>2. Remaining(C)
    BY WithoutRemains
  <1>3. c \in CallRecord /\ GoodCall(c) /\ c.tx \in Tx /\ Begun(c.tx)
    BY DEF CallsOK, CallRecord, GoodCall
  <1>4. CASE c.caller = "rename"
    <2>1. AfterRpc(c.tx, ok, C) /\ task' = task
      BY <1>4 DEF Reply
    <2>2. /\ rename[c.tx].pc \in {"prepare", "commit", "abort", "abort_and_return"}
          /\ rename[c.tx].pc = "commit" <=> c.kind = "commit"
      BY <1>4, WaitingPc
    <2>3. \A d \in C : d.caller = "rename" => d.tx # c.tx
      BY <1>4, WithoutRemains
    <2>4. \E pc \in RenamePc, answer \in {Nil, "failure", "pending"} :
            /\ GoTo(c.tx, pc, answer, C) /\ pc # "idle"
            /\ pc \in {"delete", "committed", "acked"} => Arrived(c.tx)
      <3>1. CASE rename[c.tx].pc = "prepare"
        BY <2>1, <3>1 DEF AfterRpc, RenamePc
      <3>2. CASE rename[c.tx].pc = "commit"
        BY <2>1, <2>2, <3>2 DEF AfterRpc, RenamePc
      <3>3. CASE rename[c.tx].pc = "abort"
        BY <2>1, <3>3 DEF AfterRpc, RenamePc
      <3>4. CASE rename[c.tx].pc = "abort_and_return"
        BY <2>1, <3>4 DEF AfterRpc, RenamePc
      <3> QED  BY <2>2, <3>1, <3>2, <3>3, <3>4
    <2>5. RenameOK' /\ CallsOK'
      BY <1>2, <1>3, <2>3, <2>4, GoToKeeps, NilAssumption
    <2> QED  BY <1>1, <2>1, <2>5, TaskRest
  <1>5. CASE c.caller = "recovery"
    <2> DEFINE w == task["recovery"][c.tx]
               w1 == IF ok THEN [w EXCEPT !.pc = "run", !.todo = RecoveryTodo(c.tx, w.copy)] ELSE Idle
    <2>1. /\ task' = [task EXCEPT !["recovery"][c.tx] = w1]
          /\ calls' = C /\ rename' = rename /\ told' = told
      BY <1>5 DEF Reply
    <2>2. w \in Round /\ "recovery" \in Task
      BY <1>3 DEF TaskOK, Task
    <2>3. w1 \in Round /\ GoodRound("recovery", c.tx, w1)
      <3>1. CASE ~ok
        BY <3>1, IdleRound
      <3>2. CASE ok
        <4>1. Arrived(c.tx)
          BY <1>3, <1>5, <3>2 DEF GoodCall
        <4> DEFINE todo == RecoveryTodo(c.tx, w.copy)
        <4>2. /\ todo \in Seq(TaskCommand) /\ todo # <<>>
              /\ \A n \in 1 .. Len(todo) : GoodCommand("src", todo[n])
          BY <1>3, <4>1, RecoveryTodoGood
        <4> HIDE DEF todo
        <4>3. w1 \in Round /\ w1.pc = "run" /\ w1.todo = todo
          BY <2>2, <3>2, <4>2 DEF Round, todo
        <4> HIDE DEF w1
        <4> QED  BY <4>2, <4>3 DEF GoodRound, ShardOf
      <3> QED  BY <3>1, <3>2
    <2> HIDE DEF w1
    <2>4. TaskOK'
      BY <1>1, <1>3, <2>1, <2>2, <2>3, TaskUpdate
    <2>5. RenameOK'
      BY <2>1, RenameRest
    <2>6. CallsOK'
      BY <1>1, <1>2, <2>1, CallsRest
    <2> QED  BY <2>4, <2>5, <2>6
  <1>6. CASE c.caller \notin {"rename", "recovery"}
    <2>1. calls' = C /\ rename' = rename /\ told' = told /\ task' = task
      BY <1>6 DEF Reply
    <2> QED  BY <1>1, <1>2, <2>1, RenameRest, CallsRest, TaskRest
  <1> QED  BY <1>4, <1>5, <1>6

\* RPC c makes way for n, which has the same caller and is about the same rename.
LEMMA CallReplaced ==
    ASSUME CallsOK, StillArrived, StillBegun, UNCHANGED rename,
           NEW c \in calls, NEW C, Without(c, C), NEW n \in CallRecord, GoodCall(n)',
           n.caller = c.caller, n.tx = c.tx, calls' = C \cup {n}
    PROVE  CallsOK'
  <1>1. \A d \in C : d \in CallRecord /\ GoodCall(d) /\ (d.caller = "rename" => d \in calls)
    BY WithoutRemains, RemainingGood
  <1>2. \A d \in C : GoodCall(d)'
    BY <1>1 DEF GoodCall, StillArrived, StillBegun, CallRecord
  <1>3. c.caller = "rename" => \A d \in C : d.caller = "rename" => d.tx # c.tx
    BY WithoutRemains
  <1>4. \A d, e \in calls' : d.caller = "rename" /\ e.caller = "rename" /\ d.tx = e.tx => d = e
    BY <1>1, <1>3 DEF CallsOK
  <1>5. \A d \in calls' : GoodCall(d)'
    BY <1>2
  <1> QED  BY <1>1, <1>4, <1>5 DEF CallsOK

LEMMA ResendBegun ==
    ASSUME RenameOK, CallsOK, NEW c \in calls, NEW ok, NEW C, ReplyOrResend(c, ok, C)
    PROVE  StillBegun
  <1>1. CASE Reply(c, ok, C)
    BY <1>1, ReplyBegun
  <1>2. CASE ~Reply(c, ok, C)
    <2>1. rename' = rename
      BY <1>2 DEF ReplyOrResend
    <2> QED  BY <2>1 DEF StillBegun, Begun
  <1> QED  BY <1>1, <1>2

\* An answer, or a call of the next peer, keeps the handlers, the RPCs and the tasks.
LEMMA ResendKeeps ==
    ASSUME RenameOK, CallsOK, TaskOK, StillArrived,
           NEW c \in calls, NEW ok \in BOOLEAN, ok /\ c.kind = "commit" => Arrived(c.tx),
           NEW C, Without(c, C), ReplyOrResend(c, ok, C)
    PROVE  RenameOK' /\ CallsOK' /\ TaskOK'
  <1>1. CASE Reply(c, ok, C)
    BY <1>1, ReplyKeeps
  <1>2. CASE ~Reply(c, ok, C)
    <2> DEFINE n == Call(c.kind, c.tx, c.caller)
    <2>1. calls' = C \cup {n} /\ rename' = rename /\ told' = told /\ task' = task
      BY <1>2 DEF ReplyOrResend
    <2>2. RenameOK' /\ StillBegun /\ TaskOK'
      BY <2>1, RenameRest, TaskRest
    <2>3. c \in CallRecord /\ GoodCall(c)
      BY DEF CallsOK
    <2>4. /\ n \in CallRecord /\ n.kind = c.kind /\ n.tx = c.tx /\ n.caller = c.caller
          /\ n.stage = "arrived"
      BY <2>3 DEF Call, CallRecord
    <2> HIDE DEF n
    <2>5. GoodCall(n)'
      BY <2>1, <2>2, <2>3, <2>4 DEF GoodCall, StillBegun, CallRecord
    <2> QED  BY <2>1, <2>2, <2>4, <2>5, CallReplaced
  <1> QED  BY <1>1, <1>2

\* A handler that goes on to its next proposal keeps them too.
LEMMA ProceedKeeps ==
    ASSUME RenameOK, CallsOK, TaskOK, StillArrived,
           NEW c \in calls, NEW stage \in {"create", "apply", "update"},
           NEW operation \in Content \cup {Nil},
           stage = "apply" => operation = Source[c.tx], stage = "update" => Arrived(c.tx)',
           Proceed(c, stage, operation)
    PROVE  RenameOK' /\ CallsOK' /\ TaskOK'
  <1> DEFINE n == [c EXCEPT !.stage = stage, !.operation = operation]
             C == calls \ {c}
  <1>1. calls' = C \cup {n} /\ rename' = rename /\ told' = told /\ task' = task
    BY DEF Proceed
  <1>2. RenameOK' /\ StillBegun /\ TaskOK'
    BY <1>1, RenameRest, TaskRest
  <1>3. c \in CallRecord /\ GoodCall(c)
    BY DEF CallsOK
  <1>4. /\ n \in CallRecord /\ n.kind = c.kind /\ n.tx = c.tx /\ n.caller = c.caller
        /\ n.stage = stage /\ n.operation = operation
    BY <1>3 DEF CallRecord
  <1> HIDE DEF n
  <1>5. GoodCall(n)'
    BY <1>1, <1>2, <1>3, <1>4 DEF GoodCall, StillBegun, CallRecord
  <1>6. Without(c, C)
    BY DEF Without
  <1> HIDE DEF C
  <1> QED  BY <1>1, <1>2, <1>4, <1>5, <1>6, CallReplaced

-----------------------------------------------------------------------------
(* Every step keeps the invariant.                                         *)

LEMMA InitHolds == ASSUME Init PROVE RenameInv
  <1>1. FilesOK
    BY Paths DEF Init, FilesOK, Shard, Arrived, Path, Content, SourcePath
  <1>2. RecordsOK /\ LimboOK
    BY DEF Init, RecordsOK, LimboOK
  <1>3. RenameOK
    BY NilAssumption DEF Init, RenameOK, RenamePc
  <1>4. CallsOK
    BY DEF Init, CallsOK
  <1>5. TaskOK
    BY IdleRound DEF Init, TaskOK
  <1> QED  BY <1>1, <1>2, <1>3, <1>4, <1>5, LimitAssumption DEF RenameInv, ShardsOK, Init

LEMMA BeginRenameStep ==
    ASSUME RenameInv, NEW t \in Tx, BeginRename(t)
    PROVE  RenameInv'
  <1> USE DEF RenameInv
  <1>1. /\ rename[t].pc = "idle" /\ UNCHANGED <<files, records, limbo, calls, task, aged, failures>>
    BY DEF BeginRename
  <1>2. files["src"][Source[t]] \in {Source[t], Nil}
    BY Paths DEF ShardsOK, FilesOK
  <1>3. \/ /\ rename' = [rename EXCEPT ![t].pc = "done"]
           /\ told' = [told EXCEPT ![t] = "failure"]
        \/ /\ rename' = [rename EXCEPT ![t] = [pc |-> "record", content |-> Source[t]]]
           /\ told' = told
    BY <1>2 DEF BeginRename
  <1>4. StillBegun /\ \A u \in Tx : u # t => rename'[u] = rename[u]
    BY <1>3 DEF RenameOK, StillBegun, Begun
  <1>5. ShardsOK' /\ StillArrived
    BY <1>1, <1>4, ShardsRest
  <1>6. RenameOK'
    <2>1. /\ rename' \in [Tx -> [pc : RenamePc, content : Content \cup {Nil}]]
          /\ told' \in [Tx -> {Nil, "success", "failure", "pending", "crashed"}]
      BY <1>3, Paths DEF RenameOK, RenamePc
    <2>2. ASSUME NEW u \in Tx
          PROVE  /\ rename'[u].pc \notin {"idle", "done"} => Begun(u)'
                 /\ rename'[u].pc \in {"delete", "committed", "acked"} => Arrived(u)'
                 /\ told'[u] = "success" => Begun(u)' /\ Arrived(u)'
      <3>1. CASE u = t
        BY <1>3, <1>4, <1>5, <3>1 DEF RenameOK, Begun, StillArrived, StillBegun
      <3>2. CASE u # t
        BY <1>3, <1>4, <1>5, <3>2 DEF RenameOK, StillArrived, StillBegun
      <3> QED  BY <3>1, <3>2
    <2> QED  BY <2>1, <2>2 DEF RenameOK
  <1>7. CallsOK'
    <2>1. ASSUME NEW d \in calls
          PROVE  GoodCall(d)'
      <3>1. d \in CallRecord /\ GoodCall(d)
        BY DEF CallsOK
      <3>2. d.caller = "rename" => d.tx # t
        BY <1>1, <3>1, RpcNames DEF GoodCall
      <3> QED  BY <1>4, <1>5, <3>1, <3>2 DEF GoodCall, StillArrived, StillBegun, CallRecord
    <2> QED  BY <1>1, <2>1 DEF CallsOK
  <1>8. TaskOK'
    BY <1>1, <1>4, <1>5, TaskRest
  <1> QED  BY <1>1, <1>5, <1>6, <1>7, <1>8

\* A rename handler proposes c and goes on to pc.
LEMMA ProposeAndGo ==
    ASSUME RenameInv, NEW t \in Tx, NEW ok \in BOOLEAN,
           rename[t].pc \in {"record", "prepared", "aborted", "delete", "committed", "acked"},
           NEW c, GoodCommand("src", c), Propose("src", c, ok),
           NEW pc \in RenamePc, pc # "idle",
           NEW answer \in {Nil, "success", "failure", "pending"},
           pc \in {"delete", "committed", "acked"} => Arrived(t),
           pc = "done" /\ answer = "success" => Arrived(t),
           GoTo(t, pc, answer, calls), UNCHANGED <<task, aged>>
    PROVE  RenameInv'
  <1> USE DEF RenameInv
  <1>1. StillBegun
    BY GoToBegun
  <1>2. ShardsOK' /\ StillArrived /\ failures' \in 0 .. MaxFailures
    BY <1>1, ProposeKeeps DEF Shard
  <1>3. Remaining(calls)
    BY DEF Remaining
  <1>4. \A d \in calls : d.caller = "rename" => d.tx # t
    BY RpcNames DEF CallsOK, GoodCall
  <1>5. Begun(t)
    BY DEF RenameOK
  <1>6. RenameOK' /\ CallsOK'
    BY <1>2, <1>3, <1>4, <1>5, GoToKeeps
  <1>7. TaskOK'
    BY <1>1, <1>2, TaskRest
  <1> QED  BY <1>2, <1>6, <1>7

\* The commands of the coordinator's handler may be applied when it proposes them.
LEMMA RenameStepKeeps ==
    ASSUME RenameInv, NEW t \in Tx, NEW ok \in BOOLEAN, RenameStep(t, ok)
    PROVE  RenameInv'
  <1>1. CASE RecordPending(t, ok)
    <2> DEFINE r == NewRecord("Pending", rename[t].content)
               c == CreateTransactionRecord(t, r)
    <2>1. rename[t].pc = "record" /\ Begun(t)
      BY <1>1 DEF RecordPending, RenameInv, RenameOK
    <2>2. r \in Record /\ r.content = Source[t] /\ r.state # "Committed"
      BY <2>1, Paths DEF NewRecord, Record, TxState, Begun
    <2> HIDE DEF r
    <2>3. GoodCommand("src", c)
      BY <2>1, <2>2 DEF GoodCommand, CreateTransactionRecord
    <2>4. Propose("src", c, ok) /\ GoTo(t, IF ok THEN "prepared" ELSE "done", "failure", calls)
      BY <1>1 DEF RecordPending, r
    <2>5. UNCHANGED <<task, aged>>
      BY <1>1 DEF RecordPending
    <2> HIDE DEF c
    <2> QED  BY <2>1, <2>3, <2>4, <2>5, ProposeAndGo DEF RenamePc
  <1>2. CASE RecordPrepared(t, ok)
    <2> DEFINE c == UpdateTransactionState(t, "Prepared")
    <2>1. rename[t].pc = "prepared" /\ Begun(t)
      BY <1>2 DEF RecordPrepared, RenameInv, RenameOK
    <2>2. GoodCommand("src", c)
      BY <2>1 DEF GoodCommand, UpdateTransactionState, TxState
    <2>3. /\ Propose("src", c, ok) /\ UNCHANGED <<task, aged>>
          /\ GoTo(t, IF ok THEN "prepare" ELSE "abort_and_return", Nil, calls)
      BY <1>2 DEF RecordPrepared
    <2> HIDE DEF c
    <2> QED  BY <2>1, <2>2, <2>3, ProposeAndGo DEF RenamePc
  <1>3. CASE RecordAborted(t, ok)
    <2> DEFINE c == UpdateTransactionState(t, "Aborted")
    <2>1. rename[t].pc = "aborted" /\ Begun(t)
      BY <1>3 DEF RecordAborted, RenameInv, RenameOK
    <2>2. GoodCommand("src", c)
      BY <2>1 DEF GoodCommand, UpdateTransactionState, TxState
    <2>3. Propose("src", c, ok) /\ GoTo(t, "done", "failure", calls) /\ UNCHANGED <<task, aged>>
      BY <1>3 DEF RecordAborted
    <2> HIDE DEF c
    <2> QED  BY <2>1, <2>2, <2>3, ProposeAndGo DEF RenamePc
  <1>4. CASE Finish(t, ok)
    <2>1. rename[t].pc \in {"delete", "committed", "acked"} /\ UNCHANGED <<task, aged>>
      BY <1>4 DEF Finish
    <2>2. Begun(t) /\ Arrived(t)
      BY <2>1 DEF RenameInv, RenameOK
    <2>3. CASE rename[t].pc = "delete"
      <3> DEFINE c == DeleteSource(t)
      <3>1. Propose("src", c, ok) /\ GoTo(t, "committed", Nil, calls)
        BY <1>4, <2>3 DEF Finish
      <3>2. GoodCommand("src", c)
        BY <2>2 DEF GoodCommand, DeleteSource
      <3> HIDE DEF c
      <3> QED  BY <2>1, <2>2, <3>1, <3>2, ProposeAndGo DEF RenamePc
    <2>4. CASE rename[t].pc = "committed"
      <3> DEFINE c == UpdateTransactionState(t, "Committed")
      <3>1. Propose("src", c, ok) /\ GoTo(t, "acked", Nil, calls)
        BY <1>4, <2>4 DEF Finish
      <3>2. GoodCommand("src", c)
        BY <2>2 DEF GoodCommand, UpdateTransactionState, TxState
      <3> HIDE DEF c
      <3> QED  BY <2>1, <2>2, <3>1, <3>2, ProposeAndGo DEF RenamePc
    <2>5. CASE rename[t].pc = "acked"
      <3> DEFINE c == SetParticipantAcked(t)
      <3>1. Propose("src", c, ok) /\ GoTo(t, "done", "success", calls)
        BY <1>4, <2>5 DEF Finish
      <3>2. GoodCommand("src", c)
        BY <2>2 DEF GoodCommand, SetParticipantAcked
      <3> HIDE DEF c
      <3> QED  BY <2>1, <2>2, <3>1, <3>2, ProposeAndGo DEF RenamePc
    <2> QED  BY <2>1, <2>3, <2>4, <2>5
  <1> QED  BY <1>1, <1>2, <1>3, <1>4 DEF RenameStep

\* A proposal of the participant, after which an RPC is answered.
LEMMA ProposeAndAnswer ==
    ASSUME RenameInv, NEW c \in calls, NEW ok \in BOOLEAN, NEW answer \in BOOLEAN,
           NEW cmd, GoodCommand("dst", cmd), Propose("dst", cmd, ok),
           answer /\ c.kind = "commit" => Arrived(c.tx),
           ReplyOrResend(c, answer, calls \ {c}), UNCHANGED aged
    PROVE  RenameInv'
  <1> USE DEF RenameInv
  <1>1. StillBegun
    BY ResendBegun
  <1>2. ShardsOK' /\ StillArrived /\ failures' \in 0 .. MaxFailures
    BY <1>1, ProposeKeeps DEF Shard
  <1>3. Without(c, calls \ {c})
    BY DEF Without
  <1>4. RenameOK' /\ CallsOK' /\ TaskOK'
    BY <1>2, <1>3, ResendKeeps
  <1> QED  BY <1>2, <1>4

\* An answer that needs no proposal.
LEMMA AnswerOnly ==
    ASSUME RenameInv, NEW c \in calls, NEW answer \in BOOLEAN,
           answer /\ c.kind = "commit" => Arrived(c.tx), NEW C, Without(c, C),
           ReplyOrResend(c, answer, C), UNCHANGED <<files, records, limbo, aged>>,
           failures' \in 0 .. MaxFailures
    PROVE  RenameInv'
  <1> USE DEF RenameInv
  <1>1. StillBegun
    BY ResendBegun
  <1>2. ShardsOK' /\ StillArrived
    BY <1>1, ShardsRest
  <1>3. RenameOK' /\ CallsOK' /\ TaskOK'
    BY <1>2, ResendKeeps
  <1> QED  BY <1>2, <1>3

\* A handler that goes on without a proposal.
LEMMA ProceedOnly ==
    ASSUME RenameInv, NEW c \in calls, NEW stage \in {"create", "apply"},
           NEW operation \in Content \cup {Nil}, stage = "apply" => operation = Source[c.tx],
           Proceed(c, stage, operation), UNCHANGED <<files, records, limbo, aged, failures>>
    PROVE  RenameInv'
  <1> USE DEF RenameInv
  <1>1. StillBegun
    BY DEF Proceed, StillBegun, Begun
  <1>2. ShardsOK' /\ StillArrived
    BY <1>1, ShardsRest
  <1>3. RenameOK' /\ CallsOK' /\ TaskOK'
    BY <1>2, ProceedKeeps
  <1> QED  BY <1>2, <1>3

\* The handlers of the participant: the answer TRUE to a commit means that the file
\* is there, whether the record says so or this handler has just applied it.
LEMMA CallStepKeeps ==
    ASSUME RenameInv, NEW c \in calls, NEW ok \in BOOLEAN, CallStep(c, ok)
    PROVE  RenameInv'
  <1>1. c \in CallRecord /\ GoodCall(c) /\ c.tx \in Tx /\ Begun(c.tx)
    BY DEF RenameInv, CallsOK, CallRecord, GoodCall
  <1>2. Without(c, calls \ {c})
    BY DEF Without
  <1>3. failures \in 0 .. MaxFailures
    BY DEF RenameInv
  <1>4. CASE PrepareArrives(c)
    <2>1. c.kind = "prepare" /\ UNCHANGED <<files, records, limbo, aged, failures>>
      BY <1>4 DEF PrepareArrives
    <2>2. CASE \E answer \in BOOLEAN : Reply(c, answer, calls \ {c})
      BY <1>2, <1>3, <2>1, <2>2, AnswerOnly DEF ReplyOrResend
    <2>3. CASE Proceed(c, "create", Nil)
      BY <2>1, <2>3, ProceedOnly
    <2> QED  BY <1>4, <2>2, <2>3 DEF PrepareArrives
  <1>5. CASE CommitArrives(c)
    <2> DEFINE r == records["dst"][c.tx]
    <2>1. c.kind = "commit" /\ UNCHANGED <<files, records, limbo, aged, failures>>
      BY <1>5 DEF CommitArrives
    <2>2. r # Nil => r \in Record /\ r.content = Source[c.tx] /\ (r.state = "Committed" => Arrived(c.tx))
      BY <1>1 DEF RenameInv, ShardsOK, RecordsOK, Shard
    <2>3. CASE Reply(c, FALSE, calls \ {c})
      BY <1>2, <1>3, <2>1, <2>3, AnswerOnly DEF ReplyOrResend
    <2>4. CASE r # Nil /\ r.state = "Committed" /\ Reply(c, TRUE, calls \ {c})
      BY <1>2, <1>3, <2>1, <2>2, <2>4, AnswerOnly DEF ReplyOrResend
    <2>5. CASE r # Nil /\ Proceed(c, "apply", r.content)
      <3>1. r.content = Source[c.tx] /\ r.content \in Content
        BY <1>1, <2>2, <2>5, Paths
      <3> HIDE DEF r
      <3> QED  BY <2>1, <2>5, <3>1, ProceedOnly
    <2> QED  BY <1>5, <2>3, <2>4, <2>5 DEF CommitArrives
  <1>6. CASE PrepareRecords(c, ok)
    <2> DEFINE r == NewRecord("Prepared", rename[c.tx].content)
               cmd == CreateTransactionRecord(c.tx, r)
    <2>1. r \in Record /\ r.content = Source[c.tx] /\ r.state # "Committed"
      BY <1>1, Paths DEF NewRecord, Record, TxState, Begun
    <2>2. /\ c.kind = "prepare" /\ Propose("dst", cmd, ok) /\ aged' = aged
          /\ ReplyOrResend(c, ok, calls \ {c})
      BY <1>6 DEF PrepareRecords
    <2> HIDE DEF r
    <2>3. GoodCommand("dst", cmd)
      BY <1>1, <2>1 DEF GoodCommand, CreateTransactionRecord
    <2> HIDE DEF cmd
    <2> QED  BY <2>2, <2>3, ProposeAndAnswer
  <1>7. CASE CommitApplies(c, ok)
    <2> DEFINE cmd == CreateDest(c.tx, c.operation)
    <2>1. /\ c.stage = "apply" /\ Propose("dst", cmd, ok) /\ aged' = aged
          /\ c.operation = Source[c.tx]
      BY <1>1, <1>7 DEF CommitApplies, GoodCall
    <2>2. GoodCommand("dst", cmd)
      BY <1>1, <2>1 DEF GoodCommand, CreateDest
    <2>3. CASE ~ok
      <3>1. ReplyOrResend(c, FALSE, calls \ {c})
        BY <1>7, <2>3 DEF CommitApplies
      <3> HIDE DEF cmd
      <3> QED  BY <2>1, <2>2, <3>1, ProposeAndAnswer
    <2>4. CASE ok
      <3>1. Proceed(c, "update", Nil)
        BY <1>7, <2>4 DEF CommitApplies
      <3>2. StillBegun
        BY <3>1 DEF Proceed, StillBegun, Begun
      <3>3. ShardsOK' /\ StillArrived /\ failures' \in 0 .. MaxFailures
        <4> HIDE DEF cmd
        <4> QED  BY <2>1, <2>2, <3>2, ProposeKeeps DEF RenameInv, Shard
      <3>4. Arrived(c.tx)'
        <4>1. files' = [files EXCEPT !["dst"] = FilesAfter(files["dst"], cmd)]
          BY <2>1, <2>4 DEF Propose, ApplyCommand
        <4>2. cmd.op = "Create" /\ cmd.path = Dest[c.tx] /\ cmd.content = Source[c.tx]
          BY <2>1 DEF CreateDest
        <4>3. Source[c.tx] # Nil
          BY <1>1, Paths
        <4>4. /\ files \in [Shard -> [Path -> Content \cup {Nil}]]
              /\ "dst" \in Shard /\ Dest[c.tx] \in Path
          BY <1>1, Paths DEF RenameInv, ShardsOK, FilesOK, Shard
        <4> HIDE DEF cmd
        <4>5. CASE files["dst"][Dest[c.tx]] = Nil
          BY <4>1, <4>2, <4>3, <4>4, <4>5 DEF FilesAfter, Arrived
        <4>6. CASE files["dst"][Dest[c.tx]] # Nil
          <5>1. Arrived(c.tx)
            BY <4>6 DEF Arrived
          <5> QED  BY <1>1, <3>3, <5>1 DEF StillArrived
        <4> QED  BY <4>5, <4>6
      <3>5. RenameOK' /\ CallsOK' /\ TaskOK'
        BY <3>1, <3>3, <3>4, ProceedKeeps DEF RenameInv
      <3> QED  BY <2>1, <3>3, <3>5 DEF RenameInv
    <2> QED  BY <2>3, <2>4
  <1>8. CASE CommitUpdates(c, ok)
    <2> DEFINE cmd == UpdateTransactionState(c.tx, "Committed")
    <2>1. /\ Arrived(c.tx) /\ Propose("dst", cmd, ok) /\ aged' = aged
          /\ ReplyOrResend(c, TRUE, calls \ {c})
      BY <1>1, <1>8 DEF CommitUpdates, GoodCall, ReplyOrResend
    <2>2. GoodCommand("dst", cmd)
      BY <1>1, <2>1 DEF GoodCommand, UpdateTransactionState, TxState
    <2> HIDE DEF cmd
    <2> QED  BY <2>1, <2>2, ProposeAndAnswer
  <1>9. CASE AbortArrives(c, ok)
    <2> DEFINE cmd == UpdateTransactionState(c.tx, "Aborted")
    <2>1. /\ c.kind = "abort" /\ Propose("dst", cmd, ok) /\ aged' = aged
          /\ ReplyOrResend(c, ok, calls \ {c})
      BY <1>9 DEF AbortArrives
    <2>2. GoodCommand("dst", cmd)
      BY <1>1 DEF GoodCommand, UpdateTransactionState, TxState
    <2> HIDE DEF cmd
    <2> QED  BY <2>1, <2>2, ProposeAndAnswer
  <1> QED  BY <1>4, <1>5, <1>6, <1>7, <1>8, <1>9 DEF CallStep

LEMMA RpcFailsStep ==
    ASSUME RenameInv, NEW c \in calls, RpcFails(c)
    PROVE  RenameInv'
  <1> DEFINE C == (calls \ {c}) \cup {[c EXCEPT !.caller = Nil]}
  <1>1. Without(c, C)
    BY DEF Without
  <1>2. ReplyOrResend(c, FALSE, C) /\ UNCHANGED <<files, records, limbo, aged>>
    BY DEF RpcFails
  <1>3. failures' \in 0 .. MaxFailures
    BY LimitAssumption DEF RpcFails, Fail, RenameInv
  <1> HIDE DEF C
  <1> QED  BY <1>1, <1>2, <1>3, AnswerOnly

\* A round of task k about t that may go on as w.
LEMMA RoundOnly ==
    ASSUME RenameInv, NEW k \in Task, NEW t \in Tx, NEW w \in Round, GoodRound(k, t, w),
           task' = [task EXCEPT ![k][t] = w],
           UNCHANGED <<files, records, limbo, rename, calls, told, aged>>,
           failures' \in 0 .. MaxFailures
    PROVE  RenameInv'
  <1> USE DEF RenameInv
  <1>1. StillBegun
    BY DEF StillBegun, Begun
  <1>2. ShardsOK' /\ StillArrived
    BY <1>1, ShardsRest
  <1>3. RenameOK'
    BY <1>2, RenameRest
  <1>4. CallsOK'
    BY <1>1, <1>2, CallsRest DEF Remaining
  <1>5. TaskOK'
    BY <1>1, <1>2, TaskUpdate
  <1> QED  BY <1>2, <1>3, <1>4, <1>5

\* Proposals that a round may make.
GoodTodo(s, todo) ==
    /\ todo \in Seq(TaskCommand) /\ todo # <<>>
    /\ \A n \in 1 .. Len(todo) : GoodCommand(s, todo[n])

LEMMA OneTodo ==
    ASSUME NEW s, NEW a \in TaskCommand, GoodCommand(s, a)
    PROVE  GoodTodo(s, <<a>>)
  <1>1. <<a>> \in Seq(TaskCommand) /\ <<a>> # <<>> /\ Len(<<a>>) = 1 /\ <<a>>[1] = a
    OBVIOUS
  <1>2. \A n \in 1 .. Len(<<a>>) : n = 1
    BY <1>1
  <1> QED  BY <1>1, <1>2 DEF GoodTodo

LEMMA TwoTodo ==
    ASSUME NEW s, NEW a \in TaskCommand, GoodCommand(s, a), NEW b \in TaskCommand, GoodCommand(s, b)
    PROVE  GoodTodo(s, <<a, b>>)
  <1>1. /\ <<a, b>> \in Seq(TaskCommand) /\ <<a, b>> # <<>> /\ Len(<<a, b>>) = 2
        /\ <<a, b>>[1] = a /\ <<a, b>>[2] = b
    OBVIOUS
  <1>2. \A n \in 1 .. Len(<<a, b>>) : n = 1 \/ n = 2
    BY <1>1
  <1> QED  BY <1>1, <1>2 DEF GoodTodo

LEMMA EmptyTodo ==
    ASSUME NEW s, NEW x, GoodTodo(s, x)
    PROVE  GoodTodo(s, x \o <<>>)
  <1>1. x \o <<>> = x
    BY DEF GoodTodo
  <1> QED  BY <1>1

LEMMA BothTodo ==
    ASSUME NEW s, NEW x, GoodTodo(s, x), NEW y, GoodTodo(s, y)
    PROVE  GoodTodo(s, x \o y)
  <1> DEFINE z == x \o y
  <1>1. x \in Seq(TaskCommand) /\ y \in Seq(TaskCommand)
    BY DEF GoodTodo
  <1>2. /\ z \in Seq(TaskCommand) /\ Len(z) = Len(x) + Len(y)
        /\ \A n \in 1 .. Len(z) : z[n] = IF n <= Len(x) THEN x[n] ELSE y[n - Len(x)]
    BY <1>1
  <1>3. Len(x) \in Nat /\ Len(y) \in Nat /\ Len(x) > 0
    BY <1>1 DEF GoodTodo
  <1>4. \A n \in 1 .. Len(z) : n \in 1 .. Len(x) \/ (n > Len(x) /\ n - Len(x) \in 1 .. Len(y))
    BY <1>2, <1>3
  <1>5. \A n \in 1 .. Len(z) : GoodCommand(s, z[n])
    BY <1>2, <1>3, <1>4 DEF GoodTodo
  <1>6. z # <<>>
    BY <1>2, <1>3
  <1> QED  BY <1>2, <1>5, <1>6 DEF GoodTodo

\* A round starts with good proposals.
LEMMA StartKeeps ==
    ASSUME RenameInv, NEW k \in Task, NEW t \in Tx, NEW todo, GoodTodo(ShardOf(k), todo),
           Start(k, t, todo), UNCHANGED <<files, records, limbo, rename, calls, told, aged>>,
           failures' \in 0 .. MaxFailures
    PROVE  RenameInv'
  <1> DEFINE w == [Idle EXCEPT !.pc = "run", !.todo = todo]
  <1>1. task' = [task EXCEPT ![k][t] = w]
    BY DEF Start, GoodTodo
  <1>2. w \in Round /\ w.pc = "run" /\ w.todo = todo
    BY DEF Idle, Round, GoodTodo
  <1> HIDE DEF w
  <1>3. GoodRound(k, t, w)
    BY <1>2 DEF GoodRound, GoodTodo
  <1> QED  BY <1>1, <1>2, <1>3, RoundOnly

\* A record that is there belongs to a rename that has begun.
LEMMA RecordThere ==
    ASSUME RenameInv, NEW s \in Shard, NEW t \in Tx, records[s][t] # Nil
    PROVE  /\ records[s][t] \in Record /\ Begun(t) /\ records[s][t].content = Source[t]
           /\ records[s][t].state = "Committed" => Arrived(t)
  BY DEF RenameInv, ShardsOK, RecordsOK

LEMMA AbortGood ==
    ASSUME NEW s, NEW t \in Tx, Begun(t)
    PROVE  /\ UpdateTransactionState(t, "Aborted") \in TaskCommand
           /\ GoodCommand(s, UpdateTransactionState(t, "Aborted"))
  BY DEF UpdateTransactionState, TaskCommand, GoodCommand, TxState

LEMMA DeleteRecordGood ==
    ASSUME NEW s, NEW t \in Tx, Begun(t)
    PROVE  /\ DeleteTransactionRecord(t) \in TaskCommand
           /\ GoodCommand(s, DeleteTransactionRecord(t))
  BY DEF DeleteTransactionRecord, TaskCommand, GoodCommand

LEMMA StartRecoveryStep ==
    ASSUME RenameInv, NEW t \in Tx, StartRecovery(t)
    PROVE  RenameInv'
  <1> USE DEF RenameInv
  <1> DEFINE r == records["src"][t]
             w == [Idle EXCEPT !.pc = "commit", !.copy = r]
             n == Call("commit", t, "recovery")
  <1>1. /\ r # Nil /\ task' = [task EXCEPT !["recovery"][t] = w] /\ calls' = calls \cup {n}
        /\ UNCHANGED <<files, records, limbo, rename, aged, told, failures>>
    BY DEF StartRecovery
  <1>2. r \in Record /\ Begun(t)
    BY <1>1, RecordThere DEF Shard
  <1>3. StillBegun
    BY <1>1 DEF StillBegun, Begun
  <1>4. ShardsOK' /\ StillArrived
    BY <1>1, <1>3, ShardsRest
  <1>5. RenameOK'
    BY <1>1, <1>4, RenameRest
  <1>6. CallsOK'
    <2>1. /\ n \in CallRecord /\ n.tx = t /\ n.stage = "arrived" /\ n.caller = "recovery"
          /\ n.kind = "commit"
      BY DEF Call, CallRecord
    <2> HIDE DEF n
    <2>2. GoodCall(n)'
      BY <1>2, <1>3, <2>1 DEF GoodCall, StillBegun
    <2>3. \A d \in calls : GoodCall(d)'
      BY <1>1, <1>3, <1>4 DEF CallsOK, GoodCall, StillBegun, StillArrived, CallRecord
    <2>4. \A c, d \in calls' : c.caller = "rename" /\ d.caller = "rename" /\ c.tx = d.tx => c = d
      BY <1>1, <2>1 DEF CallsOK
    <2> QED  BY <1>1, <2>1, <2>2, <2>3, <2>4 DEF CallsOK
  <1>7. w \in Round /\ GoodRound("recovery", t, w)
    <2>1. Idle \in Round /\ GoodRound("recovery", t, Idle)
      BY IdleRound
    <2>2. w \in Round /\ w.pc = "commit" /\ w.todo = Idle.todo
      BY <1>2, <2>1 DEF Round
    <2> HIDE DEF w
    <2> QED  BY <2>1, <2>2 DEF GoodRound
  <1> HIDE DEF w
  <1>8. TaskOK'
    BY <1>1, <1>3, <1>4, <1>7, TaskUpdate DEF Task
  <1> QED  BY <1>1, <1>4, <1>5, <1>6, <1>8

LEMMA StartCoordinatorCleanupStep ==
    ASSUME RenameInv, NEW t \in Tx, StartCoordinatorCleanup(t)
    PROVE  RenameInv'
  <1>1. /\ records["src"][t] # Nil
        /\ UNCHANGED <<files, records, limbo, rename, calls, aged, told, failures>>
        /\ \/ Start("cleanup_src", t, <<UpdateTransactionState(t, "Aborted")>>)
           \/ Start("cleanup_src", t, <<DeleteTransactionRecord(t)>>)
    BY DEF StartCoordinatorCleanup
  <1>2. Begun(t) /\ "cleanup_src" \in Task
    BY <1>1, RecordThere DEF Shard, Task
  <1>3. /\ GoodTodo(ShardOf("cleanup_src"), <<UpdateTransactionState(t, "Aborted")>>)
        /\ GoodTodo(ShardOf("cleanup_src"), <<DeleteTransactionRecord(t)>>)
    BY <1>2, AbortGood, DeleteRecordGood, OneTodo
  <1>4. failures' \in 0 .. MaxFailures
    BY <1>1 DEF RenameInv
  <1> QED  BY <1>1, <1>2, <1>3, <1>4, StartKeeps

LEMMA StartParticipantCleanupStep ==
    ASSUME RenameInv, NEW t \in Tx, StartParticipantCleanup(t)
    PROVE  RenameInv'
  <1> DEFINE r == records["dst"][t]
             w == [Idle EXCEPT !.pc = "inquire", !.copy = r]
  <1>1. /\ r # Nil
        /\ UNCHANGED <<files, records, limbo, rename, calls, aged, told, failures>>
        /\ \/ task' = [task EXCEPT !["cleanup_dst"][t] = w]
           \/ Start("cleanup_dst", t, <<DeleteTransactionRecord(t)>>)
    BY DEF StartParticipantCleanup
  <1>2. Begun(t) /\ r \in Record /\ r.content = Source[t] /\ "cleanup_dst" \in Task
    BY <1>1, RecordThere DEF Shard, Task
  <1>3. GoodTodo(ShardOf("cleanup_dst"), <<DeleteTransactionRecord(t)>>)
    BY <1>2, DeleteRecordGood, OneTodo
  <1>4. w \in Round /\ GoodRound("cleanup_dst", t, w)
    <2>1. Idle \in Round /\ GoodRound("cleanup_dst", t, Idle)
      BY IdleRound
    <2>2. w \in Round /\ w.pc = "inquire" /\ w.todo = Idle.todo /\ w.copy = r
      BY <1>2, <2>1 DEF Round
    <2> HIDE DEF w, r
    <2> QED  BY <1>1, <1>2, <2>1, <2>2 DEF GoodRound
  <1> HIDE DEF w
  <1>5. failures' \in 0 .. MaxFailures
    BY <1>1 DEF RenameInv
  <1> QED  BY <1>1, <1>2, <1>3, <1>4, <1>5, StartKeeps, RoundOnly

\* What the participant does about an answer to its inquiry it may do: COMMITTED is
\* answered only by a coordinator whose record is right.
LEMMA InquiryTodoGood ==
    ASSUME RenameInv, NEW t \in Tx, Begun(t), NEW copy, copy.content = Source[t]
    PROVE  GoodTodo("dst", InquiryTodo(t, copy))
  <1> DEFINE a == UpdateTransactionState(t, "Aborted")
             m == UpdateTransactionState(t, "Committed")
             d == CreateDest(t, copy.content)
             i == IncrementInquiryCount(t)
  <1>1. a \in TaskCommand /\ GoodCommand("dst", a)
    BY AbortGood
  <1>2. i \in TaskCommand /\ GoodCommand("dst", i)
    BY DEF IncrementInquiryCount, TaskCommand, GoodCommand
  <1>3. d \in TaskCommand /\ GoodCommand("dst", d)
    BY Paths DEF CreateDest, TaskCommand, GoodCommand
  <1>4. CASE InquiryStatus(t) = "COMMITTED"
    <2>1. Arrived(t)
      BY <1>4, RecordThere DEF InquiryStatus, Shard
    <2>2. m \in TaskCommand /\ GoodCommand("dst", m)
      BY <2>1 DEF UpdateTransactionState, TaskCommand, GoodCommand, TxState
    <2>3. InquiryTodo(t, copy) = <<d, m>>
      BY <1>4 DEF InquiryTodo
    <2> HIDE DEF d, m
    <2> QED  BY <1>3, <2>2, <2>3, TwoTodo
  <1>5. CASE InquiryStatus(t) = "ABORTED"
    <2>1. InquiryTodo(t, copy) = <<a>>
      BY <1>5 DEF InquiryTodo
    <2> HIDE DEF a
    <2> QED  BY <1>1, <2>1, OneTodo
  <1>6. CASE InquiryStatus(t) = "UNKNOWN"
    <2>1. \/ InquiryTodo(t, copy) = <<i>> \o <<a>>
          \/ InquiryTodo(t, copy) = <<i>> \o <<>>
      BY <1>6 DEF InquiryTodo
    <2> HIDE DEF i, a
    <2>2. GoodTodo("dst", <<i>>) /\ GoodTodo("dst", <<a>>)
      BY <1>1, <1>2, OneTodo
    <2>3. GoodTodo("dst", <<i>> \o <<a>>) /\ GoodTodo("dst", <<i>> \o <<>>)
      BY <2>2, BothTodo, EmptyTodo
    <2> QED  BY <2>1, <2>3
  <1> QED  BY <1>4, <1>5, <1>6 DEF InquiryStatus

LEMMA InquireStep ==
    ASSUME RenameInv, NEW t \in Tx, NEW ok \in BOOLEAN, Inquire(t, ok)
    PROVE  RenameInv'
  <1> DEFINE w == task["cleanup_dst"][t]
  <1>1. /\ w.pc = "inquire" /\ "cleanup_dst" \in Task
        /\ UNCHANGED <<files, records, limbo, rename, calls, aged, told>>
    BY DEF Inquire, Task
  <1>2. Begun(t) /\ w.copy.content = Source[t]
    BY <1>1 DEF RenameInv, TaskOK, GoodRound
  <1>3. CASE ok
    <2>1. Start("cleanup_dst", t, InquiryTodo(t, w.copy)) /\ failures' = failures
      BY <1>3 DEF Inquire
    <2>2. GoodTodo(ShardOf("cleanup_dst"), InquiryTodo(t, w.copy))
      BY <1>2, InquiryTodoGood DEF ShardOf
    <2>3. failures' \in 0 .. MaxFailures
      BY <2>1 DEF RenameInv
    <2> QED  BY <1>1, <2>1, <2>2, <2>3, StartKeeps
  <1>4. CASE ~ok
    <2>1. task' = [task EXCEPT !["cleanup_dst"][t] = Idle] /\ Fail
      BY <1>4 DEF Inquire
    <2>2. failures' \in 0 .. MaxFailures
      BY <2>1, LimitAssumption DEF RenameInv, Fail
    <2> QED  BY <1>1, <2>1, <2>2, IdleRound, RoundOnly
  <1> QED  BY <1>3, <1>4

\* A round that has made its first proposal may make the others.
LEMMA TailTodo ==
    ASSUME NEW s, NEW todo, GoodTodo(s, todo)
    PROVE  /\ GoodCommand(s, Head(todo))
           /\ Len(todo) # 1 => GoodTodo(s, Tail(todo))
  <1>1. Len(todo) \in Nat /\ Len(todo) >= 1 /\ Head(todo) = todo[1]
    BY DEF GoodTodo
  <1>2. GoodCommand(s, Head(todo))
    BY <1>1 DEF GoodTodo
  <1>3. ASSUME Len(todo) # 1
        PROVE  GoodTodo(s, Tail(todo))
    <2>1. /\ Tail(todo) \in Seq(TaskCommand) /\ Len(Tail(todo)) = Len(todo) - 1
          /\ \A n \in 1 .. Len(todo) - 1 : Tail(todo)[n] = todo[n + 1]
      BY <1>1, <1>3 DEF GoodTodo
    <2>2. Tail(todo) # <<>>
      BY <1>1, <1>3, <2>1
    <2>3. \A n \in 1 .. Len(Tail(todo)) : n + 1 \in 1 .. Len(todo)
      BY <1>1, <2>1
    <2>4. \A n \in 1 .. Len(Tail(todo)) : GoodCommand(s, Tail(todo)[n])
      BY <2>1, <2>3 DEF GoodTodo
    <2> QED  BY <2>1, <2>2, <2>4 DEF GoodTodo
  <1> QED  BY <1>2, <1>3

LEMMA RunTaskStep ==
    ASSUME RenameInv, NEW k \in Task, NEW t \in Tx, NEW ok \in BOOLEAN,
           RunTask(k, t, ok)
    PROVE  RenameInv'
  <1> USE DEF RenameInv
  <1> DEFINE w == task[k][t]
             w1 == IF Len(w.todo) = 1 THEN Idle ELSE [w EXCEPT !.todo = Tail(w.todo)]
  <1>1. /\ w.pc = "run" /\ Propose(ShardOf(k), Head(w.todo), ok)
        /\ task' = [task EXCEPT ![k][t] = w1] /\ UNCHANGED <<rename, calls, aged, told>>
    BY DEF RunTask, ShardOf
  <1>2. w \in Round /\ GoodRound(k, t, w)
    BY DEF TaskOK
  <1>3. GoodTodo(ShardOf(k), w.todo)
    BY <1>1, <1>2 DEF GoodRound, GoodTodo, Round
  <1>4. GoodCommand(ShardOf(k), Head(w.todo))
    BY <1>3, TailTodo
  <1>5. StillBegun
    BY <1>1 DEF StillBegun, Begun
  <1>6. ShardsOK' /\ StillArrived /\ failures' \in 0 .. MaxFailures
    BY <1>1, <1>4, <1>5, ProposeKeeps DEF ShardOf, Shard
  <1>7. w1 \in Round /\ GoodRound(k, t, w1)
    <2>1. CASE Len(w.todo) = 1
      BY <2>1, IdleRound
    <2>2. CASE Len(w.todo) # 1
      <3>1. GoodTodo(ShardOf(k), Tail(w.todo))
        BY <1>3, <2>2, TailTodo
      <3>2. w1 \in Round /\ w1.pc = "run" /\ w1.todo = Tail(w.todo)
        BY <1>1, <1>2, <2>2, <3>1 DEF Round, GoodTodo
      <3> HIDE DEF w1
      <3> QED  BY <3>1, <3>2 DEF GoodRound, GoodTodo
    <2> QED  BY <2>1, <2>2
  <1> HIDE DEF w1
  <1>8. TaskOK'
    BY <1>1, <1>5, <1>6, <1>7, TaskUpdate
  <1>9. RenameOK' /\ CallsOK'
    BY <1>1, <1>5, <1>6, RenameRest, CallsRest DEF Remaining
  <1> QED  BY <1>1, <1>6, <1>8, <1>9

\* A proposal that failed for its proposer is applied after all.
LEMMA CommitLateStep ==
    ASSUME RenameInv, CommitLate
    PROVE  RenameInv'
  <1> USE DEF RenameInv
  <1>1. PICK p \in limbo : ApplyCommand(p[1], p[2]) /\ limbo' = limbo \ {p}
    BY DEF CommitLate
  <1>2. UNCHANGED <<rename, calls, task, aged, told, failures>>
    BY DEF CommitLate
  <1>3. p[1] \in Shard /\ GoodCommand(p[1], p[2])
    BY DEF ShardsOK, LimboOK
  <1>4. StillBegun
    BY <1>2 DEF StillBegun, Begun
  <1>5. FilesOK' /\ StillArrived
    BY <1>1, <1>3, ApplyFiles DEF ShardsOK
  <1>6. RecordsOK'
    BY <1>1, <1>3, <1>4, <1>5, ApplyRecords DEF ShardsOK
  <1>7. LimboOK'
    BY <1>1, <1>4, <1>5, GoodStays DEF ShardsOK, LimboOK
  <1>8. RenameOK' /\ CallsOK' /\ TaskOK'
    BY <1>2, <1>4, <1>5, RenameRest, CallsRest, TaskRest DEF Remaining
  <1> QED  BY <1>2, <1>5, <1>6, <1>7, <1>8 DEF ShardsOK

LEMMA CrashCoordinatorStep ==
    ASSUME RenameInv, CrashCoordinator
    PROVE  RenameInv'
  <1> USE DEF RenameInv
  <1>1. UNCHANGED <<files, records, limbo, aged>> /\ failures' \in 0 .. MaxFailures
    BY LimitAssumption DEF CrashCoordinator, Fail
  <1>2. /\ rename' \in [Tx -> [pc : RenamePc, content : Content \cup {Nil}]]
        /\ \A t \in Tx : /\ rename'[t].content = rename[t].content
                         /\ rename'[t].pc \in {"idle", "done"}
    BY DEF CrashCoordinator, RenameOK, RenamePc
  <1>3. StillBegun
    BY <1>2 DEF StillBegun, Begun
  <1>4. ShardsOK' /\ StillArrived
    BY <1>1, <1>3, ShardsRest
  <1>5. /\ told' \in [Tx -> {Nil, "success", "failure", "pending", "crashed"}]
        /\ \A t \in Tx : told'[t] \in {"crashed", told[t]}
    BY DEF CrashCoordinator, RenameOK
  <1>6. RenameOK'
    BY <1>2, <1>3, <1>4, <1>5 DEF RenameOK, StillBegun, StillArrived
  <1>7. CallsOK'
    <2>1. calls' = {[c EXCEPT !.caller = Nil] : c \in calls}
      BY DEF CrashCoordinator
    <2>2. Remaining(calls') /\ \A d \in calls' : d.caller = Nil
      BY <2>1 DEF Remaining, CallsOK, CallRecord
    <2>3. \A d \in calls' : d \in CallRecord /\ GoodCall(d) /\ d.caller \notin {"rename", "recovery"}
      BY <2>2, RemainingGood, NilAssumption
    <2>4. \A d \in calls' : GoodCall(d)'
      BY <1>3, <1>4, <2>3 DEF GoodCall, StillBegun, StillArrived, CallRecord
    <2> QED  BY <2>3, <2>4 DEF CallsOK
  <1>8. TaskOK'
    <2>1. task' = [task EXCEPT !["recovery"] = [t \in Tx |-> Idle],
                               !["cleanup_src"] = [t \in Tx |-> Idle]]
      BY DEF CrashCoordinator
    <2>2. task' \in [Task -> [Tx -> Round]]
      BY <2>1, IdleRound DEF TaskOK
    <2>3. \A k \in Task, t \in Tx : task'[k][t] \in {Idle, task[k][t]}
      BY <2>1 DEF TaskOK
    <2>4. ASSUME NEW k \in Task, NEW t \in Tx
          PROVE  GoodRound(k, t, task[k][t])'
      <3>1. GoodRound(k, t, task'[k][t])
        BY <2>3, IdleRound DEF TaskOK
      <3> QED  BY <1>3, <1>4, <3>1, GoodStays DEF GoodRound, StillBegun, ShardOf
    <2> QED  BY <2>2, <2>4 DEF TaskOK
  <1> QED  BY <1>1, <1>4, <1>6, <1>7, <1>8

LEMMA CrashParticipantStep ==
    ASSUME RenameInv, CrashParticipant
    PROVE  RenameInv'
  <1> USE DEF RenameInv
  <1>1. /\ UNCHANGED <<files, records, limbo, rename, calls, aged, told>>
        /\ failures' \in 0 .. MaxFailures
    BY LimitAssumption DEF CrashParticipant, Fail
  <1>2. StillBegun
    BY <1>1 DEF StillBegun, Begun
  <1>3. ShardsOK' /\ StillArrived
    BY <1>1, <1>2, ShardsRest
  <1>4. RenameOK' /\ CallsOK'
    BY <1>1, <1>2, <1>3, RenameRest, CallsRest DEF Remaining
  <1>5. TaskOK'
    <2>1. task' = [task EXCEPT !["cleanup_dst"] = [t \in Tx |-> Idle]]
      BY DEF CrashParticipant
    <2>2. task' \in [Task -> [Tx -> Round]]
      BY <2>1, IdleRound DEF TaskOK
    <2>3. \A k \in Task, t \in Tx : task'[k][t] \in {Idle, task[k][t]}
      BY <2>1 DEF TaskOK
    <2>4. ASSUME NEW k \in Task, NEW t \in Tx
          PROVE  GoodRound(k, t, task[k][t])'
      <3>1. GoodRound(k, t, task'[k][t])
        BY <2>3, IdleRound DEF TaskOK
      <3> QED  BY <1>2, <1>3, <3>1, GoodStays DEF GoodRound, StillBegun, ShardOf
    <2> QED  BY <2>2, <2>4 DEF TaskOK
  <1> QED  BY <1>1, <1>3, <1>4, <1>5

LEMMA AgeStep ==
    ASSUME RenameInv, NEW t \in Tx, Age(t)
    PROVE  RenameInv'
  <1> USE DEF RenameInv
  <1>1. /\ UNCHANGED <<files, records, rename, calls, task, told, failures>>
        /\ limbo' \subseteq limbo /\ aged' \subseteq Tx
    BY DEF Age
  <1>2. StillBegun
    BY <1>1 DEF StillBegun, Begun
  <1>3. ShardsOK' /\ StillArrived
    BY <1>1, <1>2, ShardsRest
  <1>4. RenameOK' /\ CallsOK' /\ TaskOK'
    BY <1>1, <1>2, <1>3, RenameRest, CallsRest, TaskRest DEF Remaining
  <1> QED  BY <1>1, <1>3, <1>4

LEMMA StutterStep ==
    ASSUME RenameInv, UNCHANGED vars
    PROVE  RenameInv'
  <1> USE DEF RenameInv, vars
  <1>1. StillBegun
    BY DEF StillBegun, Begun
  <1>2. ShardsOK' /\ StillArrived
    BY <1>1, ShardsRest
  <1>3. RenameOK' /\ CallsOK' /\ TaskOK'
    BY <1>1, <1>2, RenameRest, CallsRest, TaskRest DEF Remaining
  <1> QED  BY <1>2, <1>3

LEMMA NextKeeps ==
    ASSUME RenameInv, [Next]_vars
    PROVE  RenameInv'
  <1>1. ASSUME NEW t \in Tx, BeginRename(t)
        PROVE  RenameInv'
    BY <1>1, BeginRenameStep
  <1>2. ASSUME NEW t \in Tx, NEW ok \in BOOLEAN, RenameStep(t, ok)
        PROVE  RenameInv'
    BY <1>2, RenameStepKeeps
  <1>3. ASSUME NEW t \in Tx, NEW ok \in BOOLEAN, TaskStep(t, ok)
        PROVE  RenameInv'
    BY <1>3, InquireStep, RunTaskStep DEF TaskStep
  <1>4. ASSUME NEW t \in Tx, StartRecovery(t)
        PROVE  RenameInv'
    BY <1>4, StartRecoveryStep
  <1>5. ASSUME NEW t \in Tx, StartCoordinatorCleanup(t) \/ StartParticipantCleanup(t)
        PROVE  RenameInv'
    BY <1>5, StartCoordinatorCleanupStep, StartParticipantCleanupStep
  <1>6. ASSUME NEW t \in Tx, Age(t)
        PROVE  RenameInv'
    BY <1>6, AgeStep
  <1>7. ASSUME NEW c \in calls, RpcFails(c)
        PROVE  RenameInv'
    BY <1>7, RpcFailsStep
  <1>8. ASSUME NEW c \in calls, NEW ok \in BOOLEAN, CallStep(c, ok)
        PROVE  RenameInv'
    BY <1>8, CallStepKeeps
  <1>9. CASE CommitLate \/ CrashCoordinator \/ CrashParticipant
    BY <1>9, CommitLateStep, CrashCoordinatorStep, CrashParticipantStep
  <1>10. CASE UNCHANGED vars
    BY <1>10, StutterStep
  <1> QED
    BY <1>1, <1>2, <1>3, <1>4, <1>5, <1>6, <1>7, <1>8, <1>9, <1>10 DEF Next

-----------------------------------------------------------------------------
(* The garbage collection of the coordinator's records.                    *)

\* The commands about t that a background task of the coordinator has queued ...
Queued(t) == {task["recovery"][t].todo[n] : n \in 1 .. Len(task["recovery"][t].todo)}
        \cup {task["cleanup_src"][t].todo[n] : n \in 1 .. Len(task["cleanup_src"][t].todo)}

\* ... and those that the coordinator's shard may still be given.
Coming(t) == Queued(t) \cup {p[2] : p \in {q \in limbo : q[1] = "src" /\ q[2].tx = t}}

\* An hour after t nothing of its handler is left, so its record has taken one of
\* two ways: to Aborted, or by the recovery task to Committed and acknowledged.  The
\* commands still coming lead along the way it is on, never across, and the record
\* is only to be deleted at the end of it.
GuardOK(t) ==
    LET r == records["src"][t]
    IN  /\ \A c \in Queued(t) : c.tx = t
        /\ t \notin aged => \A c \in Coming(t) : c.op # "DeleteTransactionRecord"
        /\ t \in aged =>
             /\ rename[t].pc = "done"
             /\ \A c \in calls : c.tx = t => c.caller # "rename"
             /\ \A c \in Coming(t) :
                  /\ c.op # "CreateTransactionRecord"
                  /\ c.op = "UpdateTransactionState" => c.state \in {"Aborted", "Committed"}
             /\ (r # Nil /\ r.state \in {"Pending", "Aborted"}) =>
                  /\ \A c \in calls : c.tx = t => c.caller # "recovery"
                  /\ \A c \in Coming(t) : c.op = "UpdateTransactionState" => c.state = "Aborted"
             /\ (r # Nil /\ r.state \in {"Prepared", "Committed"}) =>
                  \A c \in Coming(t) :
                    /\ c.op = "UpdateTransactionState" => c.state = "Committed"
                    /\ c.op = "DeleteTransactionRecord" =>
                         r.state = "Committed" /\ r.participant_acked

GuardInv == RenameInv /\ \A t \in Tx : GuardOK(t)

\* What a step may do to the coordinator's record of t, to the commands coming for it
\* and to the RPCs about t.
GuardStep(t) ==
    LET r == records["src"][t]
    IN  /\ t \in aged' <=> t \in aged
        /\ \/ records'["src"][t] = r
           \/ \E c : /\ c \in Coming(t) \/ (/\ rename[t].pc # "done"
                                            /\ c.op # "DeleteTransactionRecord")
                     /\ c.tx = t /\ GoodCommand("src", c)
                     /\ records'["src"][t] = RecordsAfter(records["src"], c)[t]
                     /\ rename[t].pc = "done" => Coming(t)' \subseteq Coming(t)
        /\ \A c \in Queued(t)' : c.tx = t
        /\ \A c \in Coming(t)' :
             \/ c \in Coming(t)
             \/ rename[t].pc # "done" /\ c.op # "DeleteTransactionRecord"
             \/ /\ c.op = "UpdateTransactionState" /\ c.state = "Aborted"
                /\ records'["src"][t] = r /\ r # Nil /\ r.state = "Pending"
             \/ /\ c.op = "DeleteTransactionRecord" /\ t \in aged
                /\ records'["src"][t] = r /\ r # Nil
                /\ r.state = "Aborted" \/ (r.state = "Committed" /\ r.participant_acked)
             \/ /\ \/ c.op \in {"Delete", "SetParticipantAcked"}
                   \/ c.op = "UpdateTransactionState" /\ c.state = "Committed"
                /\ \E d \in calls : d.tx = t /\ d.caller = "recovery"
                /\ records'["src"][t] = r
        /\ \A c \in calls' : c.tx = t =>
             \/ c.caller = Nil
             \/ \E d \in calls : d.tx = t /\ d.caller = c.caller
             \/ rename[t].pc # "done" /\ c.caller = "rename"
             \/ /\ c.caller = "recovery" /\ records'["src"][t] = r
                /\ r # Nil /\ r.state \in {"Prepared", "Committed"}
        /\ rename[t].pc = "done" => rename'[t].pc = "done"

\* A command changes the record it is about, as its name says, and no other.
LEMMA RecordAfter ==
    ASSUME NEW R \in [Tx -> Record \cup {Nil}], NEW c, GoodCommand("src", c), NEW t \in Tx
    PROVE  /\ t # c.tx => RecordsAfter(R, c)[t] = R[t]
           /\ c.op = "CreateTransactionRecord" => RecordsAfter(R, c)[c.tx] # Nil
           /\ c.op # "CreateTransactionRecord" /\ R[c.tx] = Nil => RecordsAfter(R, c)[c.tx] = Nil
           /\ c.op # "CreateTransactionRecord" /\ R[c.tx] # Nil =>
                \/ c.op = "DeleteTransactionRecord" /\ RecordsAfter(R, c)[c.tx] = Nil
                \/ /\ c.op # "DeleteTransactionRecord" /\ RecordsAfter(R, c)[c.tx] # Nil
                   /\ RecordsAfter(R, c)[c.tx].state =
                        IF c.op = "UpdateTransactionState" THEN c.state ELSE R[c.tx].state
                   /\ R[c.tx].participant_acked => RecordsAfter(R, c)[c.tx].participant_acked
  <1> SUFFICES
        ASSUME NEW t0, t0 = c.tx, NEW N, N = RecordsAfter(R, c)
        PROVE  /\ t # t0 => N[t] = R[t]
               /\ c.op = "CreateTransactionRecord" => N[t0] # Nil
               /\ c.op # "CreateTransactionRecord" /\ R[t0] = Nil => N[t0] = Nil
               /\ c.op # "CreateTransactionRecord" /\ R[t0] # Nil =>
                    \/ c.op = "DeleteTransactionRecord" /\ N[t0] = Nil
                    \/ /\ c.op # "DeleteTransactionRecord" /\ N[t0] # Nil
                       /\ N[t0].state =
                            IF c.op = "UpdateTransactionState" THEN c.state ELSE R[t0].state
                       /\ R[t0].participant_acked => N[t0].participant_acked
    OBVIOUS
  <1>0. /\ t0 \in Tx /\ (c.op = "CreateTransactionRecord" => c.record \in Record)
        /\ c.op = "UpdateTransactionState" => c.state \in TxState
    BY DEF GoodCommand
  <1>1. CASE c.op = "CreateTransactionRecord"
    <2>1. N = [R EXCEPT ![t0] = c.record]
      BY <1>1 DEF RecordsAfter
    <2>2. N[t0] = c.record /\ (t # t0 => N[t] = R[t])
      BY <1>0, <2>1
    <2> QED  BY <1>0, <1>1, <2>2, RecordAssumption
  <1>2. CASE c.op # "CreateTransactionRecord" /\ R[t0] = Nil
    <2>1. N = R
      BY <1>2 DEF RecordsAfter
    <2> QED  BY <1>2, <2>1
  <1>3. ASSUME c.op # "CreateTransactionRecord", R[t0] # Nil,
               NEW r1 \in Record, N = [R EXCEPT ![t0] = r1], c.op # "DeleteTransactionRecord",
               r1.state = IF c.op = "UpdateTransactionState" THEN c.state ELSE R[t0].state,
               R[t0].participant_acked => r1.participant_acked
        PROVE  /\ t # t0 => N[t] = R[t]
               /\ N[t0] # Nil
               /\ N[t0].state = IF c.op = "UpdateTransactionState" THEN c.state ELSE R[t0].state
               /\ R[t0].participant_acked => N[t0].participant_acked
    <2>1. N[t0] = r1 /\ (t # t0 => N[t] = R[t])
      BY <1>0, <1>3
    <2> QED  BY <1>3, <2>1, RecordAssumption
  <1>4. CASE c.op # "CreateTransactionRecord" /\ R[t0] # Nil
    <2>1. R[t0] \in Record
      BY <1>0, <1>4
    <2>2. CASE c.op = "UpdateTransactionState"
      <3> DEFINE r1 == [R[t0] EXCEPT !.state = c.state]
      <3>1. N = [R EXCEPT ![t0] = r1]
        BY <1>4, <2>2 DEF RecordsAfter
      <3>2. r1 \in Record /\ r1.state = c.state /\ r1.participant_acked = R[t0].participant_acked
        BY <1>0, <2>1, <2>2 DEF Record
      <3> HIDE DEF r1
      <3> QED  BY <1>3, <1>4, <2>2, <3>1, <3>2
    <2>3. CASE c.op = "SetParticipantAcked"
      <3> DEFINE r1 == [R[t0] EXCEPT !.participant_acked = TRUE]
      <3>1. N = [R EXCEPT ![t0] = r1]
        BY <1>4, <2>3 DEF RecordsAfter
      <3>2. r1 \in Record /\ r1.state = R[t0].state /\ r1.participant_acked
        BY <2>1 DEF Record
      <3> HIDE DEF r1
      <3> QED  BY <1>3, <1>4, <2>3, <3>1, <3>2
    <2>4. CASE c.op = "IncrementInquiryCount"
      <3> DEFINE r1 == [R[t0] EXCEPT !.inquiry_count = R[t0].inquiry_count + 1]
      <3>1. N = [R EXCEPT ![t0] = r1]
        BY <1>4, <2>4 DEF RecordsAfter
      <3>2. /\ r1 \in Record /\ r1.state = R[t0].state
            /\ r1.participant_acked = R[t0].participant_acked
        BY <2>1 DEF Record
      <3> HIDE DEF r1
      <3> QED  BY <1>3, <1>4, <2>4, <3>1, <3>2
    <2>5. CASE c.op = "DeleteTransactionRecord"
      <3>1. N = [R EXCEPT ![t0] = Nil]
        BY <1>4, <2>5 DEF RecordsAfter
      <3>2. N[t0] = Nil /\ (t # t0 => N[t] = R[t])
        BY <1>0, <3>1
      <3> QED  BY <1>4, <2>5, <3>2
    <2>6. CASE c.op \notin {"UpdateTransactionState", "SetParticipantAcked",
                            "IncrementInquiryCount", "DeleteTransactionRecord"}
      <3>1. N = R
        BY <1>4, <2>6 DEF RecordsAfter
      <3> QED  BY <1>4, <2>6, <3>1
    <2> QED  BY <2>2, <2>3, <2>4, <2>5, <2>6
  <1> QED  BY <1>1, <1>2, <1>4

\* The guard holds after every such step, and the record was not deleted too early.
LEMMA GuardKeeps ==
    ASSUME NEW t \in Tx, RecordsOK, GuardOK(t), GuardStep(t)
    PROVE  /\ GuardOK(t)'
           /\ LET r == records["src"][t] IN
                r # Nil /\ r.state = "Committed" /\ ~r.participant_acked
                  => records'["src"][t] # Nil
  <1> DEFINE r == records["src"][t]
             r2 == records'["src"][t]
  <1>1. /\ t \in aged' <=> t \in aged
        /\ records["src"] \in [Tx -> Record \cup {Nil}]
        /\ r \in Record \cup {Nil}
    BY DEF GuardStep, RecordsOK, Shard
  <1>2. ASSUME NEW c, GoodCommand("src", c), c.tx = t, r2 = RecordsAfter(records["src"], c)[t]
        PROVE  /\ c.op = "CreateTransactionRecord" => r2 # Nil
               /\ c.op # "CreateTransactionRecord" /\ r = Nil => r2 = Nil
               /\ c.op # "CreateTransactionRecord" /\ r # Nil =>
                    \/ c.op = "DeleteTransactionRecord" /\ r2 = Nil
                    \/ /\ c.op # "DeleteTransactionRecord" /\ r2 # Nil
                       /\ r2.state = IF c.op = "UpdateTransactionState" THEN c.state ELSE r.state
                       /\ r.participant_acked => r2.participant_acked
    BY <1>1, <1>2, RecordAfter
  <1>3. CASE t \notin aged
    <2>1. \A c \in Coming(t)' : c.op # "DeleteTransactionRecord"
      BY <1>3 DEF GuardOK, GuardStep
    <2>2. GuardOK(t)'
      BY <1>1, <1>3, <2>1 DEF GuardOK, GuardStep
    <2>3. ASSUME r # Nil
          PROVE  r2 # Nil
      <3>1. CASE r2 = r
        BY <2>3, <3>1
      <3>2. CASE r2 # r
        <4>1. PICK c : /\ c.op # "DeleteTransactionRecord" /\ c.tx = t /\ GoodCommand("src", c)
                       /\ r2 = RecordsAfter(records["src"], c)[t]
          BY <1>3, <3>2 DEF GuardOK, GuardStep
        <4> HIDE DEF r, r2
        <4> QED  BY <1>2, <2>3, <4>1
      <3> QED  BY <3>1, <3>2
    <2> QED  BY <2>2, <2>3
  <1>4. CASE t \in aged
    <2>1. /\ rename[t].pc = "done" /\ rename'[t].pc = "done"
          /\ \A c \in calls' : c.tx = t => c.caller # "rename"
          /\ \A c \in Queued(t)' : c.tx = t
      BY <1>4, NilAssumption DEF GuardOK, GuardStep
    <2>2. \A c \in Coming(t)' :
            /\ c.op # "CreateTransactionRecord"
            /\ c.op = "UpdateTransactionState" => c.state \in {"Aborted", "Committed"}
      BY <1>4, <2>1 DEF GuardOK, GuardStep
    <2>3. CASE r2 = r
      <3>1. ASSUME r # Nil, r.state \in {"Pending", "Aborted"}
            PROVE  /\ \A c \in calls' : c.tx = t => c.caller # "recovery"
                   /\ \A c \in Coming(t)' : c.op = "UpdateTransactionState" => c.state = "Aborted"
        BY <1>4, <2>1, <3>1, NilAssumption DEF GuardOK, GuardStep
      <3>2. ASSUME r # Nil, r.state \in {"Prepared", "Committed"}
            PROVE  \A c \in Coming(t)' :
                     /\ c.op = "UpdateTransactionState" => c.state = "Committed"
                     /\ c.op = "DeleteTransactionRecord" =>
                          r.state = "Committed" /\ r.participant_acked
        BY <1>4, <2>1, <3>2 DEF GuardOK, GuardStep
      <3>3. GuardOK(t)'
        BY <1>1, <1>4, <2>1, <2>2, <2>3, <3>1, <3>2 DEF GuardOK
      <3> QED  BY <2>3, <3>3
    <2>4. CASE r2 # r
      <3>1. PICK c : /\ c \in Coming(t) /\ c.tx = t /\ GoodCommand("src", c)
                     /\ r2 = RecordsAfter(records["src"], c)[t]
                     /\ Coming(t)' \subseteq Coming(t)
        BY <2>1, <2>4 DEF GuardStep
      <3>2. c.op # "CreateTransactionRecord"
        BY <1>4, <3>1 DEF GuardOK
      <3>3. r # Nil
        <4> HIDE DEF r, r2
        <4> QED  BY <1>2, <2>4, <3>1, <3>2
      <3>4. CASE c.op = "DeleteTransactionRecord"
        <4>1. r2 = Nil
          <5> HIDE DEF r, r2
          <5> QED  BY <1>2, <3>1, <3>2, <3>3, <3>4
        <4>2. r.state = "Committed" => r.participant_acked
          BY <1>4, <3>1, <3>3, <3>4 DEF GuardOK
        <4>3. GuardOK(t)'
          BY <1>1, <1>4, <2>1, <2>2, <4>1 DEF GuardOK
        <4> QED  BY <4>2, <4>3
      <3>5. CASE c.op # "DeleteTransactionRecord"
        <4>1. /\ r2 # Nil /\ (r.participant_acked => r2.participant_acked)
              /\ r2.state = IF c.op = "UpdateTransactionState" THEN c.state ELSE r.state
          <5> HIDE DEF r, r2
          <5> QED  BY <1>2, <3>1, <3>2, <3>3, <3>5
        <4>2. r.state \in TxState
          BY <1>1, <3>3 DEF Record
        <4>3. CASE r.state \in {"Pending", "Aborted"}
          <5>1. /\ \A d \in calls : d.tx = t => d.caller # "recovery"
                /\ \A d \in Coming(t) : d.op = "UpdateTransactionState" => d.state = "Aborted"
            BY <1>4, <3>3, <4>3 DEF GuardOK
          <5>2. r2.state \in {"Pending", "Aborted"}
            BY <3>1, <4>1, <4>3, <5>1
          <5>3. \A d \in calls' : d.tx = t => d.caller # "recovery"
            BY <2>1, <2>4, <5>1, NilAssumption DEF GuardStep
          <5>4. \A d \in Coming(t)' : d.op = "UpdateTransactionState" => d.state = "Aborted"
            BY <3>1, <5>1
          <5>5. GuardOK(t)'
            BY <1>1, <1>4, <2>1, <2>2, <5>2, <5>3, <5>4 DEF GuardOK
          <5> QED  BY <4>1, <5>5
        <4>4. CASE r.state \in {"Prepared", "Committed"}
          <5>1. \A d \in Coming(t) :
                  /\ d.op = "UpdateTransactionState" => d.state = "Committed"
                  /\ d.op = "DeleteTransactionRecord" => r.state = "Committed" /\ r.participant_acked
            BY <1>4, <3>3, <4>4 DEF GuardOK
          <5>2. /\ r2.state \in {"Prepared", "Committed"}
                /\ r.state = "Committed" => r2.state = "Committed"
            BY <3>1, <4>1, <4>4, <5>1
          <5>3. \A d \in Coming(t)' :
                  /\ d.op = "UpdateTransactionState" => d.state = "Committed"
                  /\ d.op = "DeleteTransactionRecord" =>
                       r2.state = "Committed" /\ r2.participant_acked
            BY <3>1, <4>1, <5>1, <5>2
          <5>4. GuardOK(t)'
            BY <1>1, <1>4, <2>1, <2>2, <5>2, <5>3 DEF GuardOK
          <5> QED  BY <4>1, <5>4
        <4> QED  BY <4>2, <4>3, <4>4 DEF TxState
      <3> QED  BY <3>4, <3>5
    <2> QED  BY <2>3, <2>4
  <1> QED  BY <1>3, <1>4

\* Only the rename handler and the recovery task call the participant.
CallersKept(t) ==
    \A c \in calls' : c.tx = t =>
      \/ c.caller = Nil
      \/ \E d \in calls : d.tx = t /\ d.caller = c.caller
      \/ rename[t].pc # "done" /\ c.caller = "rename"

PcKept(t) == rename[t].pc = "done" => rename'[t].pc = "done"

\* Proposals that fail for another shard or another transaction.
LimboKept(t) == \A p \in limbo' : p \in limbo \/ p[1] # "src" \/ p[2].tx # t

\* A step that gives the coordinator's record of t nothing to do.
LEMMA GuardRest ==
    ASSUME NEW t \in Tx, GuardOK(t), t \in aged' <=> t \in aged, LimboKept(t),
           Queued(t)' \subseteq Queued(t),
           records'["src"][t] = records["src"][t], CallersKept(t), PcKept(t)
    PROVE  GuardStep(t)
  <1>1. Coming(t)' \subseteq Coming(t)
    BY DEF Coming, LimboKept
  <1>2. \A c \in Queued(t)' : c.tx = t
    BY DEF GuardOK
  <1> QED  BY <1>1, <1>2 DEF GuardStep, CallersKept, PcKept

\* A round of task k about u leaves what the others have queued alone.
LEMMA QueuedKept ==
    ASSUME TaskOK, NEW k \in Task, NEW u \in Tx, NEW w, task' = [task EXCEPT ![k][u] = w],
           NEW t \in Tx, t # u \/ k = "cleanup_dst" \/ w.todo = <<>> \/ w.todo = task[k][u].todo
    PROVE  Queued(t)' \subseteq Queued(t)
  <1>1. \A k1 \in Task : task'[k1][t] = IF k1 = k /\ t = u THEN w ELSE task[k1][t]
    BY DEF TaskOK
  <1>2. ASSUME NEW k1 \in {"recovery", "cleanup_src"}
        PROVE  task'[k1][t].todo = task[k1][t].todo \/ task'[k1][t].todo = <<>>
    BY <1>1, <1>2 DEF Task
  <1> QED  BY <1>2 DEF Queued

\* A proposal to shard s: what it leaves of the limbo and of the record of t.
LEMMA ProposeGuard ==
    ASSUME RenameInv, NEW s \in Shard, NEW c, NEW ok, GoodCommand(s, c), Propose(s, c, ok),
           NEW t \in Tx
    PROVE  /\ s = "dst" \/ c.tx # t => LimboKept(t) /\ records'["src"][t] = records["src"][t]
           /\ \A p \in limbo' : p \in limbo \/ p[2] = c
           /\ s = "src" /\ c.tx = t =>
                \/ records'["src"][t] = records["src"][t]
                \/ records'["src"][t] = RecordsAfter(records["src"], c)[t] /\ limbo' = limbo
  <1>1. records \in [Shard -> [Tx -> Record \cup {Nil}]] /\ c.tx \in Tx
    BY DEF RenameInv, ShardsOK, RecordsOK, GoodCommand
  <1>2. CASE ok
    <2>1. limbo' = limbo /\ records' = [records EXCEPT ![s] = RecordsAfter(records[s], c)]
      BY <1>2 DEF Propose, ApplyCommand
    <2>2. CASE s = "dst"
      BY <1>1, <2>1, <2>2 DEF LimboKept, Shard
    <2>3. CASE s = "src"
      <3>1. GoodCommand("src", c) /\ records["src"] \in [Tx -> Record \cup {Nil}]
        BY <1>1, <2>3
      <3>2. t # c.tx => RecordsAfter(records["src"], c)[t] = records["src"][t]
        BY <3>1, RecordAfter
      <3> QED  BY <1>1, <2>1, <2>3, <3>2 DEF LimboKept
    <2> QED  BY <2>2, <2>3 DEF Shard
  <1>3. CASE ~ok
    <2>1. limbo' = limbo \cup {<<s, c>>} /\ records' = records
      BY <1>3 DEF Propose
    <2> QED  BY <2>1 DEF LimboKept
  <1> QED  BY <1>2, <1>3

\* The handler of u goes on: only RPCs of its own are new.
LEMMA GoToGuard ==
    ASSUME RenameOK, NEW u \in Tx, rename[u].pc # "done", NEW pc, NEW answer, NEW C,
           \A d \in C : d \in calls \/ \E e \in calls : d = [e EXCEPT !.caller = Nil],
           calls \subseteq CallRecord, GoTo(u, pc, answer, C), NEW t \in Tx
    PROVE  CallersKept(t) /\ PcKept(t)
  <1>1. rename' = [rename EXCEPT ![u].pc = pc]
    BY DEF GoTo
  <1>2. t # u => rename'[t] = rename[t]
    BY <1>1 DEF RenameOK
  <1>3. \A d \in calls' : d \in C \/ d = Call(RpcAt[pc], u, "rename")
    BY DEF GoTo
  <1>4. ASSUME NEW d \in calls', d.tx = t
        PROVE  \/ d.caller = Nil \/ d \in calls
               \/ rename[t].pc # "done" /\ d.caller = "rename"
    <2>1. CASE d = Call(RpcAt[pc], u, "rename")
      <3>1. d.tx = u /\ d.caller = "rename"
        BY <2>1 DEF Call
      <3> QED  BY <1>4, <3>1
    <2>2. ASSUME NEW e \in calls, d = [e EXCEPT !.caller = Nil]
          PROVE  d.caller = Nil
      BY <2>2 DEF CallRecord
    <2> QED  BY <1>3, <1>4, <2>1, <2>2
  <1>5. CallersKept(t)
    BY <1>4 DEF CallersKept
  <1> QED  BY <1>2, <1>5 DEF PcKept

\* Handler u proposes c and goes to pc.
Proposes(u, ok, c, pc, answer) ==
    /\ Propose("src", c, ok) /\ GoTo(u, pc, answer, calls) /\ UNCHANGED <<task, aged>>
    /\ GoodCommand("src", c) /\ c.tx = u /\ c.op # "DeleteTransactionRecord"
    /\ rename[u].pc # "done"

\* Every step of a rename handler proposes a command about its transaction, and none
\* deletes the record.
LEMMA HandlerProposes ==
    ASSUME RenameInv, NEW u \in Tx, NEW ok \in BOOLEAN, RenameStep(u, ok)
    PROVE  \E c, pc, answer : Proposes(u, ok, c, pc, answer)
  <1>1. rename[u].pc \notin {"idle", "done"} => Begun(u)
    BY DEF RenameInv, RenameOK
  <1>2. CASE RecordPending(u, ok)
    <2> DEFINE r == NewRecord("Pending", rename[u].content)
               c == CreateTransactionRecord(u, r)
    <2>1. /\ rename[u].pc = "record" /\ Propose("src", c, ok) /\ UNCHANGED <<task, aged>>
          /\ GoTo(u, IF ok THEN "prepared" ELSE "done", "failure", calls)
      BY <1>2 DEF RecordPending
    <2>2. r \in Record /\ r.content = Source[u] /\ r.state # "Committed"
      BY <1>1, <2>1, Paths DEF NewRecord, Record, TxState, Begun
    <2> HIDE DEF r
    <2>3. GoodCommand("src", c) /\ c.tx = u /\ c.op = "CreateTransactionRecord"
      BY <1>1, <2>1, <2>2 DEF GoodCommand, CreateTransactionRecord
    <2> HIDE DEF c
    <2>4. Proposes(u, ok, c, IF ok THEN "prepared" ELSE "done", "failure")
      BY <2>1, <2>3 DEF Proposes
    <2> QED  BY <2>4
  <1>3. ASSUME NEW x \in TxState, NEW pc, NEW answer, x = "Committed" => Arrived(u),
               rename[u].pc \notin {"idle", "done"}, GoTo(u, pc, answer, calls),
               Propose("src", UpdateTransactionState(u, x), ok), UNCHANGED <<task, aged>>
        PROVE  \E c, pc1, answer1 : Proposes(u, ok, c, pc1, answer1)
    <2> DEFINE c == UpdateTransactionState(u, x)
    <2>1. GoodCommand("src", c) /\ c.tx = u /\ c.op = "UpdateTransactionState"
      BY <1>1, <1>3 DEF GoodCommand, UpdateTransactionState
    <2>2. Proposes(u, ok, c, pc, answer)
      BY <1>3, <2>1 DEF Proposes
    <2> QED  BY <2>2
  <1>4. CASE RecordPrepared(u, ok)
    <2>1. /\ rename[u].pc = "prepared" /\ UNCHANGED <<task, aged>>
          /\ Propose("src", UpdateTransactionState(u, "Prepared"), ok)
          /\ GoTo(u, IF ok THEN "prepare" ELSE "abort_and_return", Nil, calls)
      BY <1>4 DEF RecordPrepared
    <2> QED  BY <1>3, <2>1 DEF TxState
  <1>5. CASE RecordAborted(u, ok)
    <2>1. /\ rename[u].pc = "aborted" /\ UNCHANGED <<task, aged>>
          /\ Propose("src", UpdateTransactionState(u, "Aborted"), ok)
          /\ GoTo(u, "done", "failure", calls)
      BY <1>5 DEF RecordAborted
    <2> QED  BY <1>3, <2>1 DEF TxState
  <1>6. CASE Finish(u, ok)
    <2>1. /\ rename[u].pc \in {"delete", "committed", "acked"} /\ UNCHANGED <<task, aged>>
          /\ Begun(u) /\ Arrived(u)
      BY <1>6 DEF Finish, RenameInv, RenameOK
    <2>2. CASE rename[u].pc = "delete"
      <3> DEFINE c == DeleteSource(u)
      <3>1. Propose("src", c, ok) /\ GoTo(u, "committed", Nil, calls)
        BY <1>6, <2>2 DEF Finish
      <3>2. GoodCommand("src", c) /\ c.tx = u /\ c.op = "Delete"
        BY <2>1 DEF GoodCommand, DeleteSource
      <3>3. Proposes(u, ok, c, "committed", Nil)
        BY <2>1, <3>1, <3>2 DEF Proposes
      <3> QED  BY <3>3
    <2>3. CASE rename[u].pc = "committed"
      <3>1. /\ Propose("src", UpdateTransactionState(u, "Committed"), ok)
            /\ GoTo(u, "acked", Nil, calls)
        BY <1>6, <2>3 DEF Finish
      <3> QED  BY <1>3, <2>1, <3>1 DEF TxState
    <2>4. CASE rename[u].pc = "acked"
      <3> DEFINE c == SetParticipantAcked(u)
      <3>1. Propose("src", c, ok) /\ GoTo(u, "done", "success", calls)
        BY <1>6, <2>4 DEF Finish
      <3>2. GoodCommand("src", c) /\ c.tx = u /\ c.op = "SetParticipantAcked"
        BY <2>1 DEF GoodCommand, SetParticipantAcked
      <3>3. Proposes(u, ok, c, "done", "success")
        BY <2>1, <3>1, <3>2 DEF Proposes
      <3> QED  BY <3>3
    <2> QED  BY <2>1, <2>2, <2>3, <2>4
  <1> QED  BY <1>2, <1>4, <1>5, <1>6 DEF RenameStep

LEMMA RenameStepGuard ==
    ASSUME RenameInv, NEW u \in Tx, NEW ok \in BOOLEAN, RenameStep(u, ok),
           NEW t \in Tx, GuardOK(t)
    PROVE  GuardStep(t)
  <1>1. PICK c, pc, answer : Proposes(u, ok, c, pc, answer)
    BY HandlerProposes
  <1>2. /\ Propose("src", c, ok) /\ GoTo(u, pc, answer, calls) /\ UNCHANGED <<task, aged>>
        /\ GoodCommand("src", c) /\ c.tx = u /\ c.op # "DeleteTransactionRecord"
        /\ rename[u].pc # "done"
    BY <1>1 DEF Proposes
  <1>3. CallersKept(t) /\ PcKept(t) /\ Queued(t)' = Queued(t)
    BY <1>2, GoToGuard DEF RenameInv, CallsOK, Queued
  <1>4. CASE t # u
    BY <1>2, <1>3, <1>4, ProposeGuard, GuardRest DEF Shard
  <1>5. CASE t = u
    <2>1. /\ \A p \in limbo' : p \in limbo \/ p[2] = c
          /\ \/ records'["src"][t] = records["src"][t]
             \/ records'["src"][t] = RecordsAfter(records["src"], c)[t]
      BY <1>2, <1>5, ProposeGuard DEF Shard
    <2>2. \A d \in Coming(t)' : d \in Coming(t) \/ d = c
      BY <1>3, <2>1 DEF Coming
    <2>3. \A d \in Queued(t)' : d.tx = t
      BY <1>3 DEF GuardOK
    <2> QED  BY <1>2, <1>3, <1>5, <2>1, <2>2, <2>3 DEF GuardStep, CallersKept, PcKept
  <1> QED  BY <1>4, <1>5

\* The tasks.
LEMMA RunTaskGuard ==
    ASSUME RenameInv, NEW k \in Task, NEW u \in Tx, NEW ok \in BOOLEAN, RunTask(k, u, ok),
           NEW t \in Tx, GuardOK(t), GuardOK(u)
    PROVE  GuardStep(t)
  <1> DEFINE w == task[k][u]
             c == Head(w.todo)
  <1>1. /\ w.pc = "run" /\ Propose(ShardOf(k), c, ok) /\ UNCHANGED <<rename, calls, aged, told>>
        /\ task' = [task EXCEPT ![k][u] =
             IF Len(w.todo) = 1 THEN Idle ELSE [w EXCEPT !.todo = Tail(w.todo)]]
    BY DEF RunTask, ShardOf
  <1>2. w \in Round /\ GoodRound(k, u, w)
    BY DEF RenameInv, TaskOK
  <1>3. w.todo \in Seq(TaskCommand) /\ w.todo # <<>> /\ GoodTodo(ShardOf(k), w.todo)
    BY <1>1, <1>2 DEF GoodRound, GoodTodo, Round
  <1>4. GoodCommand(ShardOf(k), c) /\ c = w.todo[1] /\ Len(w.todo) \in Nat /\ Len(w.todo) > 0
    <2>1. GoodCommand(ShardOf(k), c)
      BY <1>3, TailTodo
    <2> QED  BY <1>3, <2>1
  <1>5. CallersKept(t) /\ PcKept(t)
    BY <1>1 DEF CallersKept, PcKept
  <1>6. Queued(t)' \subseteq Queued(t)
    <2>1. \A k1 \in Task : task'[k1][t] = IF k1 = k /\ t = u
            THEN IF Len(w.todo) = 1 THEN Idle ELSE [w EXCEPT !.todo = Tail(w.todo)]
            ELSE task[k1][t]
      BY <1>1 DEF RenameInv, TaskOK
    <2>2. /\ Idle.todo = <<>> /\ [w EXCEPT !.todo = Tail(w.todo)].todo = Tail(w.todo)
          /\ Len(Tail(w.todo)) = Len(w.todo) - 1
          /\ \A n \in 1 .. Len(Tail(w.todo)) : Tail(w.todo)[n] = w.todo[n + 1]
      BY <1>2, <1>3 DEF Idle, Round
    <2>3. ASSUME NEW k1 \in {"recovery", "cleanup_src"},
                 NEW n \in 1 .. Len(task'[k1][t].todo)
          PROVE  \E m \in 1 .. Len(task[k1][t].todo) : task'[k1][t].todo[n] = task[k1][t].todo[m]
      <3>1. CASE k1 = k /\ t = u /\ Len(w.todo) # 1
        <4>1. task'[k1][t].todo = Tail(w.todo) /\ task[k1][t] = w
          BY <2>1, <2>2, <3>1
        <4>2. n + 1 \in 1 .. Len(w.todo) /\ Tail(w.todo)[n] = w.todo[n + 1]
          BY <1>4, <2>2, <4>1
        <4> QED  BY <4>1, <4>2
      <3>2. CASE k1 = k /\ t = u /\ Len(w.todo) = 1
        BY <2>1, <2>2, <2>3, <3>2
      <3>3. CASE ~(k1 = k /\ t = u)
        BY <2>1, <3>3 DEF Task
      <3> QED  BY <3>1, <3>2, <3>3
    <2>4. ASSUME NEW k1 \in {"recovery", "cleanup_src"}
          PROVE  {task'[k1][t].todo[n] : n \in 1 .. Len(task'[k1][t].todo)} \subseteq
                 {task[k1][t].todo[n] : n \in 1 .. Len(task[k1][t].todo)}
      <3> DEFINE S == task'[k1][t].todo
                 T == task[k1][t].todo
      <3>1. \A n \in 1 .. Len(S) : \E m \in 1 .. Len(T) : S[n] = T[m]
        BY <2>3
      <3> HIDE DEF S, T
      <3>2. {S[n] : n \in 1 .. Len(S)} \subseteq {T[n] : n \in 1 .. Len(T)}
        BY <3>1
      <3> QED  BY <3>2 DEF S, T
    <2> QED  BY <2>4 DEF Queued
  <1>7. c.tx = u \/ k = "cleanup_dst"
    BY <1>4 DEF GuardOK, Queued, Task
  <1>8. CASE k = "cleanup_dst" \/ t # u
    <2>1. LimboKept(t) /\ records'["src"][t] = records["src"][t]
      BY <1>1, <1>4, <1>7, <1>8, ProposeGuard DEF ShardOf, Shard
    <2> QED  BY <1>1, <1>5, <1>6, <2>1, GuardRest
  <1>9. CASE k # "cleanup_dst" /\ t = u
    <2>1. c \in Queued(t) /\ c.tx = t
      BY <1>4, <1>7, <1>9 DEF Queued, Task
    <2>2. /\ \A p \in limbo' : p \in limbo \/ p[2] = c
          /\ \/ records'["src"][t] = records["src"][t]
             \/ records'["src"][t] = RecordsAfter(records["src"], c)[t]
      BY <1>1, <1>4, <1>9, <2>1, ProposeGuard DEF ShardOf, Shard
    <2>3. Coming(t)' \subseteq Coming(t) /\ c \in Coming(t)
      BY <1>6, <2>1, <2>2 DEF Coming
    <2>4. \A d \in Queued(t)' : d.tx = t
      BY <1>6 DEF GuardOK
    <2>5. GoodCommand("src", c)
      BY <1>4, <1>9 DEF ShardOf
    <2> HIDE DEF c
    <2> QED  BY <1>1, <1>5, <2>1, <2>2, <2>3, <2>4, <2>5 DEF GuardStep, CallersKept, PcKept
  <1> QED  BY <1>8, <1>9

\* A round starts: with the abort of a pending record, the deletion of one that is at
\* its end, or the recovery of one that may be committed.
LEMMA StartGuard ==
    ASSUME RenameInv, NEW u \in Tx, NEW t \in Tx, GuardOK(t),
           StartRecovery(u) \/ StartCoordinatorCleanup(u) \/ StartParticipantCleanup(u)
    PROVE  GuardStep(t)
  <1>1. UNCHANGED <<files, records, limbo, rename, aged>> /\ TaskOK
    BY DEF StartRecovery, StartCoordinatorCleanup, StartParticipantCleanup, RenameInv
  <1>2. LimboKept(t) /\ PcKept(t) /\ records'["src"][t] = records["src"][t]
    BY <1>1 DEF LimboKept, PcKept
  <1>3. CASE StartRecovery(u)
    <2> DEFINE r == records["src"][u]
    <2>1. /\ task' = [task EXCEPT !["recovery"][u] = [Idle EXCEPT !.pc = "commit", !.copy = r]]
          /\ calls' = calls \cup {Call("commit", u, "recovery")}
          /\ r # Nil /\ r.state \in {"Prepared", "Committed"}
      BY <1>3 DEF StartRecovery
    <2>2. [Idle EXCEPT !.pc = "commit", !.copy = r].todo = <<>>
      BY DEF Idle
    <2>3. Queued(t)' \subseteq Queued(t)
      BY <1>1, <2>1, <2>2, QueuedKept DEF Task
    <2>4. Call("commit", u, "recovery").tx = u /\ Call("commit", u, "recovery").caller = "recovery"
      BY DEF Call
    <2>5. CASE t # u
      <3>1. CallersKept(t)
        BY <2>1, <2>4, <2>5 DEF CallersKept
      <3> QED  BY <1>1, <1>2, <2>3, <3>1, GuardRest
    <2>6. CASE t = u
      <3>1. Coming(t)' \subseteq Coming(t) /\ \A c \in Queued(t)' : c.tx = t
        BY <1>1, <2>3 DEF Coming, GuardOK
      <3>2. \A c \in calls' : c \in calls \/ c.caller = "recovery"
        BY <2>1, <2>4
      <3> QED  BY <1>1, <1>2, <2>1, <2>6, <3>1, <3>2 DEF GuardStep, PcKept
    <2> QED  BY <2>5, <2>6
  <1>4. CASE StartParticipantCleanup(u)
    <2>1. calls' = calls /\ \E w : task' = [task EXCEPT !["cleanup_dst"][u] = w]
      BY <1>4 DEF StartParticipantCleanup, Start
    <2>2. Queued(t)' \subseteq Queued(t)
      BY <1>1, <2>1, QueuedKept DEF Task
    <2> QED  BY <1>1, <1>2, <2>1, <2>2, GuardRest DEF CallersKept
  <1>5. CASE StartCoordinatorCleanup(u)
    <2> DEFINE r == records["src"][u]
    <2>1. /\ calls' = calls /\ r # Nil
          /\ \E c : /\ Start("cleanup_src", u, <<c>>) /\ c.tx = u
                    /\ \/ /\ c.op = "UpdateTransactionState" /\ c.state = "Aborted"
                          /\ r.state = "Pending"
                       \/ /\ c.op = "DeleteTransactionRecord" /\ u \in aged
                          /\ r.state = "Aborted" \/ (r.state = "Committed" /\ r.participant_acked)
      <3>1. CASE r.state = "Pending" /\ Start("cleanup_src", u, <<UpdateTransactionState(u, "Aborted")>>)
        BY <1>5, <3>1 DEF StartCoordinatorCleanup, UpdateTransactionState
      <3>2. CASE /\ u \in aged /\ Start("cleanup_src", u, <<DeleteTransactionRecord(u)>>)
                 /\ r.state = "Aborted" \/ (r.state = "Committed" /\ r.participant_acked)
        BY <1>5, <3>2 DEF StartCoordinatorCleanup, DeleteTransactionRecord
      <3> QED  BY <1>5, <3>1, <3>2 DEF StartCoordinatorCleanup
    <2>2. PICK c : /\ Start("cleanup_src", u, <<c>>) /\ c.tx = u
                   /\ \/ /\ c.op = "UpdateTransactionState" /\ c.state = "Aborted"
                         /\ r.state = "Pending"
                      \/ /\ c.op = "DeleteTransactionRecord" /\ u \in aged
                         /\ r.state = "Aborted" \/ (r.state = "Committed" /\ r.participant_acked)
      BY <2>1
    <2> DEFINE w == [Idle EXCEPT !.pc = "run", !.todo = <<c>>]
    <2>3. task' = [task EXCEPT !["cleanup_src"][u] = w] /\ w.todo = <<c>>
      BY <2>2 DEF Start, Idle
    <2> HIDE DEF w
    <2>4. CASE t # u
      <3>1. Queued(t)' \subseteq Queued(t)
        BY <1>1, <2>3, <2>4, QueuedKept DEF Task
      <3> QED  BY <1>1, <1>2, <2>1, <3>1, GuardRest DEF CallersKept
    <2>5. CASE t = u
      <3>1. task'["recovery"][t] = task["recovery"][t] /\ task'["cleanup_src"][t] = w
        BY <1>1, <2>3, <2>5 DEF TaskOK, Task
      <3>2. \A d \in Queued(t)' : d \in Queued(t) \/ d = c
        BY <2>3, <3>1 DEF Queued
      <3>3. \A d \in Coming(t)' : d \in Coming(t) \/ d = c
        BY <1>1, <3>2 DEF Coming
      <3>4. \A d \in Queued(t)' : d.tx = t
        BY <2>2, <2>5, <3>2 DEF GuardOK
      <3> QED  BY <1>1, <1>2, <2>1, <2>2, <2>5, <3>3, <3>4 DEF GuardStep, PcKept
    <2> QED  BY <2>4, <2>5
  <1> QED  BY <1>3, <1>4, <1>5

\* An RPC handler that goes on brings nothing new.
LEMMA ProceedGuard ==
    ASSUME RenameInv, NEW c \in calls, NEW stage, NEW operation, Proceed(c, stage, operation),
           NEW t \in Tx
    PROVE  CallersKept(t) /\ PcKept(t) /\ Queued(t)' = Queued(t)
  <1>1. /\ calls' = (calls \ {c}) \cup {[c EXCEPT !.stage = stage, !.operation = operation]}
        /\ UNCHANGED <<rename, task>> /\ c \in CallRecord
    BY DEF Proceed, RenameInv, CallsOK
  <1>2. /\ [c EXCEPT !.stage = stage, !.operation = operation].tx = c.tx
        /\ [c EXCEPT !.stage = stage, !.operation = operation].caller = c.caller
    BY <1>1 DEF CallRecord
  <1>3. CallersKept(t)
    BY <1>1, <1>2 DEF CallersKept
  <1> QED  BY <1>1, <1>3 DEF PcKept, Queued

\* An RPC is answered, or sent again: the recovery task may get its commands, which it
\* gets only when it was waiting for the answer.
LEMMA AnswerGuard ==
    ASSUME RenameInv, NEW c \in calls, NEW answer, NEW C, Without(c, C),
           ReplyOrResend(c, answer, C), UNCHANGED aged, NEW t \in Tx, GuardOK(t),
           LimboKept(t), records'["src"][t] = records["src"][t]
    PROVE  GuardStep(t)
  <1>1. c \in CallRecord /\ c.tx \in Tx /\ GoodCall(c) /\ calls \subseteq CallRecord
    BY DEF RenameInv, CallsOK, CallRecord
  <1>2. \A d \in C : d \in calls \/ \E e \in calls : d = [e EXCEPT !.caller = Nil]
    BY DEF Without
  <1>3. ASSUME NEW d \in C
        PROVE  d \in calls \/ d.caller = Nil
    <2>1. ASSUME NEW e \in calls, d = [e EXCEPT !.caller = Nil]
          PROVE  d.caller = Nil
      BY <1>1, <2>1 DEF CallRecord
    <2> QED  BY <1>2, <2>1
  <1>4. CASE c.caller = "rename" /\ Reply(c, answer, C)
    <2>1. AfterRpc(c.tx, answer, C) /\ UNCHANGED task /\ rename[c.tx].pc \in DOMAIN RpcAt
      BY <1>1, <1>4 DEF Reply, GoodCall
    <2>2. rename[c.tx].pc \in {"prepare", "commit", "abort", "abort_and_return"}
      BY <2>1 DEF RpcAt
    <2>3. \E pc, a : GoTo(c.tx, pc, a, C)
      BY <2>1, <2>2 DEF AfterRpc
    <2>4. PICK pc, a : GoTo(c.tx, pc, a, C)
      BY <2>3
    <2>5. CallersKept(t) /\ PcKept(t)
      BY <1>1, <1>2, <2>2, <2>4, GoToGuard DEF RenameInv
    <2>6. Queued(t)' = Queued(t)
      BY <2>1 DEF Queued
    <2> QED  BY <2>5, <2>6, GuardRest
  <1>5. CASE c.caller = "recovery" /\ Reply(c, answer, C)
    <2> DEFINE w == task["recovery"][c.tx]
               w2 == IF answer
                     THEN [w EXCEPT !.pc = "run", !.todo = RecoveryTodo(c.tx, w.copy)] ELSE Idle
    <2>1. /\ task' = [task EXCEPT !["recovery"][c.tx] = w2]
          /\ calls' = C /\ UNCHANGED <<rename, told>>
      BY <1>5 DEF Reply
    <2>2. w \in Round
      BY <1>1 DEF RenameInv, TaskOK, Task
    <2>3. CallersKept(t) /\ PcKept(t)
      BY <1>3, <2>1 DEF CallersKept, PcKept
    <2>4. CASE t # c.tx \/ ~answer
      <3>1. Idle.todo = <<>>
        BY DEF Idle
      <3>2. t # c.tx \/ w2.todo = <<>>
        BY <2>4, <3>1
      <3> HIDE DEF w2
      <3>3. Queued(t)' \subseteq Queued(t)
        BY <1>1, <2>1, <3>2, QueuedKept DEF Task, RenameInv
      <3> QED  BY <2>3, <3>3, GuardRest
    <2>5. CASE t = c.tx /\ answer
      <3>1. /\ task'["recovery"][t] = [w EXCEPT !.pc = "run", !.todo = RecoveryTodo(t, w.copy)]
            /\ task'["cleanup_src"][t] = task["cleanup_src"][t]
        BY <2>1, <2>5 DEF RenameInv, TaskOK, Task
      <3>2. task'["recovery"][t].todo = RecoveryTodo(t, w.copy)
        BY <2>2, <3>1 DEF Round
      <3>3. \A n \in 1 .. Len(RecoveryTodo(t, w.copy)) :
              /\ RecoveryTodo(t, w.copy)[n].tx = t
              /\ LET d == RecoveryTodo(t, w.copy)[n]
                 IN  \/ d.op \in {"Delete", "SetParticipantAcked"}
                     \/ d.op = "UpdateTransactionState" /\ d.state = "Committed"
        <4>1. SetParticipantAcked(t).op = "SetParticipantAcked" /\ SetParticipantAcked(t).tx = t
          BY DEF SetParticipantAcked
        <4>2. DeleteSource(t).op = "Delete" /\ DeleteSource(t).tx = t
          BY DEF DeleteSource
        <4>3. /\ UpdateTransactionState(t, "Committed").op = "UpdateTransactionState"
              /\ UpdateTransactionState(t, "Committed").state = "Committed"
              /\ UpdateTransactionState(t, "Committed").tx = t
          BY DEF UpdateTransactionState
        <4> QED  BY <4>1, <4>2, <4>3 DEF RecoveryTodo
      <3> DEFINE Recovers(d) == /\ d.tx = t
                                /\ \/ d.op \in {"Delete", "SetParticipantAcked"}
                                   \/ d.op = "UpdateTransactionState" /\ d.state = "Committed"
      <3>4. \A d \in Queued(t)' : d \in Queued(t) \/ Recovers(d)
        BY <3>1, <3>2, <3>3 DEF Queued
      <3>5. \A d \in Coming(t)' : d \in Coming(t) \/ Recovers(d)
        BY <3>4 DEF Coming, LimboKept
      <3>6. \A d \in Queued(t)' : d.tx = t
        BY <3>4 DEF GuardOK
      <3>7. \E d \in calls : d.tx = t /\ d.caller = "recovery"
        BY <1>5, <2>5
      <3> QED  BY <2>3, <3>5, <3>6, <3>7 DEF GuardStep, CallersKept, PcKept
    <2> QED  BY <2>4, <2>5
  <1>6. CASE c.caller = Nil /\ Reply(c, answer, C)
    <2>1. calls' = C /\ UNCHANGED <<rename, told, task>>
      BY <1>6, NilAssumption DEF Reply
    <2>2. CallersKept(t) /\ PcKept(t) /\ Queued(t)' = Queued(t)
      BY <1>3, <2>1 DEF CallersKept, PcKept, Queued
    <2> QED  BY <2>2, GuardRest
  <1>7. CASE ~Reply(c, answer, C)
    <2>1. /\ calls' = C \cup {Call(c.kind, c.tx, c.caller)} /\ UNCHANGED <<rename, told, task>>
      BY <1>7 DEF ReplyOrResend
    <2>2. Call(c.kind, c.tx, c.caller).tx = c.tx /\ Call(c.kind, c.tx, c.caller).caller = c.caller
      BY DEF Call
    <2>3. CallersKept(t)
      BY <1>3, <2>1, <2>2 DEF CallersKept
    <2>4. PcKept(t) /\ Queued(t)' = Queued(t)
      BY <2>1 DEF PcKept, Queued
    <2> QED  BY <2>3, <2>4, GuardRest
  <1> QED  BY <1>1, <1>4, <1>5, <1>6, <1>7 DEF CallRecord

\* The participant proposes to its own shard only.
LEMMA CallStepGuard ==
    ASSUME RenameInv, NEW c \in calls, NEW ok \in BOOLEAN, CallStep(c, ok),
           NEW t \in Tx, GuardOK(t)
    PROVE  GuardStep(t)
  <1>1. c \in CallRecord /\ GoodCall(c) /\ c.tx \in Tx /\ Begun(c.tx)
    BY DEF RenameInv, CallsOK, CallRecord, GoodCall
  <1>2. Without(c, calls \ {c}) /\ aged' = aged
    BY DEF Without, CallStep, PrepareArrives, CommitArrives, PrepareRecords, CommitApplies,
           CommitUpdates, AbortArrives
  <1>3. ASSUME LimboKept(t), records'["src"][t] = records["src"][t],
               \/ \E answer \in BOOLEAN : ReplyOrResend(c, answer, calls \ {c})
               \/ \E stage, operation : Proceed(c, stage, operation)
        PROVE  GuardStep(t)
    <2>1. CASE \E answer \in BOOLEAN : ReplyOrResend(c, answer, calls \ {c})
      BY <1>2, <1>3, <2>1, AnswerGuard
    <2>2. CASE \E stage, operation : Proceed(c, stage, operation)
      <3>1. CallersKept(t) /\ PcKept(t) /\ Queued(t)' = Queued(t)
        BY <2>2, ProceedGuard
      <3> QED  BY <1>2, <1>3, <3>1, GuardRest
    <2> QED  BY <1>3, <2>1, <2>2
  <1>4. ASSUME NEW cmd, GoodCommand("dst", cmd), Propose("dst", cmd, ok)
        PROVE  LimboKept(t) /\ records'["src"][t] = records["src"][t]
    BY <1>4, ProposeGuard DEF Shard
  <1>5. CASE PrepareArrives(c) \/ CommitArrives(c)
    <2>1. LimboKept(t) /\ records'["src"][t] = records["src"][t]
      BY <1>5 DEF PrepareArrives, CommitArrives, LimboKept
    <2>2. \/ \E answer \in BOOLEAN : Reply(c, answer, calls \ {c})
          \/ \E stage, operation : Proceed(c, stage, operation)
      BY <1>5 DEF PrepareArrives, CommitArrives
    <2> QED  BY <1>3, <2>1, <2>2 DEF ReplyOrResend
  <1>6. CASE PrepareRecords(c, ok)
    <2> DEFINE r == NewRecord("Prepared", rename[c.tx].content)
               cmd == CreateTransactionRecord(c.tx, r)
    <2>1. r \in Record /\ r.content = Source[c.tx] /\ r.state # "Committed"
      BY <1>1, Paths DEF NewRecord, Record, TxState, Begun
    <2>2. Propose("dst", cmd, ok) /\ ReplyOrResend(c, ok, calls \ {c})
      BY <1>6 DEF PrepareRecords
    <2> HIDE DEF r
    <2>3. GoodCommand("dst", cmd)
      BY <1>1, <2>1 DEF GoodCommand, CreateTransactionRecord
    <2> HIDE DEF cmd
    <2> QED  BY <1>3, <1>4, <2>2, <2>3
  <1>7. CASE CommitApplies(c, ok)
    <2> DEFINE cmd == CreateDest(c.tx, c.operation)
    <2>1. /\ Propose("dst", cmd, ok) /\ c.operation = Source[c.tx]
          /\ Proceed(c, "update", Nil) \/ ReplyOrResend(c, FALSE, calls \ {c})
      BY <1>1, <1>7 DEF CommitApplies, GoodCall
    <2>2. GoodCommand("dst", cmd)
      BY <1>1, <2>1 DEF GoodCommand, CreateDest
    <2> HIDE DEF cmd
    <2> QED  BY <1>3, <1>4, <2>1, <2>2
  <1>8. CASE CommitUpdates(c, ok)
    <2> DEFINE cmd == UpdateTransactionState(c.tx, "Committed")
    <2>1. Arrived(c.tx) /\ Propose("dst", cmd, ok) /\ ReplyOrResend(c, TRUE, calls \ {c})
      BY <1>1, <1>8 DEF CommitUpdates, GoodCall, ReplyOrResend
    <2>2. GoodCommand("dst", cmd)
      BY <1>1, <2>1 DEF GoodCommand, UpdateTransactionState, TxState
    <2> HIDE DEF cmd
    <2> QED  BY <1>3, <1>4, <2>1, <2>2
  <1>9. CASE AbortArrives(c, ok)
    <2> DEFINE cmd == UpdateTransactionState(c.tx, "Aborted")
    <2>1. Propose("dst", cmd, ok) /\ ReplyOrResend(c, ok, calls \ {c})
      BY <1>9 DEF AbortArrives
    <2>2. GoodCommand("dst", cmd)
      BY <1>1 DEF GoodCommand, UpdateTransactionState, TxState
    <2> HIDE DEF cmd
    <2> QED  BY <1>3, <1>4, <2>1, <2>2
  <1> QED  BY <1>5, <1>6, <1>7, <1>8, <1>9 DEF CallStep

LEMMA RpcFailsGuard ==
    ASSUME RenameInv, NEW c \in calls, RpcFails(c), NEW t \in Tx, GuardOK(t)
    PROVE  GuardStep(t)
  <1> DEFINE C == (calls \ {c}) \cup {[c EXCEPT !.caller = Nil]}
  <1>1. Without(c, C)
    BY DEF Without
  <1>2. ReplyOrResend(c, FALSE, C) /\ UNCHANGED <<files, records, limbo, aged>>
    BY DEF RpcFails
  <1>3. LimboKept(t) /\ records'["src"][t] = records["src"][t] /\ aged' = aged
    BY <1>2 DEF LimboKept
  <1> HIDE DEF C
  <1> QED  BY <1>1, <1>2, <1>3, AnswerGuard

\* A rename begins, or an inquiry ends: neither is about the coordinator's record.
LEMMA BeginGuard ==
    ASSUME RenameInv, NEW u \in Tx, BeginRename(u) \/ \E ok \in BOOLEAN : Inquire(u, ok),
           NEW t \in Tx, GuardOK(t)
    PROVE  GuardStep(t)
  <1>1. CASE BeginRename(u)
    <2>1. /\ UNCHANGED <<files, records, limbo, calls, task, aged, failures>>
          /\ rename[u].pc = "idle" /\ \A v \in Tx \ {u} : rename'[v] = rename[v]
      BY <1>1 DEF BeginRename, RenameInv, RenameOK
    <2>2. LimboKept(t) /\ PcKept(t) /\ CallersKept(t) /\ Queued(t)' = Queued(t)
      BY <2>1 DEF LimboKept, PcKept, CallersKept, Queued
    <2> QED  BY <2>1, <2>2, GuardRest
  <1>2. ASSUME NEW ok \in BOOLEAN, Inquire(u, ok)
        PROVE  GuardStep(t)
    <2>1. /\ UNCHANGED <<files, records, limbo, rename, calls, aged, told>>
          /\ \E w : task' = [task EXCEPT !["cleanup_dst"][u] = w]
      BY <1>2 DEF Inquire, Start
    <2>2. Queued(t)' \subseteq Queued(t)
      BY <2>1, QueuedKept DEF Task, RenameInv
    <2>3. LimboKept(t) /\ PcKept(t) /\ CallersKept(t)
      BY <2>1 DEF LimboKept, PcKept, CallersKept
    <2> QED  BY <2>1, <2>2, <2>3, GuardRest
  <1> QED  BY <1>1, <1>2

\* A proposal that had failed is applied: it was among the commands coming.
LEMMA CommitLateGuard ==
    ASSUME RenameInv, CommitLate, NEW t \in Tx, GuardOK(t)
    PROVE  GuardStep(t)
  <1>1. PICK p \in limbo : ApplyCommand(p[1], p[2]) /\ limbo' = limbo \ {p}
    BY DEF CommitLate
  <1>2. UNCHANGED <<rename, calls, task, aged>>
    BY DEF CommitLate
  <1>3. p[1] \in Shard /\ GoodCommand(p[1], p[2])
    BY DEF RenameInv, ShardsOK, LimboOK
  <1>4. /\ LimboKept(t) /\ PcKept(t) /\ CallersKept(t) /\ Queued(t)' = Queued(t)
        /\ Coming(t)' \subseteq Coming(t)
    BY <1>1, <1>2 DEF LimboKept, PcKept, CallersKept, Queued, Coming
  <1>5. /\ records \in [Shard -> [Tx -> Record \cup {Nil}]]
        /\ records' = [records EXCEPT ![p[1]] = RecordsAfter(records[p[1]], p[2])]
    BY <1>1 DEF ApplyCommand, RenameInv, ShardsOK, RecordsOK
  <1>6. CASE p[1] = "dst" \/ p[2].tx # t
    <2>1. CASE p[1] = "dst"
      BY <1>2, <1>4, <1>5, <2>1, GuardRest DEF Shard
    <2>2. CASE p[1] = "src" /\ p[2].tx # t
      <3>1. GoodCommand("src", p[2]) /\ records["src"] \in [Tx -> Record \cup {Nil}]
        BY <1>3, <1>5, <2>2
      <3>2. RecordsAfter(records["src"], p[2])[t] = records["src"][t]
        BY <2>2, <3>1, RecordAfter
      <3> QED  BY <1>2, <1>4, <1>5, <2>2, <3>2, GuardRest DEF Shard
    <2> QED  BY <1>3, <1>6, <2>1, <2>2 DEF Shard
  <1>7. CASE p[1] = "src" /\ p[2].tx = t
    <2>1. p[2] \in Coming(t) /\ GoodCommand("src", p[2])
      BY <1>3, <1>7 DEF Coming
    <2>2. records'["src"][t] = RecordsAfter(records["src"], p[2])[t]
      BY <1>5, <1>7 DEF Shard
    <2>3. \A d \in Queued(t)' : d.tx = t
      BY <1>4 DEF GuardOK
    <2> QED  BY <1>2, <1>4, <1>7, <2>1, <2>2, <2>3 DEF GuardStep, CallersKept, PcKept
  <1> QED  BY <1>3, <1>6, <1>7 DEF Shard

\* A crash only takes away.
LEMMA CrashGuard ==
    ASSUME RenameInv, CrashCoordinator \/ CrashParticipant, NEW t \in Tx, GuardOK(t)
    PROVE  GuardStep(t)
  <1>1. UNCHANGED <<files, records, limbo, aged>> /\ LimboKept(t)
    BY DEF CrashCoordinator, CrashParticipant, LimboKept
  <1>2. CASE CrashCoordinator
    <2>1. /\ task' = [task EXCEPT !["recovery"] = [v \in Tx |-> Idle],
                                  !["cleanup_src"] = [v \in Tx |-> Idle]]
          /\ calls' = {[c EXCEPT !.caller = Nil] : c \in calls}
          /\ rename'[t] = rename[t] \/ rename'[t] = [rename[t] EXCEPT !.pc = "done"]
      BY <1>2 DEF CrashCoordinator
    <2>2. task'["recovery"][t] = Idle /\ task'["cleanup_src"][t] = Idle
      BY <2>1 DEF RenameInv, TaskOK, Task
    <2>3. Queued(t)' \subseteq Queued(t)
      BY <2>2 DEF Queued, Idle
    <2>4. ASSUME NEW c \in calls'
          PROVE  c.caller = Nil
      <3>1. PICK d \in calls : c = [d EXCEPT !.caller = Nil]
        BY <2>1
      <3> QED  BY <3>1 DEF RenameInv, CallsOK, CallRecord
    <2>5. CallersKept(t)
      BY <2>4 DEF CallersKept
    <2>6. PcKept(t)
      BY <2>1 DEF PcKept, RenameInv, RenameOK
    <2> QED  BY <1>1, <2>3, <2>5, <2>6, GuardRest
  <1>3. CASE CrashParticipant
    <2>1. /\ task' = [task EXCEPT !["cleanup_dst"] = [v \in Tx |-> Idle]]
          /\ UNCHANGED <<rename, calls>>
      BY <1>3 DEF CrashParticipant
    <2>2. task'["recovery"] = task["recovery"] /\ task'["cleanup_src"] = task["cleanup_src"]
      BY <2>1 DEF RenameInv, TaskOK, Task
    <2>3. Queued(t)' = Queued(t)
      BY <2>2 DEF Queued
    <2>4. CallersKept(t) /\ PcKept(t)
      BY <2>1 DEF CallersKept, PcKept
    <2> QED  BY <1>1, <2>3, <2>4, GuardRest
  <1> QED  BY <1>2, <1>3

\* An hour after t, with nothing of t under way, no command is coming.
LEMMA AgedGuard ==
    ASSUME RenameInv, NEW t \in Tx, Age(t)
    PROVE  GuardOK(t)' /\ records' = records
  <1>1. /\ rename[t].pc = "done" /\ \A c \in calls : c.tx # t
        /\ \A k \in Task : task[k][t] = Idle
        /\ limbo' = {p \in limbo : p[2].tx # t}
        /\ UNCHANGED <<records, rename, calls, task>>
    BY DEF Age
  <1>2. Queued(t)' = {}
    BY <1>1 DEF Queued, Idle, Task
  <1>3. Coming(t)' = {}
    BY <1>1, <1>2 DEF Coming
  <1> QED  BY <1>1, <1>2, <1>3 DEF GuardOK

\* What a step leaves of the guard of t, and that it deletes no record that is
\* committed and not acknowledged.
GuardHolds(t) ==
    LET r == records["src"][t]
    IN  /\ GuardOK(t)'
        /\ r # Nil /\ r.state = "Committed" /\ ~r.participant_acked => records'["src"][t] # Nil

LEMMA NextGuards ==
    ASSUME GuardInv, [Next]_vars, NEW t \in Tx
    PROVE  GuardHolds(t)
  <1> USE DEF GuardInv
  <1>0. RecordsOK /\ GuardOK(t)
    BY DEF RenameInv, ShardsOK
  <1>1. ASSUME GuardStep(t)
        PROVE  GuardHolds(t)
    BY <1>0, <1>1, GuardKeeps DEF GuardHolds
  <1>2. ASSUME NEW u \in Tx,
               \/ BeginRename(u)
               \/ \E ok \in BOOLEAN : RenameStep(u, ok) \/ TaskStep(u, ok)
               \/ StartRecovery(u) \/ StartCoordinatorCleanup(u) \/ StartParticipantCleanup(u)
        PROVE  GuardStep(t)
    <2>1. CASE BeginRename(u) \/ \E ok \in BOOLEAN : Inquire(u, ok)
      BY <1>0, <2>1, BeginGuard
    <2>2. CASE \E ok \in BOOLEAN : RenameStep(u, ok)
      BY <1>0, <2>2, RenameStepGuard
    <2>3. CASE \E ok \in BOOLEAN : \E k \in Task : RunTask(k, u, ok)
      BY <1>0, <2>3, RunTaskGuard
    <2>4. CASE StartRecovery(u) \/ StartCoordinatorCleanup(u) \/ StartParticipantCleanup(u)
      BY <1>0, <2>4, StartGuard
    <2> QED  BY <1>2, <2>1, <2>2, <2>3, <2>4 DEF TaskStep
  <1>3. ASSUME NEW u \in Tx, Age(u), t # u
        PROVE  GuardStep(t)
    <2>1. /\ limbo' \subseteq limbo /\ (t \in aged' <=> t \in aged)
          /\ UNCHANGED <<records, rename, calls, task>>
      BY <1>3 DEF Age
    <2>2. LimboKept(t) /\ PcKept(t) /\ CallersKept(t) /\ Queued(t)' = Queued(t)
      BY <2>1 DEF LimboKept, PcKept, CallersKept, Queued
    <2> QED  BY <1>0, <2>1, <2>2, GuardRest
  <1>4. ASSUME Age(t)
        PROVE  GuardHolds(t)
    BY <1>4, AgedGuard DEF GuardHolds
  <1>5. ASSUME NEW c \in calls, RpcFails(c) \/ \E ok \in BOOLEAN : CallStep(c, ok)
        PROVE  GuardStep(t)
    BY <1>0, <1>5, RpcFailsGuard, CallStepGuard
  <1>6. CASE CommitLate \/ CrashCoordinator \/ CrashParticipant
    BY <1>0, <1>1, <1>6, CommitLateGuard, CrashGuard
  <1>7. CASE UNCHANGED vars
    <2>1. LimboKept(t) /\ PcKept(t) /\ CallersKept(t) /\ Queued(t)' = Queued(t)
      BY <1>7 DEF vars, LimboKept, PcKept, CallersKept, Queued
    <2>2. GuardStep(t)
      BY <1>0, <1>7, <2>1, GuardRest DEF vars
    <2> QED  BY <1>1, <2>2
  <1> QED  BY <1>1, <1>2, <1>3, <1>4, <1>5, <1>6, <1>7 DEF Next

-----------------------------------------------------------------------------
(* The theorems.                                                           *)

\* The inductive invariant: what may lead to the deletion of a source, or to a
\* record that says Committed, is there only once the file has arrived.
THEOREM RenameInvariant == Spec => []RenameInv
  <1>1. Init => RenameInv
    BY InitHolds
  <1>2. RenameInv /\ [Next]_vars => RenameInv'
    BY NextKeeps
  <1> QED  BY <1>1, <1>2, PTL DEF Spec

\* The state stays of its type under every handler, task, failure and late commit.
THEOREM RenameTypes == Spec => []TypeOK
  <1>1. RenameInv => TypeOK
    BY DEF RenameInv, TypeOK, ShardsOK, FilesOK, RecordsOK, RenameOK
  <1> QED  BY <1>1, RenameInvariant, PTL

\* Without collisions the file at the destination of a rename is the one it moves.
LEMMA ArrivedIsOwn ==
    ASSUME NoCollision, RenameInv, NEW t \in Tx, Arrived(t)
    PROVE  files["dst"][Dest[t]] = Source[t]
  BY DEF NoCollision, RenameInv, ShardsOK, FilesOK, Arrived, Rivals

\* No file is lost by rename, its recovery and its cleanup, whatever fails and
\* however often, if no two files are renamed to one path.
THEOREM NoFileLost ==
    ASSUME NoCollision
    PROVE  Spec => []ContentPreserved
  <1>1. RenameInv => ContentPreserved
    <2> SUFFICES ASSUME RenameInv, NEW c \in Content
                 PROVE  \/ files["src"][c] = c
                        \/ \E p \in DestPath : files["dst"][p] = c
      BY DEF ContentPreserved
    <2>1. files["src"][c] \in {c, Nil}
      BY DEF RenameInv, ShardsOK, FilesOK, Content
    <2>2. ASSUME files["src"][c] = Nil
          PROVE  \E p \in DestPath : files["dst"][p] = c
      <3>1. PICK t \in Tx : Source[t] = c /\ Arrived(t)
        BY <2>2 DEF RenameInv, ShardsOK, FilesOK, Content
      <3> QED  BY <3>1, Paths, ArrivedIsOwn
    <2> QED  BY <2>1, <2>2
  <1> QED  BY <1>1, RenameInvariant, PTL

\* A rename that its client was told succeeded, or that the coordinator records as
\* Committed, has its file at the destination.
THEOREM CommittedRenamesMoved ==
    ASSUME NoCollision
    PROVE  Spec => []CommittedIsMoved
  <1>1. RenameInv => CommittedIsMoved
    BY ArrivedIsOwn DEF RenameInv, CommittedIsMoved, ShardsOK, RecordsOK, RenameOK, Begun, Shard
  <1> QED  BY <1>1, RenameInvariant, PTL

\* The GC guard of the coordinator: a record that is committed and not acknowledged is
\* never collected, by no cleanup round that read it earlier and no deletion that
\* failed for its proposer and is applied late.
THEOREM UnackedRecordsKept == Spec => UnackedRecordKept
  <1>1. Init => GuardInv
    <2>1. ASSUME Init, NEW t \in Tx
          PROVE  GuardOK(t)
      <3>1. Queued(t) = {}
        BY <2>1 DEF Init, Queued, Idle, Task
      <3>2. Coming(t) = {}
        BY <2>1, <3>1 DEF Init, Coming
      <3> QED  BY <2>1, <3>1, <3>2 DEF Init, GuardOK
    <2> QED  BY <2>1, InitHolds DEF GuardInv
  <1>2. GuardInv /\ [Next]_vars => GuardInv'
    BY NextKeeps, NextGuards DEF GuardInv, GuardHolds
  <1>3. GuardInv /\ [Next]_vars =>
          [\A t \in Tx : LET r == records["src"][t] IN
             r # Nil /\ r.state = "Committed" /\ ~r.participant_acked
               => records'["src"][t] # Nil]_vars
    BY NextGuards DEF GuardHolds
  <1> QED  BY <1>1, <1>2, <1>3, PTL DEF Spec, UnackedRecordKept
=============================================================================

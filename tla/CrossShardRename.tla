-------------------------- MODULE CrossShardRename --------------------------
(***************************************************************************)
(* Renames that move a file from one metaserver shard to another:          *)
(* dfs/metaserver/src/master.rs, a two-phase commit between the leader of  *)
(* the shard that holds the file (the coordinator, "src") and the leader   *)
(* of the shard that will (the participant, "dst"), with the background    *)
(* tasks run_transaction_cleanup and run_transaction_recovery.             *)
(*                                                                         *)
(* A shard is what its Raft group has applied, as its leader reads it.     *)
(* What a handler reads and what it then proposes are separate steps.  A   *)
(* proposal is applied, or it fails for its proposer and then is applied   *)
(* later or never (limbo): an answer of step_down_to_follower, or none.    *)
(* An RPC may fail for its caller while its handler still runs, or runs    *)
(* later.  A record may be older than 10 seconds at any time; it is older  *)
(* than an hour (aged) only once everything about it has come to rest.     *)
(***************************************************************************)
EXTENDS Naturals, Sequences, FiniteSets

CONSTANTS
    Tx,                   \* renames; each is one call of the rename RPC
    Source, Dest,         \* the paths each one moves from and to
    Nil,                  \* no file, no record, no caller
    MAX_INQUIRY_RETRIES,  \* 60 in the code
    MaxFailures           \* proposals and RPCs that fail, and crashes

ASSUME PathAssumption ==
    DOMAIN Source = Tx /\ DOMAIN Dest = Tx /\ \A t \in Tx : Source[t] # Nil
ASSUME NilAssumption == Nil \notin {"rename", "recovery", "success"}
ASSUME LimitAssumption == MAX_INQUIRY_RETRIES \in Nat /\ MaxFailures \in Nat

Shard == {"src", "dst"}
SourcePath == {Source[t] : t \in Tx}
DestPath == {Dest[t] : t \in Tx}
Path == SourcePath \cup DestPath
Content == SourcePath     \* a file is known by the path it was created at
Task == {"recovery", "cleanup_src", "cleanup_dst"}

VARIABLES
    files,      \* files[s]: MasterState.files, from path to content
    records,    \* records[s]: MasterState.transaction_records
    limbo,      \* proposals that failed for their proposer
    rename,     \* the rename handlers of the coordinator
    calls,      \* RPC handlers of the participant
    task,       \* what each background task does about each transaction
    aged,       \* transactions older than an hour
    told,       \* History: what the client of each rename was told
    failures    \* how many failures have happened

vars == <<files, records, limbo, rename, calls, task, aged, told, failures>>

TxState == {"Pending", "Prepared", "Committed", "Aborted"}

Record == [state : TxState, content : Content, participant_acked : BOOLEAN,
           inquiry_count : Nat]

ASSUME RecordAssumption == Nil \notin Record

NewRecord(state, content) ==
    [state |-> state, content |-> content, participant_acked |-> FALSE, inquiry_count |-> 0]

-----------------------------------------------------------------------------
(* The commands on transactions and what apply_command makes of them.      *)

CreateTransactionRecord(t, r) == [op |-> "CreateTransactionRecord", tx |-> t, record |-> r]
UpdateTransactionState(t, x)  == [op |-> "UpdateTransactionState", tx |-> t, state |-> x]
DeleteSource(t)               == [op |-> "Delete", tx |-> t, path |-> Source[t]]
CreateDest(t, c)              == [op |-> "Create", tx |-> t, path |-> Dest[t], content |-> c]
SetParticipantAcked(t)        == [op |-> "SetParticipantAcked", tx |-> t]
IncrementInquiryCount(t)      == [op |-> "IncrementInquiryCount", tx |-> t]
DeleteTransactionRecord(t)    == [op |-> "DeleteTransactionRecord", tx |-> t]

\* The files F of a shard after command c.  Create keeps a file that is there.
FilesAfter(F, c) ==
    CASE c.op = "Delete" -> [F EXCEPT ![c.path] = Nil]
      [] c.op = "Create" /\ F[c.path] = Nil -> [F EXCEPT ![c.path] = c.content]
      [] OTHER -> F

\* The transaction records R of a shard after command c.  Every command but the
\* creation of a record finds it or does nothing.
RecordsAfter(R, c) ==
    IF c.op = "CreateTransactionRecord" THEN [R EXCEPT ![c.tx] = c.record]
    ELSE IF R[c.tx] = Nil THEN R
    ELSE CASE c.op = "UpdateTransactionState"  -> [R EXCEPT ![c.tx].state = c.state]
           [] c.op = "SetParticipantAcked"     -> [R EXCEPT ![c.tx].participant_acked = TRUE]
           [] c.op = "IncrementInquiryCount"   -> [R EXCEPT ![c.tx].inquiry_count = @ + 1]
           [] c.op = "DeleteTransactionRecord" -> [R EXCEPT ![c.tx] = Nil]
           [] OTHER -> R

ApplyCommand(s, c) ==
    /\ files' = [files EXCEPT ![s] = FilesAfter(@, c)]
    /\ records' = [records EXCEPT ![s] = RecordsAfter(@, c)]

Fail == failures < MaxFailures /\ failures' = failures + 1

\* Command c is proposed to shard s; ok is what its proposer learns.
Propose(s, c, ok) ==
    IF ok
    THEN ApplyCommand(s, c) /\ UNCHANGED <<limbo, failures>>
    ELSE /\ Fail
         /\ limbo' = limbo \cup {<<s, c>>}
         /\ UNCHANGED <<files, records>>

\* The shard's Raft group commits a proposal after all.
CommitLate ==
    /\ \E p \in limbo : ApplyCommand(p[1], p[2]) /\ limbo' = limbo \ {p}
    /\ UNCHANGED <<rename, calls, task, aged, told, failures>>

-----------------------------------------------------------------------------
Idle == [pc |-> "idle", copy |-> Nil, todo |-> <<>>]

Init ==
    /\ files = [s \in Shard |-> [p \in Path |->
                  IF s = "src" /\ p \in SourcePath THEN p ELSE Nil]]
    /\ records = [s \in Shard |-> [t \in Tx |-> Nil]]
    /\ limbo = {}
    /\ rename = [t \in Tx |-> [pc |-> "idle", content |-> Nil]]
    /\ calls = {}
    /\ task = [k \in Task |-> [t \in Tx |-> Idle]]
    /\ aged = {}
    /\ told = [t \in Tx |-> Nil]
    /\ failures = 0

-----------------------------------------------------------------------------
(* The rename handler.  Its pc names the proposal or the RPC it is at.     *)

\* The RPC a handler waits for at each pc.
RpcAt == [prepare |-> "prepare", commit |-> "commit", abort |-> "abort",
          abort_and_return |-> "abort"]

\* An RPC about t.  operation is what a commit handler has read from the record.
Call(kind, t, caller) ==
    [kind |-> kind, tx |-> t, stage |-> "arrived", caller |-> caller, operation |-> Nil]

\* The handler of t goes to pc, sends the RPC it is to wait for there, and at the
\* end answers its client.  calls0 are the other RPCs.
GoTo(t, pc, answer, calls0) ==
    /\ rename' = [rename EXCEPT ![t].pc = pc]
    /\ calls' = calls0 \cup
         (IF pc \in DOMAIN RpcAt THEN {Call(RpcAt[pc], t, "rename")} ELSE {})
    /\ told' = IF pc = "done" THEN [told EXCEPT ![t] = answer] ELSE told

\* Up to the first proposal: the source's metadata is read.
BeginRename(t) ==
    /\ rename[t].pc = "idle"
    /\ IF files["src"][Source[t]] = Nil
       THEN /\ rename' = [rename EXCEPT ![t].pc = "done"]
            /\ told' = [told EXCEPT ![t] = "failure"]
       ELSE /\ rename' = [rename EXCEPT ![t] =
                            [pc |-> "record", content |-> files["src"][Source[t]]]]
            /\ UNCHANGED told
    /\ UNCHANGED <<files, records, limbo, calls, task, aged, failures>>

\* Step 1: the record; without it the rename ends.
RecordPending(t, ok) ==
    /\ rename[t].pc = "record"
    /\ Propose("src", CreateTransactionRecord(t, NewRecord("Pending", rename[t].content)), ok)
    /\ GoTo(t, IF ok THEN "prepared" ELSE "done", "failure", calls)
    /\ UNCHANGED <<task, aged>>

\* Step 2: Prepared, before the participant has heard of the rename.
RecordPrepared(t, ok) ==
    /\ rename[t].pc = "prepared"
    /\ Propose("src", UpdateTransactionState(t, "Prepared"), ok)
    /\ GoTo(t, IF ok THEN "prepare" ELSE "abort_and_return", Nil, calls)
    /\ UNCHANGED <<task, aged>>

\* Mutant: the source is deleted with the commit, whatever the participant says.
AfterRpcEager(t, ok, calls0) ==
    CASE rename[t].pc = "prepare" -> GoTo(t, IF ok THEN "commit" ELSE "abort", Nil, calls0)
      [] rename[t].pc = "commit"  -> GoTo(t, "delete", "pending", calls0)
      [] rename[t].pc = "abort"   -> GoTo(t, "aborted", Nil, calls0)
      [] rename[t].pc = "abort_and_return" -> GoTo(t, "done", "failure", calls0)

\* Steps 3 and 4, and the abort RPCs: what the answer ok of the RPC leads to.
AfterRpc(t, ok, calls0) ==
    CASE rename[t].pc = "prepare" -> GoTo(t, IF ok THEN "commit" ELSE "abort", Nil, calls0)
      [] rename[t].pc = "commit"  -> GoTo(t, IF ok THEN "delete" ELSE "done", "pending", calls0)
      [] rename[t].pc = "abort"   -> GoTo(t, "aborted", Nil, calls0)
      [] rename[t].pc = "abort_and_return" -> GoTo(t, "done", "failure", calls0)

\* The local abort after a failed prepare; its outcome is ignored.
RecordAborted(t, ok) ==
    /\ rename[t].pc = "aborted"
    /\ Propose("src", UpdateTransactionState(t, "Aborted"), ok)
    /\ GoTo(t, "done", "failure", calls)
    /\ UNCHANGED <<task, aged>>

\* Steps 5 to 8: delete, commit, acknowledge; no outcome is looked at.
Finish(t, ok) ==
    /\ \/ /\ rename[t].pc = "delete"
          /\ Propose("src", DeleteSource(t), ok)
          /\ GoTo(t, "committed", Nil, calls)
       \/ /\ rename[t].pc = "committed"
          /\ Propose("src", UpdateTransactionState(t, "Committed"), ok)
          /\ GoTo(t, "acked", Nil, calls)
       \/ /\ rename[t].pc = "acked"
          /\ Propose("src", SetParticipantAcked(t), ok)
          /\ GoTo(t, "done", "success", calls)
    /\ UNCHANGED <<task, aged>>

-----------------------------------------------------------------------------
(* The RPC handlers of the participant.                                    *)

\* What the recovery task does once its commit RPC is answered.
RecoveryTodo(t, copy) ==
    IF copy.state = "Committed"
    THEN <<SetParticipantAcked(t)>>
    ELSE <<DeleteSource(t), UpdateTransactionState(t, "Committed"), SetParticipantAcked(t)>>

\* The caller of c, if it still waits, gets the answer ok; calls0 are the RPCs
\* that remain.
Reply(c, ok, calls0) ==
    CASE c.caller = "rename" -> AfterRpc(c.tx, ok, calls0) /\ UNCHANGED task
      [] c.caller = "recovery" ->
           /\ LET w == task["recovery"][c.tx]
              IN  task' = [task EXCEPT !["recovery"][c.tx] =
                    IF ok THEN [w EXCEPT !.pc = "run", !.todo = RecoveryTodo(c.tx, w.copy)]
                    ELSE Idle]
           /\ calls' = calls0
           /\ UNCHANGED <<rename, told>>
      [] OTHER -> calls' = calls0 /\ UNCHANGED <<rename, told, task>>

\* ... or, refused or without an answer, it calls the next peer.
ReplyOrResend(c, ok, calls0) ==
    \/ Reply(c, ok, calls0)
    \/ /\ ~ok /\ c.caller # Nil
       /\ calls' = calls0 \cup {Call(c.kind, c.tx, c.caller)}
       /\ UNCHANGED <<rename, told, task>>

\* The handler of c goes on to stage with the operation it has read.
Proceed(c, stage, operation) ==
    /\ calls' = (calls \ {c}) \cup {[c EXCEPT !.stage = stage, !.operation = operation]}
    /\ UNCHANGED <<rename, told, task>>

PrepareArrives(c) ==
    /\ c.kind = "prepare" /\ c.stage = "arrived"
    /\ \/ records["dst"][c.tx] # Nil /\ Reply(c, TRUE, calls \ {c})
       \/ /\ records["dst"][c.tx] = Nil
          /\ files["dst"][Dest[c.tx]] # Nil
          /\ Reply(c, FALSE, calls \ {c})
       \/ /\ records["dst"][c.tx] = Nil
          /\ files["dst"][Dest[c.tx]] = Nil
          /\ Proceed(c, "create", Nil)
    /\ UNCHANGED <<files, records, limbo, aged, failures>>

\* Mutant: the request carries no metadata.
PrepareRecordsNothing(c, ok) ==
    /\ c.kind = "prepare" /\ c.stage = "create"
    /\ Propose("dst", CreateTransactionRecord(c.tx, NewRecord("Prepared", Nil)), ok)
    /\ ReplyOrResend(c, ok, calls \ {c})
    /\ UNCHANGED aged

PrepareRecords(c, ok) ==
    /\ c.kind = "prepare" /\ c.stage = "create"
    /\ Propose("dst", CreateTransactionRecord(c.tx,
                        NewRecord("Prepared", rename[c.tx].content)), ok)
    /\ ReplyOrResend(c, ok, calls \ {c})
    /\ UNCHANGED aged

\* Mutant: a transaction that is not found is taken for one that is done.
CommitArrivesBlind(c) ==
    LET r == records["dst"][c.tx]
    IN  /\ c.kind = "commit" /\ c.stage = "arrived"
        /\ \/ r = Nil /\ Reply(c, TRUE, calls \ {c})
           \/ r # Nil /\ r.state = "Committed" /\ Reply(c, TRUE, calls \ {c})
           \/ r # Nil /\ r.state # "Committed" /\ Proceed(c, "apply", r.content)
        /\ UNCHANGED <<files, records, limbo, aged, failures>>

CommitArrives(c) ==
    LET r == records["dst"][c.tx]
    IN  /\ c.kind = "commit" /\ c.stage = "arrived"
        /\ \/ r = Nil /\ Reply(c, FALSE, calls \ {c})
           \/ r # Nil /\ r.state = "Committed" /\ Reply(c, TRUE, calls \ {c})
           \/ r # Nil /\ r.state # "Committed" /\ Proceed(c, "apply", r.content)
        /\ UNCHANGED <<files, records, limbo, aged, failures>>

\* The operation of the record read on arrival; only its failure is reported.
CommitApplies(c, ok) ==
    /\ c.kind = "commit" /\ c.stage = "apply"
    /\ Propose("dst", CreateDest(c.tx, c.operation), ok)
    /\ IF ok THEN Proceed(c, "update", Nil) ELSE ReplyOrResend(c, FALSE, calls \ {c})
    /\ UNCHANGED aged

CommitUpdates(c, ok) ==
    /\ c.kind = "commit" /\ c.stage = "update"
    /\ Propose("dst", UpdateTransactionState(c.tx, "Committed"), ok)
    /\ Reply(c, TRUE, calls \ {c})
    /\ UNCHANGED aged

AbortArrives(c, ok) ==
    /\ c.kind = "abort"
    /\ Propose("dst", UpdateTransactionState(c.tx, "Aborted"), ok)
    /\ ReplyOrResend(c, ok, calls \ {c})
    /\ UNCHANGED aged

\* The caller of c sees an error.  The handler may run on, or start late, or never.
RpcFails(c) ==
    /\ c.caller # Nil
    /\ Fail
    /\ ReplyOrResend(c, FALSE, (calls \ {c}) \cup {[c EXCEPT !.caller = Nil]})
    /\ UNCHANGED <<files, records, limbo, aged>>

-----------------------------------------------------------------------------
(* The background tasks.  A round starts from a copy of the record.        *)

Start(k, t, todo) ==
    task' = [task EXCEPT ![k][t] =
               IF todo = <<>> THEN Idle ELSE [Idle EXCEPT !.pc = "run", !.todo = todo]]

\* run_transaction_recovery: committed and not acknowledged, or prepared for long.
StartRecovery(t) ==
    LET r == records["src"][t]
    IN  /\ task["recovery"][t] = Idle
        /\ r # Nil
        /\ r.state = "Prepared" \/ (r.state = "Committed" /\ ~r.participant_acked)
        /\ task' = [task EXCEPT !["recovery"][t] = [Idle EXCEPT !.pc = "commit", !.copy = r]]
        /\ calls' = calls \cup {Call("commit", t, "recovery")}
        /\ UNCHANGED <<files, records, limbo, rename, aged, told, failures>>

\* Mutant: without the GC guard.
StartCoordinatorCleanupUnguarded(t) ==
    LET r == records["src"][t]
    IN  /\ task["cleanup_src"][t] = Idle
        /\ r # Nil
        /\ \/ /\ r.state = "Pending"
              /\ Start("cleanup_src", t, <<UpdateTransactionState(t, "Aborted")>>)
           \/ /\ t \in aged
              /\ r.state \in {"Aborted", "Committed"}
              /\ Start("cleanup_src", t, <<DeleteTransactionRecord(t)>>)
        /\ UNCHANGED <<files, records, limbo, rename, calls, aged, told, failures>>

\* run_transaction_cleanup at the coordinator.
StartCoordinatorCleanup(t) ==
    LET r == records["src"][t]
    IN  /\ task["cleanup_src"][t] = Idle
        /\ r # Nil
        /\ \/ /\ r.state = "Pending"
              /\ Start("cleanup_src", t, <<UpdateTransactionState(t, "Aborted")>>)
           \/ /\ t \in aged
              /\ r.state = "Aborted" \/ (r.state = "Committed" /\ r.participant_acked)
              /\ Start("cleanup_src", t, <<DeleteTransactionRecord(t)>>)
        /\ UNCHANGED <<files, records, limbo, rename, calls, aged, told, failures>>

\* run_transaction_cleanup at the participant: a prepared record is inquired about.
StartParticipantCleanup(t) ==
    LET r == records["dst"][t]
    IN  /\ task["cleanup_dst"][t] = Idle
        /\ r # Nil
        /\ \/ /\ r.state = "Prepared"
              /\ task' = [task EXCEPT !["cleanup_dst"][t] =
                            [Idle EXCEPT !.pc = "inquire", !.copy = r]]
           \/ /\ t \in aged
              /\ r.state \in {"Aborted", "Committed"}
              /\ Start("cleanup_dst", t, <<DeleteTransactionRecord(t)>>)
        /\ UNCHANGED <<files, records, limbo, rename, calls, aged, told, failures>>

\* inquire_transaction of the coordinator.
InquiryStatus(t) ==
    LET r == records["src"][t]
    IN  IF r # Nil /\ r.state = "Committed" THEN "COMMITTED"
        ELSE IF r # Nil /\ r.state = "Aborted" THEN "ABORTED" ELSE "UNKNOWN"

\* Mutant: no answer but COMMITTED or ABORTED ends a prepared transaction.
InquiryTodoForever(t, copy) ==
    CASE InquiryStatus(t) = "COMMITTED" ->
           <<CreateDest(t, copy.content), UpdateTransactionState(t, "Committed")>>
      [] InquiryStatus(t) = "ABORTED" -> <<UpdateTransactionState(t, "Aborted")>>
      [] InquiryStatus(t) = "UNKNOWN" -> <<>>

\* What the participant does about each answer, UNKNOWN once too often included.
InquiryTodo(t, copy) ==
    CASE InquiryStatus(t) = "COMMITTED" ->
           <<CreateDest(t, copy.content), UpdateTransactionState(t, "Committed")>>
      [] InquiryStatus(t) = "ABORTED" -> <<UpdateTransactionState(t, "Aborted")>>
      [] InquiryStatus(t) = "UNKNOWN" -> <<IncrementInquiryCount(t)>> \o
           (IF copy.inquiry_count + 1 > MAX_INQUIRY_RETRIES
            THEN <<UpdateTransactionState(t, "Aborted")>> ELSE <<>>)

\* The inquiry is answered, or no peer answers and the round ends.
Inquire(t, ok) ==
    LET w == task["cleanup_dst"][t]
    IN  /\ w.pc = "inquire"
        /\ IF ok
           THEN Start("cleanup_dst", t, InquiryTodo(t, w.copy)) /\ UNCHANGED failures
           ELSE task' = [task EXCEPT !["cleanup_dst"][t] = Idle] /\ Fail
        /\ UNCHANGED <<files, records, limbo, rename, calls, aged, told>>

\* The next proposal of a round; no outcome is looked at.
RunTask(k, t, ok) ==
    LET w == task[k][t]
    IN  /\ w.pc = "run"
        /\ Propose(IF k = "cleanup_dst" THEN "dst" ELSE "src", Head(w.todo), ok)
        /\ task' = [task EXCEPT ![k][t] =
             IF Len(w.todo) = 1 THEN Idle ELSE [w EXCEPT !.todo = Tail(@)]]
        /\ UNCHANGED <<rename, calls, aged, told>>

-----------------------------------------------------------------------------
(* Failures and time.                                                      *)

\* The coordinator's leader dies, its rename handlers and tasks with it.
CrashCoordinator ==
    LET running == {t \in Tx : rename[t].pc \notin {"idle", "done"}}
    IN  /\ Fail
        /\ rename' = [t \in Tx |->
             IF t \in running THEN [rename[t] EXCEPT !.pc = "done"] ELSE rename[t]]
        /\ told' = [t \in Tx |-> IF t \in running THEN "crashed" ELSE told[t]]
        /\ task' = [task EXCEPT !["recovery"] = [t \in Tx |-> Idle],
                                !["cleanup_src"] = [t \in Tx |-> Idle]]
        /\ calls' = {[c EXCEPT !.caller = Nil] : c \in calls}
        /\ UNCHANGED <<files, records, limbo, aged>>

\* The participant's leader dies.  For each RPC it was at, this is RpcFails and a
\* handler that never goes on.
CrashParticipant ==
    /\ Fail
    /\ task' = [task EXCEPT !["cleanup_dst"] = [t \in Tx |-> Idle]]
    /\ UNCHANGED <<files, records, limbo, rename, calls, aged, told>>

\* An hour has passed since t began, and nothing of t is under way.
Age(t) ==
    /\ t \notin aged
    /\ rename[t].pc = "done"
    /\ \A c \in calls : c.tx # t
    /\ \A k \in Task : task[k][t] = Idle
    /\ aged' = aged \cup {t}
    /\ limbo' = {p \in limbo : p[2].tx # t}
    /\ UNCHANGED <<files, records, rename, calls, task, told, failures>>

-----------------------------------------------------------------------------
RenameStep(t, ok) ==
    RecordPending(t, ok) \/ RecordPrepared(t, ok) \/ RecordAborted(t, ok) \/ Finish(t, ok)

CallStep(c, ok) ==
    \/ ok /\ (PrepareArrives(c) \/ CommitArrives(c))
    \/ PrepareRecords(c, ok) \/ CommitApplies(c, ok) \/ CommitUpdates(c, ok)
    \/ AbortArrives(c, ok)

TaskStep(t, ok) == Inquire(t, ok) \/ \E k \in Task : RunTask(k, t, ok)

Next ==
    \/ \E t \in Tx :
         \/ BeginRename(t)
         \/ \E ok \in BOOLEAN : RenameStep(t, ok) \/ TaskStep(t, ok)
         \/ StartRecovery(t) \/ StartCoordinatorCleanup(t) \/ StartParticipantCleanup(t)
         \/ Age(t)
    \/ \E c \in calls : RpcFails(c) \/ \E ok \in BOOLEAN : CallStep(c, ok)
    \/ CommitLate
    \/ CrashCoordinator
    \/ CrashParticipant

Spec == Init /\ [][Next]_vars

\* Handlers and tasks that run go on, and the intervals of the tasks tick.  An RPC
\* whose caller gave up may never be handled.
Fairness ==
    \A t \in Tx :
      /\ WF_vars(RenameStep(t, TRUE))
      /\ WF_vars(\E c \in calls : c.tx = t /\ c.caller # Nil /\ CallStep(c, TRUE))
      /\ WF_vars(TaskStep(t, TRUE))
      /\ WF_vars(StartRecovery(t))
      /\ WF_vars(StartParticipantCleanup(t))

FairSpec == Spec /\ Fairness

-----------------------------------------------------------------------------
(* Properties.                                                             *)

TypeOK ==
    /\ files \in [Shard -> [Path -> Content \cup {Nil}]]
    /\ records \in [Shard -> [Tx -> Record \cup {Nil}]]
    /\ told \in [Tx -> {Nil, "success", "failure", "pending", "crashed"}]
    /\ aged \subseteq Tx /\ failures \in 0 .. MaxFailures

\* No file is lost: its content is at its source or at a destination, through
\* every failure, late proposal, retry and recovery of the two-phase commit.
ContentPreserved ==
    \A c \in Content : \/ files["src"][c] = c
                       \/ \E p \in DestPath : files["dst"][p] = c

\* A rename that its client was told succeeded, or that the coordinator's record
\* calls Committed, has its file at the destination.
CommittedIsMoved ==
    \A t \in Tx :
      (told[t] = "success" \/ (records["src"][t] # Nil /\ records["src"][t].state = "Committed"))
        => files["dst"][Dest[t]] = rename[t].content

\* The GC guard: a record whose commit is not acknowledged is never collected.
UnackedRecordKept ==
    [][\A t \in Tx : LET r == records["src"][t] IN
         r # Nil /\ r.state = "Committed" /\ ~r.participant_acked => records'["src"][t] # Nil]_vars

\* No participant stays prepared for ever: an inquiry or the commit RPC of the
\* recovery task ends it.
ParticipantResolves ==
    \A t \in Tx : LET r == records["dst"][t] IN
      (r # Nil /\ r.state = "Prepared") ~> (r = Nil \/ r.state # "Prepared")
=============================================================================

--------------------------- MODULE MasterRegistry ---------------------------
(***************************************************************************)
(* What a master (master.rs) knows of the chunkservers and of one file of   *)
(* one block: the replicated metadata (file), and the local state that a    *)
(* restart forgets: the registered servers, the commands waiting for their  *)
(* next heartbeat, the reported bad copies and the safe mode.  Metadata     *)
(* changes when its Raft command is applied, so the file survives crashes.  *)
(***************************************************************************)
EXTENDS Naturals, Sequences, FiniteSets, SequencesExt, Deployment

CONSTANTS
    ReplicationFactor,      \* REPLICATION_FACTOR, DEFAULT_REPLICATION_FACTOR
    DataShards, ParityShards    \* EC policy of a file created with one

ASSUME PolicyAssumption ==
    /\ ReplicationFactor \in Nat \ {0}
    /\ DataShards \in Nat \ {0} /\ ParityShards \in Nat \ {0}
    /\ DOMAIN Shards = 1 .. DataShards + ParityShards

VARIABLES
    file,       \* FileMetadata with its block's locations; its prefix in shuffling_prefixes
    reg,        \* keys of chunk_servers
    late,       \* registered servers not heard of for 15 seconds
    cmds,       \* pending_commands
    bad,        \* bad_block_locations of the block
    safe,       \* the fields of the safe mode
    rterm,      \* the term of the master's Raft group
    mterm,      \* current_term, the stamp of answers
    oterm       \* the highest current_term among the masters of other shards

tVars == <<rterm, mterm, oterm>>
mVars == <<file, reg, late, cmds, bad, safe, tVars>>

NoFile == [exists |-> FALSE, ec |-> FALSE, locs |-> <<>>, accessed |-> FALSE, cold |-> FALSE,
           shuffle |-> FALSE]
Cmd(type, target, idx, sources) ==
    [type |-> type, target |-> target, idx |-> idx, sources |-> sources]

MTypeOK ==
    /\ file \in [exists : BOOLEAN, ec : BOOLEAN, locs : Seq(Servers), accessed : BOOLEAN, cold : BOOLEAN,
              shuffle : BOOLEAN]
    /\ reg \subseteq Servers /\ late \subseteq reg /\ bad \subseteq Servers
    /\ DOMAIN cmds = Servers
    /\ safe \in [on : BOOLEAN, manual : BOOLEAN, expected : Nat, reported : Nat]
    /\ {rterm, mterm, oterm} \subseteq Nat

-----------------------------------------------------------------------------
(* Safe mode.  A restart enters it before any metadata is loaded. *)

BlockCount == IF file.locs # <<>> THEN 1 ELSE 0
EnterSafeMode(blocks, manual) == [on |-> TRUE, manual |-> manual, expected |-> blocks, reported |-> 0]

(* 99% of the blocks are all of them below a hundred; timeUp: 60 seconds.   *)
ShouldExitSafeMode(sm, servers, timeUp) ==
    /\ sm.on /\ ~sm.manual /\ servers # {}
    /\ sm.expected = 0 \/ sm.reported >= sm.expected \/ timeUp
ExitSafeMode(sm) == [sm EXCEPT !.on = FALSE, !.manual = FALSE]

Writable == ~safe.on                    \* check_safe_mode

(* set_safe_mode *)
SetSafeMode(enter) ==
    /\ safe' = IF enter THEN EnterSafeMode(BlockCount, TRUE)
               ELSE IF safe.on THEN ExitSafeMode(safe) ELSE [safe EXCEPT !.manual = FALSE]
    /\ UNCHANGED <<file, reg, late, cmds, bad, tVars>>

-----------------------------------------------------------------------------
(* Placement: the racks take turns, the roomiest server of a rack first.    *)
(* Free space is not modelled, so any order of racks and of the servers in  *)
(* a rack can come out.                                                     *)

SelectServersRackAware(candidates, n) ==
    LET turn(q, i) == Cardinality({k \in 1..i : Rack[q[k]] = Rack[q[i]]})
        fair(q) == \A i, k \in DOMAIN q : i < k => turn(q, i) <= turn(q, k)
        used(q, r) == Cardinality({i \in DOMAIN q : Rack[q[i]] = r})
        room(q, r) == \E s \in candidates : Rack[s] = r /\ s \notin ToSet(q)
        even(q) == \A i \in DOMAIN q, s \in candidates :
                       room(q, Rack[s]) => used(q, Rack[s]) >= turn(q, i) - 1
    IN  {q \in [1..n -> candidates] : IsInjective(q) /\ fair(q) /\ even(q)}

-----------------------------------------------------------------------------
(* heal_under_replicated_blocks: the sets of commands it may add, as        *)
(* functions of the server they wait for.  A replicated block is copied     *)
(* from its first live and good location to servers that hold none; every   *)
(* missing shard is rebuilt on the first server that holds none.            *)

NoCmds == [s \in Servers |-> {}]

SpareServers(servers) == servers \ ToSet(file.locs)

LiveCopies(servers, badOn) == SelectSeq(file.locs, LAMBDA s : s \in servers /\ s \notin badOn)

ReplicateCmds(servers, badOn) ==
    LET live == LiveCopies(servers, badOn)
        spare == SpareServers(servers)
        needed == ReplicationFactor - Len(live)
        n == IF needed < Cardinality(spare) THEN needed ELSE Cardinality(spare)
    IN  IF needed <= 0 \/ live = <<>> THEN {NoCmds}
        ELSE {[NoCmds EXCEPT ![live[1]] = {Cmd("replicate", t, 0, <<>>) : t \in ts}] :
                 ts \in {u \in SUBSET spare : Cardinality(u) = n}}

ReconstructCmds(servers) ==
    LET missing == {i \in DOMAIN file.locs : file.locs[i] \notin servers}
        sources == [i \in DOMAIN file.locs |-> IF i \in missing THEN Nobody ELSE file.locs[i]]
        spare == SpareServers(servers)
    IN  IF Len(file.locs) - Cardinality(missing) < DataShards \/ spare = {} THEN {NoCmds}
        ELSE {[NoCmds EXCEPT ![t] = {Cmd("reconstruct", t, i, sources) : i \in missing}] : t \in spare}

HealCmds(servers, badOn) ==
    IF servers = {} \/ ~file.exists \/ file.locs = <<>> THEN {NoCmds}
    ELSE IF file.ec THEN ReconstructCmds(servers)
    ELSE ReplicateCmds(servers, badOn)

Add(waiting, new) == [s \in Servers |-> waiting[s] \cup new[s]]

(* run_liveness_checker: servers silent for 15 seconds are forgotten with   *)
(* their commands, and the blocks they held are healed.                     *)
LivenessCheck ==
    LET live == reg \ late IN
    /\ late # {}
    /\ reg' = live /\ late' = {}
    /\ \E new \in HealCmds(live, bad) :
           cmds' = Add([s \in Servers |-> IF s \in late THEN {} ELSE cmds[s]], new)
    /\ UNCHANGED <<file, bad, safe, tVars>>

(* Mutant: the healer waits for a chunkserver to die. *)
PeriodicHealNever == FALSE /\ UNCHANGED mVars
(* run_periodic_healer *)
PeriodicHeal ==
    /\ \E new \in HealCmds(reg, bad) : cmds' = Add(cmds, new)
    /\ UNCHANGED <<file, reg, late, bad, safe, tVars>>

(* Mutant: the balancer does not look where the block already is. *)
MovableAnywhere(full, empty) == file.exists /\ full \in ToSet(file.locs)
(* A block of the fullest server may go to the emptiest one if that one is  *)
(* not a location.                                                          *)
Movable(full, empty) == file.exists /\ full \in ToSet(file.locs) /\ empty \notin ToSet(file.locs)

CopyTo(full, empty) == cmds' = [cmds EXCEPT ![full] = @ \cup {Cmd("replicate", empty, 0, <<>>)}]

(* run_block_balancer *)
Balance(full, empty) ==
    /\ {full, empty} \subseteq reg /\ full # empty
    /\ Movable(full, empty) /\ CopyTo(full, empty)
    /\ UNCHANGED <<file, reg, late, bad, safe, tVars>>

(* initiate_shuffle; ingest_metadata triggers a shuffle too. *)
InitiateShuffle ==
    /\ Writable
    /\ file' = [file EXCEPT !.shuffle = TRUE]
    /\ UNCHANGED <<reg, late, cmds, bad, safe, tVars>>

(* run_data_shuffler goes on until the block need not move.  The copy does  *)
(* not become a location, so the same one is made again and again.          *)
Shuffle(full, empty) ==
    /\ file.shuffle /\ {full, empty} \subseteq reg /\ full # empty
    /\ IF Movable(full, empty) THEN CopyTo(full, empty) /\ UNCHANGED file
       ELSE file' = [file EXCEPT !.shuffle = FALSE] /\ UNCHANGED cmds
    /\ UNCHANGED <<reg, late, bad, safe, tVars>>

(* scan_tiering: MOVE_TO_COLD for every location, then the Raft command. *)
ScanTiering ==
    /\ file.exists /\ file.accessed /\ ~file.cold /\ ~file.ec
    /\ cmds' = [s \in Servers |-> IF s \in ToSet(file.locs)
                                  THEN cmds[s] \cup {Cmd("cold", s, 0, <<>>)} ELSE cmds[s]]
    /\ file' = [file EXCEPT !.cold = TRUE]
    /\ UNCHANGED <<reg, late, bad, safe, tVars>>

-----------------------------------------------------------------------------
(* RPCs of clients. *)

CreateFile(ec) ==
    /\ Writable /\ ~file.exists
    /\ file' = [NoFile EXCEPT !.exists = TRUE, !.ec = ec, !.shuffle = file.shuffle]
    /\ UNCHANGED <<reg, late, cmds, bad, safe, tVars>>

DeleteFile ==
    /\ Writable /\ file.exists
    /\ file' = [NoFile EXCEPT !.shuffle = file.shuffle]
    /\ UNCHANGED <<reg, late, cmds, bad, safe, tVars>>

Width(ec) == IF ec THEN DataShards + ParityShards ELSE ReplicationFactor

AllocateBlock ==
    LET n == IF file.ec \/ Cardinality(reg) >= ReplicationFactor THEN Width(file.ec) ELSE Cardinality(reg)
    IN
    /\ Writable /\ file.exists /\ n > 0 /\ n <= Cardinality(reg)
    /\ \E q \in SelectServersRackAware(reg, n) : file' = [file EXCEPT !.locs = q]
    /\ UNCHANGED <<reg, late, cmds, bad, safe, tVars>>

(* get_file_info proposes UpdateAccessStats before it answers. *)
GetFileInfo ==
    /\ file.exists /\ ~file.accessed
    /\ file' = [file EXCEPT !.accessed = TRUE]
    /\ UNCHANGED <<reg, late, cmds, bad, safe, tVars>>

(* get_block_locations *)
BlockLocations == IF file.exists THEN file.locs ELSE <<>>

-----------------------------------------------------------------------------
(* The registry. *)

(* heartbeat of s, which reports count entries of its storage directory and *)
(* whether its scrubber found the block bad; new are the commands the healer *)
(* adds after such a report.  The commands waiting for s leave the state     *)
(* with the answer.                                                          *)
HealAfter(s, reportsBad) == IF reportsBad THEN HealCmds(reg \cup {s}, bad \cup {s}) ELSE {NoCmds}

Heartbeat(s, count, timeUp, reportsBad, new) ==
    LET servers == reg \cup {s}
        counted == IF safe.on /\ s \notin reg THEN [safe EXCEPT !.reported = @ + count] ELSE safe
    IN
    /\ reg' = servers /\ late' = late \ {s}
    /\ safe' = IF ShouldExitSafeMode(counted, servers, timeUp) THEN ExitSafeMode(counted) ELSE counted
    /\ bad' = IF reportsBad THEN bad \cup {s} ELSE bad
    /\ cmds' = [Add(cmds, new) EXCEPT ![s] = {}]
    /\ UNCHANGED <<file, tVars>>

(* 15 seconds without a heartbeat of s *)
Silence(s) ==
    /\ s \in reg \ late
    /\ late' = late \cup {s}
    /\ UNCHANGED <<file, reg, cmds, bad, safe, tVars>>

(* register_chunk_server, which no component of the repository calls: the   *)
(* server counts as heard of; the safe mode is neither asked nor ended.      *)
RegisterChunkServer(s) ==
    /\ reg' = reg \cup {s} /\ late' = late \ {s}
    /\ UNCHANGED <<file, cmds, bad, safe, tVars>>

-----------------------------------------------------------------------------
(* Terms.  Every shard has a Raft group and counts the elections of its own. *)

NewTerm ==
    /\ rterm' = rterm + 1
    /\ UNCHANGED <<file, reg, late, cmds, bad, safe, mterm, oterm>>

(* run_term_updater polls the Raft node every second. *)
UpdateTerm ==
    /\ mterm # rterm
    /\ mterm' = rterm
    /\ UNCHANGED <<file, reg, late, cmds, bad, safe, rterm, oterm>>

ElectionElsewhere ==
    /\ oterm' = oterm + 1
    /\ UNCHANGED <<file, reg, late, cmds, bad, safe, rterm, mterm>>

(* Only the Raft state survives a restart, after which the master leads     *)
(* again once it is elected; it reports term 0 until run_term_updater ran.   *)
(* The snapshot, when there is one, replaces the state that had entered safe *)
(* mode, and so does one that a running follower installs before it leads.   *)
ForgetLocalState(snapshot) ==
    /\ reg' = {} /\ late' = {} /\ cmds' = NoCmds /\ bad' = {}
    /\ safe' = [EnterSafeMode(0, FALSE) EXCEPT !.on = ~snapshot]
    /\ rterm' = rterm + 1
    /\ mterm' \in IF snapshot THEN {0, mterm} ELSE {0}
    /\ UNCHANGED <<file, oterm>>

(* A master that has just started, or one that every server reports to. *)
MInit(started, running, f) ==
    /\ file = f
    /\ reg = IF started THEN {} ELSE running
    /\ safe = [EnterSafeMode(0, FALSE) EXCEPT !.on = started]
    /\ late = {} /\ cmds = NoCmds /\ bad = {}
    /\ rterm = 1 /\ oterm = 1
    /\ mterm = IF started THEN 0 ELSE 1
=============================================================================

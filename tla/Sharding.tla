------------------------------ MODULE Sharding ------------------------------
(***************************************************************************)
(* Dynamic sharding: the config server, one master per shard of the start,  *)
(* and a client.  Masters and the client rebuild their shard maps from the  *)
(* ids and peers that fetch_shard_map answers.  A master's detector reports *)
(* splits and merges to the config server and pushes file metadata; the     *)
(* client follows the masters' redirects.                                   *)
(*                                                                          *)
(* A group of masters is one process: what Raft commits is applied at once. *)
(* The address of a master is the id of the shard it was started for.       *)
(***************************************************************************)
EXTENDS ConfigServer, FiniteSets, SequencesExt

CONSTANTS
    Paths,          \* keys of files
    PrefixOf,       \* get_path_prefix: "/<first component>/" of a path
    Uuids,          \* bound: the uuids of split shards
    MasterAddrs,    \* Client.master_addrs
    MaxRetries,     \* Client.max_retries
    Scenarios       \* bounds: the operations and faults of a behaviour

ASSUME AddressesAssumption ==
    /\ Addrs \subseteq Ids /\ Addrs # {} /\ IsFiniteSet(Addrs)
    /\ 0 \notin Addrs                           \* in answers, 0 stands for the client
    /\ \A g \in Addrs, n \in Uuids : g + n \in Ids \ Addrs

ASSUME PathsAssumption ==
    /\ Paths \subseteq Nat /\ \A p \in Paths : p <= Top
    /\ PrefixOf \in [Paths -> Keys]

(* A limit of 0 retries acts like 1: the first attempt is always made. *)
ASSUME ClientAssumption ==
    MasterAddrs \in Seq(Addrs) \ {<<>>} /\ MaxRetries \in Nat \ {0}

VARIABLES
    map,            \* shard_map of every master
    registered,     \* masters whose detector has registered them
    files,          \* paths in the namespace of every master
    load,           \* ThroughputMonitor: prefixes counted since the last decay, prefixes above the threshold
    tasks,          \* splits and merges under way
    used,           \* ids given to split shards
    inflight,       \* answers of fetch_shard_map
    c,              \* the client
    steady,         \* history: no shard map has changed and no shard was split
    budget          \* what is left of the scenario

vars == <<configVars, map, registered, files, load, tasks, used, inflight, c, steady, budget>>

PathPrefixes == {PrefixOf[p] : p \in Paths}

(* The answer holds no ranges: they are made up by adding the shards in the *)
(* order of their ids.                                                      *)
AddAll(m, peers) ==
    LET add[S \in SUBSET DOMAIN peers] ==
            IF S = {} THEN m
            ELSE CHOOSE new \in {AddShard(old, Greatest(S), peers[Greatest(S)]) : old \in {add[S \ {Greatest(S)}]}} : TRUE
    IN  add[DOMAIN peers]

Rebuild(peers) == AddAll(EmptyMap, peers)

(* The config server's map after masters registered one after the other. *)
Registered(q) ==
    LET reg[n \in 0..Len(q)] == IF n = 0 THEN EmptyMap ELSE AddShard(reg[n - 1], q[n], <<q[n]>>)
    IN  reg[Len(q)]

Settled == Rebuild([g \in Addrs |-> <<g>>])

Task == [kind : {"split", "merge"}, g : Addrs, key : Nat, id : Ids,
         stage : {"collect", "config", "propose", "push", "late"}, files : SUBSET Paths, peers : Seq(Addrs)]

TypeOK ==
    /\ ConfigTypeOK
    /\ \A g \in Addrs : DOMAIN map[g].peers \subseteq Ids
    /\ registered \subseteq Addrs
    /\ files \in [Addrs -> SUBSET Paths]
    /\ load \in [Addrs -> [seen : SUBSET PathPrefixes, hot : SUBSET PathPrefixes]]
    /\ tasks \subseteq Task
    /\ used \subseteq Ids
    /\ \A r \in inflight : r.for \in {"master", "refresh", "list"} /\ DOMAIN r.peers \subseteq Ids
    /\ c.stage \in {"idle", "send", "serve", "refresh", "list"}
    /\ c.acked \subseteq Paths /\ c.attempt \in 0..MaxRetries /\ c.targets \in Seq(Addrs)
    /\ steady \in BOOLEAN

Idle == [stage |-> "idle", op |-> "none", path |-> 0, map |-> EmptyMap, base |-> <<>>, targets |-> <<>>,
         attempt |-> 0, hint |-> <<>>, refreshes |-> 0, todo |-> {}, got |-> {},
         res |-> "none", lossy |-> FALSE, acked |-> {}]

(* A cluster that starts, or one whose masters all hold the settled map and *)
(* the files it gives them.  A client may hold no map or an old one, and    *)
(* the masters may have registered in any order.                            *)
Init ==
    /\ budget \in Scenarios
    /\ \/ /\ budget.start = 1
          /\ ConfigInit
          /\ map = [g \in Addrs |-> EmptyMap] /\ registered = {}
          /\ files = [g \in Addrs |-> {}]
          /\ c = Idle /\ steady = FALSE
       \/ /\ budget.start = 0
          /\ cmap \in IF budget.stale = 1 THEN {Registered(q) : q \in SetToSeqs(Addrs)} ELSE {Settled}
          /\ masters = Addrs
          /\ map = [g \in Addrs |-> Settled] /\ registered = Addrs
          /\ files = [g \in Addrs |-> {p \in Paths : GetShard(Settled, p) = g}]
          /\ \E m \in IF budget.stale = 1 THEN {EmptyMap} \cup {Registered(<<g>>) : g \in Addrs} ELSE {Settled} :
                 c = [Idle EXCEPT !.map = m, !.acked = Paths]
          /\ steady = TRUE
    /\ load \in [Addrs -> [seen : {{}}, hot : IF budget.hot = 1 THEN SUBSET PathPrefixes ELSE {{}}]]
    /\ tasks = {} /\ used = {} /\ inflight = {}

Spend(what) == budget[what] > 0 /\ budget' = [budget EXCEPT ![what] = @ - 1]
Keep == UNCHANGED budget

-----------------------------------------------------------------------------
(* The maps of masters and the client.                                      *)

(* The answer to a master, or to a refresh or a listing of the client. *)
FetchShardMap(who, g) == [for |-> who, g |-> g, peers |-> cmap.peers]

(* Mutant: a master fetches the map once. *)
FetchOnce(g) ==
    /\ \A r \in inflight : r.g # g
    /\ map[g] = EmptyMap
    /\ inflight' = inflight \cup {FetchShardMap("master", g)}
    /\ Keep /\ UNCHANGED <<configVars, map, registered, files, load, tasks, used, c>>

(* run_shard_map_refresh, every five seconds. *)
Fetch(g) ==
    /\ \A r \in inflight : r.g # g
    /\ inflight' = inflight \cup IF map[g] = Rebuild(cmap.peers) THEN {}    \* nothing new
                                 ELSE {FetchShardMap("master", g)}
    /\ Keep /\ UNCHANGED <<configVars, map, registered, files, load, tasks, used, c>>

(* Client::refresh_shard_map, spawned by a redirect. *)
ClientFetch ==
    /\ c.refreshes > 0
    /\ inflight' = inflight \cup {FetchShardMap("refresh", 0)}
    /\ c' = [c EXCEPT !.refreshes = @ - 1]
    /\ Keep /\ UNCHANGED <<configVars, map, registered, files, load, tasks, used>>

(* Mutant: the shards are added to the old map. *)
InstallInPlace(r) ==
    /\ inflight' = inflight \ {r}
    /\ IF r.for = "master"
       THEN map' = [map EXCEPT ![r.g] = AddAll(@, r.peers)] /\ UNCHANGED c
       ELSE c' = [c EXCEPT !.map = AddAll(@, r.peers)] /\ UNCHANGED map
    /\ Keep /\ UNCHANGED <<configVars, registered, files, load, tasks, used>>

(* A new map replaces the old one; answers of several refreshes of the      *)
(* client arrive in any order.                                              *)
Install(r) ==
    /\ inflight' = inflight \ {r}
    /\ IF r.for = "master"
       THEN map' = [map EXCEPT ![r.g] = Rebuild(r.peers)] /\ UNCHANGED c
       ELSE c' = [c EXCEPT !.map = Rebuild(r.peers),
                           !.stage = IF r.for = "list" THEN "list" ELSE @,
                           !.todo = IF r.for = "list" THEN DOMAIN r.peers ELSE @] /\ UNCHANGED map
    /\ Keep /\ UNCHANGED <<configVars, registered, files, load, tasks, used>>

(* list_all_files goes on with the map it has. *)
AnswerLost(r) ==
    /\ Spend("drops")
    /\ inflight' = inflight \ {r}
    /\ c' = IF r.for = "list" THEN [c EXCEPT !.stage = "list", !.todo = DOMAIN c.map.peers, !.lossy = TRUE] ELSE c
    /\ UNCHANGED <<configVars, map, registered, files, load, tasks, used>>

-----------------------------------------------------------------------------
(* The client's requests: execute_rpc and the handlers it reaches.          *)

(* Mutant: a master serves every path that belongs to a known shard. *)
AcceptsKnown(g, p) == GetShard(map[g], p) \in DOMAIN map[g].peers \cup {NoShard}

(* check_shard_ownership: also a map without an owner lets the path pass. *)
Accepts(g, p) == GetShard(map[g], p) \in {g, NoShard}

Ended(res) == [c EXCEPT !.stage = "idle", !.res = res, !.base = <<>>, !.targets = <<>>, !.attempt = 0, !.hint = <<>>,
                        !.acked = IF c.op = "create" /\ res = "ok" THEN @ \cup {c.path} ELSE @]

(* An error without a hint: the next master is asked. *)
Unanswered == [c EXCEPT !.stage = "send", !.targets = Tail(@), !.lossy = TRUE]

Responsible(p) ==
    LET s == GetShard(c.map, p)
    IN  IF s # NoShard /\ c.map.peers[s] # <<>> THEN c.map.peers[s] ELSE MasterAddrs

Start(op, p) ==
    /\ c.stage = "idle" /\ Spend("requests")
    /\ c' = [c EXCEPT !.stage = "send", !.op = op, !.path = p, !.base = Responsible(p), !.targets = Responsible(p),
                      !.attempt = 1, !.hint = <<>>, !.res = "none", !.lossy = FALSE, !.got = {},
                      !.acked = IF op = "delete" THEN @ \ {p} ELSE @]
    /\ UNCHANGED <<configVars, map, registered, files, load, tasks, used, inflight>>

(* The outcome that a handler finds before it proposes anything. *)
Refusal(g) ==
    IF c.op = "create" /\ c.path \in files[g] THEN "exists"
    ELSE IF c.op = "delete" /\ c.path \notin files[g] THEN "notfound" ELSE "none"

(* A request is counted before its path is checked; a redirect names the    *)
(* first peer of the responsible shard.                                     *)
Call ==
    /\ c.stage = "send" /\ c.targets # <<>>
    /\ LET g == Head(c.targets)
           owner == GetShard(map[g], c.path)
       IN
       /\ load' = [load EXCEPT ![g].seen = @ \cup {PrefixOf[c.path]}]
       /\ c' = IF Accepts(g, c.path)
               THEN IF Refusal(g) = "none" THEN [c EXCEPT !.stage = "serve"] ELSE Ended(Refusal(g))
               ELSE IF map[g].peers[owner] = <<>> THEN Ended("failed")
               ELSE [c EXCEPT !.hint = <<Head(map[g].peers[owner])>>, !.targets = <<>>, !.refreshes = @ + 1]
    /\ Keep /\ UNCHANGED <<configVars, map, registered, files, tasks, used, inflight>>

(* The master is unreachable, has no leader or is in safe mode. *)
CallFails ==
    /\ c.stage = "send" /\ c.targets # <<>>
    /\ Spend("drops")
    /\ c' = Unanswered
    /\ UNCHANGED <<configVars, map, registered, files, load, tasks, used, inflight>>

Applied(g) ==
    CASE c.op = "create" -> [files EXCEPT ![g] = @ \cup {c.path}]
      [] c.op = "delete" -> [files EXCEPT ![g] = @ \ {c.path}]
      [] OTHER           -> files

(* The command is applied, or the state is read, some time after the check. *)
Serve ==
    /\ c.stage = "serve"
    /\ LET g == Head(c.targets)
       IN  /\ files' = Applied(g)
           /\ \/ c' = Ended(IF c.op # "get" THEN "ok" ELSE IF c.path \in files[g] THEN "found" ELSE "notfound") /\ Keep
              \/ c' = Unanswered /\ Spend("drops")
    /\ UNCHANGED <<configVars, map, registered, load, tasks, used, inflight>>

(* Mutant: one attempt more than allowed. *)
NextAttemptTooMany ==
    /\ c.stage = "send" /\ c.targets = <<>>
    /\ c' = IF c.attempt > MaxRetries THEN Ended("failed")
            ELSE [c EXCEPT !.attempt = @ + 1, !.targets = c.hint \o c.base, !.hint = <<>>]
    /\ Keep /\ UNCHANGED <<configVars, map, registered, files, load, tasks, used, inflight>>

(* Mutant: only attempts without a hint are counted. *)
NextAttemptUncounted ==
    /\ c.stage = "send" /\ c.targets = <<>>
    /\ c' = IF c.hint = <<>> /\ c.attempt >= MaxRetries THEN Ended("failed")
            ELSE [c EXCEPT !.attempt = IF c.hint = <<>> THEN @ + 1 ELSE @, !.targets = c.hint \o c.base, !.hint = <<>>]
    /\ Keep /\ UNCHANGED <<configVars, map, registered, files, load, tasks, used, inflight>>

(* Mutant: the hint is forgotten. *)
NextAttemptNoHint ==
    /\ c.stage = "send" /\ c.targets = <<>>
    /\ c' = IF c.attempt >= MaxRetries THEN Ended("failed")
            ELSE [c EXCEPT !.attempt = @ + 1, !.targets = c.base, !.hint = <<>>]
    /\ Keep /\ UNCHANGED <<configVars, map, registered, files, load, tasks, used, inflight>>

NextAttempt ==
    /\ c.stage = "send" /\ c.targets = <<>>
    /\ c' = IF c.attempt >= MaxRetries THEN Ended("failed")
            ELSE [c EXCEPT !.attempt = @ + 1, !.targets = c.hint \o c.base, !.hint = <<>>]
    /\ Keep /\ UNCHANGED <<configVars, map, registered, files, load, tasks, used, inflight>>

(* list_all_files: a refresh, then list_files at every shard, which is not  *)
(* checked for ownership.                                                   *)
StartList ==
    /\ c.stage = "idle" /\ Spend("lists")
    /\ c' = [c EXCEPT !.stage = "refresh", !.op = "list", !.res = "none", !.lossy = FALSE, !.got = {}]
    /\ inflight' = inflight \cup {FetchShardMap("list", 0)}
    /\ UNCHANGED <<configVars, map, registered, files, load, tasks, used>>

ListShard ==
    /\ c.stage = "list" /\ c.todo # {}
    /\ \E s \in c.todo :
           LET ps == IF s \in DOMAIN c.map.peers THEN c.map.peers[s] ELSE <<>>
           IN  \/ /\ c' = [c EXCEPT !.todo = @ \ {s}, !.got = @ \cup IF ps = <<>> THEN {} ELSE files[Head(ps)]]
                  /\ Keep
               \/ /\ ps # <<>> /\ Spend("drops")
                  /\ c' = [c EXCEPT !.todo = @ \ {s}, !.stage = "idle", !.res = "failed", !.lossy = TRUE]
    /\ UNCHANGED <<configVars, map, registered, files, load, tasks, used, inflight>>

(* Without any shard the configured masters are asked. *)
EndList ==
    /\ c.stage = "list" /\ c.todo = {}
    /\ c' = [c EXCEPT !.stage = "idle", !.res = "listed",
                      !.got = IF c.map = EmptyMap THEN files[Head(MasterAddrs)] ELSE @]
    /\ Keep /\ UNCHANGED <<configVars, map, registered, files, load, tasks, used, inflight>>

ClientStep ==
    \/ Call \/ Serve \/ NextAttempt \/ ListShard \/ EndList

-----------------------------------------------------------------------------
(* A master's detector.                                                     *)

(* register_master is repeated until it is answered. *)
Register(g) ==
    /\ g \notin registered
    /\ RegisterMaster(g, g)
    /\ \/ registered' = registered \cup {g} /\ Keep
       \/ Spend("drops") /\ UNCHANGED registered
    /\ UNCHANGED <<map, files, load, tasks, used, inflight, c>>

(* decay_metrics: only a prefix that was hot or asked for can be hot. *)
Decay(g) ==
    /\ budget.splits > 0       \* bound: later loads change nothing
    /\ load[g].seen \cup load[g].hot # {}
    /\ \E H \in SUBSET (load[g].seen \cup load[g].hot) : load' = [load EXCEPT ![g] = [seen |-> {}, hot |-> H]]
    /\ Keep /\ UNCHANGED <<configVars, map, registered, files, tasks, used, inflight, c>>

(* The group removes the files from the split key on when it applies the    *)
(* command; the detector looks for files to move after that.                *)
DetectSplit(g, p) ==
    /\ p \in load[g].hot /\ Spend("splits")
    /\ \E n \in Uuids :
           /\ g + n \notin used
           /\ used' = used \cup {g + n}
           /\ tasks' = tasks \cup {[kind |-> "split", g |-> g, key |-> p, id |-> g + n, stage |-> "collect",
                                    files |-> {}, peers |-> <<>>]}
    /\ files' = [files EXCEPT ![g] = {f \in @ : f < p}]
    /\ UNCHANGED <<configVars, map, registered, load, inflight, c>>

(* The neighbour comes from the master's own map, the predecessor first. *)
DetectMerge(g) ==
    LET n == Neighbors(map[g], g)
        victims == n.prev \o n.next
    IN
    /\ load[g].hot = {} /\ victims # <<>> /\ Spend("merges")
    /\ tasks' = tasks \cup {[kind |-> "merge", g |-> g, key |-> 0, id |-> Head(victims), stage |-> "config",
                             files |-> {}, peers |-> <<>>]}
    /\ UNCHANGED <<configVars, map, registered, files, load, used, inflight, c>>

Turn(t, u) == tasks' = (tasks \ {t}) \cup {u}
Finish(t) == tasks' = tasks \ {t}

(* The files under the prefix of a split, or all files of the retained      *)
(* shard and the peers of its own map.                                      *)
Collect(t) ==
    /\ t.stage = "collect"
    /\ Turn(t, IF t.kind = "split"
               THEN [t EXCEPT !.stage = "config", !.files = {f \in files[t.g] : PrefixOf[f] = t.key}]
               ELSE [t EXCEPT !.stage = "push", !.files = files[t.g],
                              !.peers = IF t.g \in DOMAIN map[t.g].peers THEN map[t.g].peers[t.g] ELSE <<>>])
    /\ Keep /\ UNCHANGED <<configVars, map, registered, files, load, used, inflight, c>>

(* Mutant: a split without any master is not refused. *)
AllocatePeersUnhosted(t) ==
    /\ t.stage = "config" /\ t.kind = "split"
    /\ \E ps \in Allocations(masters) \cup {<<>>} : Turn(t, [t EXCEPT !.stage = "propose", !.peers = ps])
    /\ Keep /\ UNCHANGED <<configVars, map, registered, files, load, used, inflight, c>>

(* split_shard chooses the peers from the masters registered now and then   *)
(* waits for Raft; without any master it refuses.                           *)
AllocatePeers(t) ==
    /\ t.stage = "config" /\ t.kind = "split"
    /\ \/ masters = {} /\ Finish(t)
       \/ \E ps \in Allocations(masters) : Turn(t, [t EXCEPT !.stage = "propose", !.peers = ps])
    /\ Keep /\ UNCHANGED <<configVars, map, registered, files, load, used, inflight, c>>

(* The config server answers success also when its map refuses the change. *)
NotifySplit(t) ==
    /\ t.stage = "propose"
    /\ ProposeSplit(t.key, t.id, t.peers)
    /\ Turn(t, [t EXCEPT !.stage = "push"])
    /\ Keep /\ UNCHANGED <<map, registered, files, load, used, inflight, c>>

NotifyMerge(t) ==
    /\ t.stage = "config" /\ t.kind = "merge"
    /\ ProposeMerge(t.id, t.g)
    /\ Turn(t, [t EXCEPT !.stage = "collect"])
    /\ Keep /\ UNCHANGED <<map, registered, files, load, used, inflight, c>>

(* The command of a task whose caller no longer waits for it. *)
Orphan(t) ==
    IF t.stage = "late" \/ t.stage = "propose" \/ (t.stage = "config" /\ t.kind = "merge")
    THEN {[t EXCEPT !.stage = "late"]} ELSE {}

(* No answer from the config server, whose Raft may hold the command: a     *)
(* second config server is asked, or there is none.                         *)
NotifyFails(t) ==
    /\ t.stage \in {"config", "propose"} /\ Spend("drops")
    /\ \E again \in {{}, {[t EXCEPT !.stage = "config", !.peers = <<>>]}} :
           tasks' = (tasks \ {t}) \cup Orphan(t) \cup again
    /\ UNCHANGED <<configVars, map, registered, files, load, used, inflight, c>>

(* Raft commits it after all; a command that it lost stays late. *)
ApplyLate(t) ==
    /\ t.stage = "late"
    /\ IF t.kind = "split" THEN ProposeSplit(t.key, t.id, t.peers) ELSE ProposeMerge(t.id, t.g)
    /\ Finish(t)
    /\ Keep /\ UNCHANGED <<map, registered, files, load, used, inflight, c>>

(* ingest_metadata at the first peer that answers; "Not Leader" is an       *)
(* answer too.                                                              *)
Push(t) ==
    /\ t.stage = "push"
    /\ \/ /\ t.files # {} /\ t.peers # <<>>
          /\ files' = [files EXCEPT ![Head(t.peers)] = @ \cup t.files]
          /\ Finish(t) /\ Keep
       \/ /\ t.files = {} \/ t.peers = <<>>
          /\ Finish(t) /\ Keep /\ UNCHANGED files
       \/ /\ t.files # {} /\ t.peers # <<>> /\ Spend("drops")
          /\ Finish(t) \/ Turn(t, [t EXCEPT !.peers = Tail(@)])
          /\ UNCHANGED files
    /\ UNCHANGED <<configVars, map, registered, load, used, inflight, c>>

TaskStep(t) == Collect(t) \/ AllocatePeers(t) \/ NotifySplit(t) \/ NotifyMerge(t) \/ Push(t)

(* A master loses what it does not replicate: its map, its metrics and its  *)
(* tasks, but not the commands it has sent to the config server.  A call    *)
(* that it serves gets no answer.                                           *)
Restart(g) ==
    /\ Spend("restarts")
    /\ map' = [map EXCEPT ![g] = EmptyMap]
    /\ registered' = registered \ {g}
    /\ load' = [load EXCEPT ![g] = [seen |-> {}, hot |-> {}]]
    /\ tasks' = UNION {IF t.g = g THEN Orphan(t) ELSE {t} : t \in tasks}
    /\ inflight' = {r \in inflight : r.g # g}
    /\ c' = IF c.stage = "serve" /\ Head(c.targets) = g THEN Unanswered ELSE c
    /\ UNCHANGED <<configVars, files, used>>

(* The other RPCs of the config server. *)
Operator ==
    /\ Spend("operator") /\ OperatorStep
    /\ UNCHANGED <<map, registered, files, load, tasks, used, inflight, c>>

Step ==
    \/ \E g \in Addrs :
          \/ Fetch(g) \/ Register(g) \/ Decay(g) \/ DetectMerge(g) \/ Restart(g)
          \/ \E p \in PathPrefixes : DetectSplit(g, p)
    \/ \E r \in inflight : Install(r) \/ AnswerLost(r)
    \/ \E t \in tasks : TaskStep(t) \/ NotifyFails(t) \/ ApplyLate(t)
    \/ \E op \in {"create", "delete", "get"}, p \in Paths : Start(op, p)
    \/ ClientFetch \/ CallFails \/ StartList \/ ClientStep \/ Operator

Remember == steady' = (steady /\ UNCHANGED <<cmap, map, used>>)

Next == Step /\ Remember

(* The loops of the masters go on, spawned tasks and requests make progress. *)
Fairness ==
    /\ \A g \in Addrs : WF_vars(Fetch(g) /\ Remember) /\ WF_vars(Register(g) /\ Remember)
    /\ WF_vars((\E r \in inflight : Install(r)) /\ Remember)
    /\ WF_vars((\E t \in tasks : TaskStep(t)) /\ Remember)
    /\ WF_vars(ClientStep /\ Remember)

Spec == Init /\ [][Next]_vars /\ Fairness

-----------------------------------------------------------------------------
(* Properties                                                               *)

(* Masters and clients that know the same shards route every path alike,    *)
(* however many refreshes each of them has seen and in whatever order their *)
(* answers came: the ranges are made up from the ids alone                  *)
(* (run_shard_map_refresh, Client::refresh_shard_map).                      *)
SameShardsSameRoute ==
    LET maps == {map[g] : g \in Addrs} \cup {c.map}
    IN  \A x, y \in maps : DOMAIN x.peers = DOMAIN y.peers => x.ranges = y.ranges

(* While the shard maps stay as they are, a client with any map, stale or   *)
(* empty, finds every file it was told is created; it fails, or lists only  *)
(* some of them, only when calls are lost: one redirect brings it to the    *)
(* owner (execute_rpc_internal, check_shard_ownership).                     *)
SteadyRequests ==
    steady /\ c.stage = "idle" =>
        /\ c.op = "get" /\ c.path \in c.acked => c.res # "notfound"
        /\ c.op = "list" /\ c.res = "listed" /\ ~c.lossy => c.acked \subseteq c.got
        /\ c.res = "failed" => c.lossy

(* While the shard maps stay as they are, no path is in the namespaces of   *)
(* two masters, although a request whose answer is lost is repeated at other *)
(* masters and clients start from old maps (create_file).                   *)
OneHolder ==
    steady => \A p \in Paths : \A g, h \in Addrs : p \in files[g] \cap files[h] => g = h

(* Every request of the client ends, also when the masters redirect it in a *)
(* circle for a shard that none of them serves (execute_rpc_internal).      *)
RequestEnds == c.stage # "idle" ~> c.stage = "idle"

(* The masters' maps settle on the config server's shards once the config   *)
(* server's map no longer changes, after restarts, lost answers and late    *)
(* ones (run_shard_map_refresh).                                            *)
MapsConverge == <>[](\A g \in Addrs : map[g] = Rebuild(cmap.peers))

(* A split is applied with peers chosen before the Raft round, and commands *)
(* whose callers have given up or restarted are applied long after newer    *)
(* ones; still the config server changes only by registrations, by splits   *)
(* that name one to three distinct masters it knows and by merges of two    *)
(* shards: the system implements ConfigServer, for which                    *)
(* RangesBelongToShards and WholeKeySpaceKept are proved (split_shard,      *)
(* run_split_detector).                                                     *)
ImplementsConfigServer == [][ConfigNext]_configVars

(* Reads go on during a split: a client is answered with a file that it     *)
(* created (DYNAMIC_SHARDING.md).                                           *)
ReadsContinue ==
    c.stage = "idle" /\ c.op = "get" /\ c.path \in c.acked => c.res = "found"
=============================================================================

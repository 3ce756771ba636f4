----------------------------- MODULE MCSharding -----------------------------
(***************************************************************************)
(* Two masters, 1 and 4, whose shards may split off 2 and 5; the file       *)
(* 11 "/d/f" below "/m" and the file 31 "/t/f" above it.                    *)
(***************************************************************************)
EXTENDS Sharding

MCPrefixOf == [p \in Paths |-> p - 1]
MCMasterAddrs == <<1, 4>>

Quiet == [start |-> 0, stale |-> 0, hot |-> 0, requests |-> 0, lists |-> 0, drops |-> 0, splits |-> 0, merges |-> 0, restarts |-> 0,
          operator |-> 0]

MCScenarios == {
    [Quiet EXCEPT !.start = 1, !.requests = 1, !.drops = 1],            \* a cluster starts
    [Quiet EXCEPT !.start = 1, !.operator = 1],
    [Quiet EXCEPT !.start = 1, !.hot = 1, !.splits = 1],                \* a split while masters register
    [Quiet EXCEPT !.hot = 1, !.splits = 1, !.drops = 1, !.restarts = 1],\* late commands
    [Quiet EXCEPT !.merges = 1, !.drops = 1, !.restarts = 1],
    [Quiet EXCEPT !.stale = 1, !.requests = 2, !.drops = 1],            \* old maps, repeated calls
    [Quiet EXCEPT !.stale = 1, !.requests = 1, !.lists = 1, !.drops = 1],
    [Quiet EXCEPT !.stale = 1, !.requests = 1, !.restarts = 1],         \* a master without a map
    [Quiet EXCEPT !.requests = 2, !.splits = 1],                        \* requests during a split
    [Quiet EXCEPT !.requests = 1, !.splits = 1, !.lists = 1],
    [Quiet EXCEPT !.requests = 1, !.splits = 2, !.drops = 1],
    [Quiet EXCEPT !.hot = 1, !.splits = 1, !.merges = 1],               \* one master splits, one merges
    [Quiet EXCEPT !.merges = 3],                                        \* both masters merge
    [Quiet EXCEPT !.merges = 2, !.restarts = 1],                        \* the victim registers again
    [Quiet EXCEPT !.merges = 2, !.requests = 1],
    [Quiet EXCEPT !.merges = 1, !.requests = 2],
    [Quiet EXCEPT !.merges = 1, !.requests = 1, !.drops = 1]}

SplitOnly == {[Quiet EXCEPT !.requests = 2, !.splits = 1]}
=============================================================================

---------------------------- MODULE MCSimpleRaft ----------------------------
(***************************************************************************)
(* Instances of SimpleRaft for TLC.                                        *)
(***************************************************************************)
EXTENDS SimpleRaft, TLC

\* Addresses in which only the replier's own address contains its id.
OwnAddress == [i \in Server |-> [p \in Server |-> IF p = i THEN Nil ELSE p]]

Symmetry == Permutations(Server) \cup Permutations(Command)

\* Only a candidate reads voters and only a leader reads the peer tracking, and
\* each sets them on taking the role; no step reads who elected a leader.  States
\* that differ in nothing else are alike.
View ==
    <<termVars, diskVars, role, log, applyVars, clientVars, voteMsgs, appendMsgs, snapMsgs,
      chosen, acked, {<<e.term, e.leader>> : e \in elected}, served_reads, issued, counterVars,
      [i \in Server |-> IF role[i] = Candidate THEN voters[i] ELSE {}],
      [i \in Server |-> IF role[i] = Leader THEN <<next_index[i], match_index[i]>> ELSE <<>>]>>

\* Helm's addresses: the URL of node p + 1 is that of pod p and contains p.
HelmAddress ==
    [i \in Server |-> [p \in Server |-> IF p + 1 \in Server \ {i} THEN p + 1 ELSE Nil]]
=============================================================================

---------------------------- MODULE ReplicatedLog ----------------------------
(***************************************************************************)
(* What a Raft group promises the metaserver: one log of commands that     *)
(* only grows, replicas whose state is some prefix of it, and a client     *)
(* told of success only for a command that the log holds at its index and  *)
(* that the answering replica has applied.  No terms, votes or messages.   *)
(***************************************************************************)
EXTENDS Naturals, Sequences

CONSTANT Server

VARIABLES committed,  \* the commands, in the order of their commitment
          applied,    \* applied[i]: the commands replica i's state is made of
          acked       \* the writes clients were told of: [index, command]

Grows(old, new) == Len(old) <= Len(new) /\ SubSeq(new, 1, Len(old)) = old

Init == /\ committed = <<>>
        /\ applied = [i \in Server |-> <<>>]
        /\ acked = {}

\* Replica i moves to a prefix of the log (back, when it restarts), the log may
\* grow, and writes that i has applied may be acknowledged.
Advance(i) ==
    /\ Grows(committed, committed')
    /\ \E k \in 0 .. Len(committed') :
         /\ applied' = [applied EXCEPT ![i] = SubSeq(committed', 1, k)]
         /\ acked \subseteq acked'
         /\ \A w \in acked' \ acked : w.index <= k /\ committed'[w.index] = w.command

Next == \E i \in Server : Advance(i)

Spec == Init /\ [][Next]_<<committed, applied, acked>>
=============================================================================

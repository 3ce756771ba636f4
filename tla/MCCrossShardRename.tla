------------------------- MODULE MCCrossShardRename -------------------------
(***************************************************************************)
(* Instances of CrossShardRename for TLC.                                  *)
(***************************************************************************)
EXTENDS CrossShardRename, TLC

\* A client that renames again what it has renamed.
OneSource == [t \in Tx |-> "a"]
OneDest == [t \in Tx |-> "b"]

\* Two files renamed to one path.
OwnSource == [t \in Tx |-> IF t = 1 THEN "a" ELSE "c"]
=============================================================================

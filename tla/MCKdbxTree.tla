----------------------------- MODULE MCKdbxTree -----------------------------
(* KdbxTree for TLC: its uuids but the root's are interchangeable.         *)
EXTENDS KdbxTree, TLC

Symmetric == Permutations(Groups \ {Root}) \cup Permutations(Entries)
=============================================================================

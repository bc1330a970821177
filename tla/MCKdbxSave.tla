----------------------------- MODULE MCKdbxSave -----------------------------
(* KdbxSave on small instances: the cfgs give the constants model values.  *)
EXTENDS KdbxSave, TLC

Symmetric == Permutations(Entries) \cup Permutations(Binaries) \cup Permutations(Saves)
=============================================================================

---------------------------- MODULE MCNativeHost ----------------------------
(* NativeHost for TLC: contents of one and of two chunks.                  *)
EXTENDS NativeHost, TLC

CONSTANTS Short         \* the contents that fit in one chunk

Sizes == [v \in Contents |-> IF v \in Short THEN 1 ELSE 2]
Symmetric == Permutations(Calls) \cup Permutations(Saved \ Short)
=============================================================================

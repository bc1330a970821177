---------------------------- MODULE MCCloudVault ----------------------------
(* CloudVault on small instances: the cfgs give the constants model values. *)
EXTENDS CloudVault, TLC

\* No definition tells one local edit from another.
Symmetric == Permutations(Edits)
=============================================================================

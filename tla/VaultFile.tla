----------------------------- MODULE VaultFile ------------------------------
(***************************************************************************)
(* What the helper's protocol promises about the vault's file: a register  *)
(* that sessions read and replace and that other programs write too.  A    *)
(* session has a content only if it made it or the file held it at the     *)
(* moment of one step, and it replaces only a content it has, except that  *)
(* allowing a replacement and replacing are two steps, between which       *)
(* another program may write.                                              *)
(***************************************************************************)
CONSTANTS Contents, Own, Holders, None

VARIABLES
    file,       \* the content, or None
    holds,      \* the contents each session has taken in or made
    replacing   \* the replacement that has been allowed, or None

vars == <<file, holds, replacing>>

Init ==
    /\ file \in Contents \cup {None}
    /\ holds = [g \in Holders |-> {}]
    /\ replacing = None

\* A session takes in the content that the file has at this moment.
Take(g) ==
    /\ file # None
    /\ holds' = [holds EXCEPT ![g] = @ \cup {file}]
    /\ UNCHANGED <<file, replacing>>

\* No other session has made or read what a session makes.
Make(g) ==
    /\ \E d \in Own :
        /\ \A h \in Holders : d \notin holds[h]
        /\ holds' = [holds EXCEPT ![g] = @ \cup {d}]
    /\ UNCHANGED <<file, replacing>>

Allow(g) ==
    /\ replacing = None
    /\ file \in holds[g]
    /\ \E d \in holds[g] \cap Own : replacing' = [by |-> g, with |-> d, raced |-> FALSE]
    /\ UNCHANGED <<file, holds>>

Replace ==
    /\ replacing # None
    /\ replacing.raced \/ file \in holds[replacing.by]
    /\ file' = replacing.with
    /\ replacing' = None
    /\ UNCHANGED holds

\* A read, a replacement or several of them fail; what was read is forgotten.
Fail ==
    /\ holds' \in [Holders -> SUBSET Contents]
    /\ \A g \in Holders : holds'[g] \subseteq holds[g]
    /\ replacing' \in {replacing, None}
    /\ UNCHANGED file

Others ==
    /\ file' \in Contents \cup {None}
    /\ replacing' = IF replacing = None THEN None ELSE [replacing EXCEPT !.raced = TRUE]
    /\ UNCHANGED holds

Next ==
    \/ \E g \in Holders : Take(g) \/ Make(g) \/ Allow(g)
    \/ Replace \/ Fail \/ Others

Spec == Init /\ [][Next]_vars

=============================================================================

------------------------------ MODULE MCBridges ------------------------------
(***************************************************************************)
(* NativeHost and PasskeyBridge, the two protocols that must answer every  *)
(* request, for TLC in one run.  Init chooses the one that runs, the       *)
(* subject; the other one stays where it begins, where its fairness asks   *)
(* nothing of it.                                                          *)
(***************************************************************************)
EXTENDS NativeHost, TLC

CONSTANTS
    Short,          \* the contents that fit in one chunk, the others need two
    Requests, Tabs, First, MaxFaults    \* of PasskeyBridge

Sizes == [v \in Contents |-> IF v \in Short THEN 1 ELSE 2]

VARIABLES subject, page, active, overlay, prompt, pending, unlocked, tree, saved, job,
          faults, told, crowded, together

Passkey == INSTANCE PasskeyBridge
passkeyVars == <<page, active, overlay, prompt, pending, unlocked, tree, saved, job,
                 faults, told, crowded, together>>

BridgesInit ==
    /\ Init /\ Passkey!Init
    /\ \/ subject = "NativeHost"
       \/ subject = "PasskeyBridge" /\ file = None

BridgesNext ==
    \/ subject = "NativeHost" /\ Next /\ UNCHANGED <<subject, passkeyVars>>
    \/ subject = "PasskeyBridge" /\ Passkey!Next /\ UNCHANGED <<subject, vars>>

BridgesSpec ==
    /\ BridgesInit /\ [][BridgesNext]_<<subject, vars, passkeyVars>>
    /\ Fairness /\ Passkey!Fairness

----------------------------------------------------------------------------
(* Properties, beside those of NativeHost.                                 *)

\* The types of both modules.
TypesOK == TypeOK /\ Passkey!TypeOK

\* A page's promise settles with the outcome of its own prompt, in a tab where no call is
\* made while another is in progress.
OwnAnswer == Passkey!OwnAnswer
\* A site is told of a passkey and its counter only when the vault's file holds them, and
\* of no counter twice, whatever lock, failed save or restart comes between.
CeremoniesSaved == Passkey!ToldOfSavedPasskeys /\ Passkey!CountersFresh
\* Every call of a page whose stash message reached the background is answered in the end,
\* in a tab where no call is made while another is in progress.
CallsSettle == Passkey!CallsSettle
=============================================================================

------------------------------ MODULE MCLibrary ------------------------------
(***************************************************************************)
(* KdbxTree and the other modules of an open database (its merges, the     *)
(* edits of its entries, the combination of two), for TLC in one run.      *)
(* Init chooses the module that runs, the subject; KdbxTree keeps          *)
(* variables of its own, and the other modules, of which one runs at most, *)
(* share v1 to v8.                                                         *)
(***************************************************************************)
EXTENDS KdbxTree, Naturals, Sequences, TLC

CONSTANTS
    Twins,                      \* two values to permute: sites of a merge, clients, fields, passkeys
    ReplicaGroups, ReplicaEntries, FirstObjects,    \* of KdbxMerge
    Values, Keys,               \* of settings; of custom icons
    Foreign, Doc,               \* a passkey KeePassXC made, and an attachment that is none
    Ours, Theirs, Domain,       \* of Combine
    HistoryMax, MaxTicks, MaxClock, MaxDepth, MaxSteps, MaxEntries, MaxApplies      \* bounds

VARIABLES subject, v1, v2, v3, v4, v5, v6, v7, v8
shared == <<v1, v2, v3, v4, v5, v6, v7, v8>>

\* Combine: two entries at most on each side, equal, alike in some fields, of the same
\* domain or with nothing in common.
Login(u, p, h, t, n, k, d) == [user |-> u, pass |-> p, host |-> h, title |-> t, note |-> n, key |-> k, doc |-> d]
A == Login("u", "p", "h", None, "n", None, None)
B == Login("u", "q", "h2", None, "m", "k", None)
C == Login("u", "p", "h", None, "m", None, "d")
D == Login("v", "q", None, "t", None, "k2", "d2")
E == Login("u", "r", "h2", "t", None, None, None)
OurVaults ==
    LET Own(c) == [c |-> c, binned |-> FALSE]
    IN  {<<Own(A)>>, <<Own(B), Own(E)>>, <<Own(A), Own(B)>>}
TheirVaults ==
    LET Other(c, i) == [c |-> c, uuid |-> i]
    IN  {<<Other(C, 9)>>, <<Other(B, 1)>>, <<Other(C, 8), Other(E, 9)>>, <<Other(B, 1), Other(A, 9)>>,
         <<Other(D, 8), Other(E, 2)>>}
Domains == [h |-> "d", h2 |-> "d"]

\* EntryEdits: an entry of a second vault with a login, a code, a custom field, an
\* attachment and a passkey of each kind.
Records ==
    {[fields |-> {"Password", "otp", t}, files |-> <<t, Doc>>, index |-> {t}, xc |-> f]
     : t \in Twins, f \in Foreign}

Merge == INSTANCE KdbxMerge
         WITH replica <- v1, upstream <- v2, ticks <- v3, born <- v4, known <- v5, missed <- v6, walk <- v7,
              Sites <- Twins, Groups <- ReplicaGroups, Entries <- ReplicaEntries,
              First <- FirstObjects
Meta == INSTANCE MetaMerge
        WITH meta <- v1, server <- v2, base <- v3, clock <- v4, wrote <- v5, mine <- v6, gone <- v7,
             Clients <- Twins
Edits == INSTANCE EntryEdits
         WITH entry <- v1, dropped <- v2, job <- v3, steps <- v4, raced <- v5, merging <- v6,
              Custom <- Twins, Passkeys <- Twins, Incoming <- Records
Combining == INSTANCE Combine
             WITH vault <- v1, unlocked <- v2, tree <- v3, second <- v4, pending <- v5, imported <- v6,
                  failed <- v7, applies <- v8

Idle58 == v5 = None /\ v6 = None /\ v7 = None /\ v8 = None
LibraryInit ==
    /\ Init
    /\ \/ subject = "KdbxTree" /\ v1 = None /\ v2 = None /\ v3 = None /\ v4 = None /\ Idle58
       \/ /\ made = {Root} /\ bin = None /\ ~binEnabled
          /\ \/ subject = "KdbxMerge" /\ Merge!Init /\ v8 = None
             \/ subject = "MetaMerge" /\ Meta!Init /\ v8 = None
             \/ subject = "EntryEdits" /\ Edits!Init /\ v7 = None /\ v8 = None
             \/ subject = "Combine" /\ Combining!Init

LibraryNext ==
    \/ subject = "KdbxTree" /\ Next /\ UNCHANGED <<subject, shared>>
    \/ subject = "KdbxMerge" /\ Merge!Next /\ UNCHANGED <<subject, vars, v8>>
    \/ subject = "MetaMerge" /\ Meta!Next /\ UNCHANGED <<subject, vars, v8>>
    \/ subject = "EntryEdits" /\ Edits!Next /\ UNCHANGED <<subject, vars, v7, v8>>
    \/ subject = "Combine" /\ Combining!Next /\ UNCHANGED <<subject, vars>>

LibrarySpec == LibraryInit /\ [][LibraryNext]_<<subject, vars, shared>>

Symmetric == Permutations(Groups \ {Root}) \cup Permutations(Entries) \cup Permutations(Twins)

----------------------------------------------------------------------------
(* Properties: those of the modules, and of each module where it runs.     *)

\* The types of every module.
TypesOK ==
    /\ TypeOK
    /\ subject = "KdbxMerge" => Merge!TypeOK
    /\ subject = "MetaMerge" => Meta!TypeOK
    /\ subject = "EntryEdits" => Edits!TypeOK
    /\ subject = "Combine" => Combining!TypeOK

\* KdbxMerge: a merge loses nothing of either side that nobody deleted, and moves nothing
\* that nobody moved.
AgreedStays == [][subject = "KdbxMerge" => Merge!AgreedStep]_<<subject, shared>>
\* KdbxMerge: no version of an entry is lost in a merge, up to the limit of the history,
\* unless a merge has passed the entry by.
VersionsKept == [][subject = "KdbxMerge" => Merge!VersionsStep]_<<subject, shared>>
\* MetaMerge: settings that share a date stay together, a change made here lasts until it
\* is pushed, and what was removed does not come back.
SettingsKept == subject = "MetaMerge" => Meta!SettingsKept
\* EntryEdits: the old value of a field is in the entry's history, unless a merge that was
\* answered with keep-b or a sign-in with the passkey replaced it.
FieldsInHistory == [][subject = "EntryEdits" => Edits!EditStep]_<<subject, shared>>
\* EntryEdits: a clone shows the login of what it refers to and follows it, and the key of
\* a passkey is only in an entry that lists it.
LinksFollowed == subject = "EntryEdits" => Edits!ClonesFollow /\ Edits!PasskeysListed
\* Combine: only the answer keep-b takes something of ours away, every password of theirs
\* arrives, and nothing is imported twice as long as every save succeeds.
CombineKeeps ==
    [][subject = "Combine" =>
        Combining!OursStep /\ Combining!TheirsStep /\ Combining!ImportedOnce']_<<subject, shared>>
=============================================================================

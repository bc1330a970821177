------------------------------ MODULE KdbxTree ------------------------------
(***************************************************************************)
(* The tree of groups and entries of an open database, its recycle bin and *)
(* its tombstones, under the operations of the vault session.              *)
(*                                                                         *)
(* Source: kdbx/kdbx.ts (createRecycleBin, move, remove) of packages/core  *)
(* and background/vault-session.ts of packages/web.  The tree is kept      *)
(* twice, as arrays of children and as parentGroup pointers, and the code  *)
(* walks it both ways.  No operation awaits between its changes of the     *)
(* tree, so each is one action.  The order of children is left out.        *)
(***************************************************************************)

CONSTANTS
    Groups,         \* uuids a group can have
    Entries,        \* uuids an entry can have
    Root,           \* the default group
    None,
    MayHoldBin      \* whether a group that holds the bin may be deleted

Objects == Groups \cup Entries

ASSUME TreeAssumption ==
    /\ Root \in Groups
    /\ Groups \cap Entries = {}
    /\ None \notin Objects
    /\ MayHoldBin \in BOOLEAN

VARIABLES
    holds,          \* groups[] and entries[] of every group, as a set
    parent,         \* parentGroup of every object
    bin,            \* meta.recycleBinUuid
    binEnabled,     \* meta.recycleBinEnabled
    buried,         \* deletedObjects, the tombstones
    made            \* history: every uuid that has been in the tree

vars == <<holds, parent, bin, binEnabled, buried, made>>

\* allGroupsAndEntries: o and everything below it in the arrays h.
Closed(h, S) == \A g \in S \cap Groups : h[g] \subseteq S
Below(h, o) ==
    LET closed == {S \in SUBSET Objects : o \in S /\ Closed(h, S)}
    IN  {x \in Objects : \A S \in closed : x \in S}

Live == Below(holds, Root)

\* isInGroup: the groups met from o upwards along the pointers p.
Upwards(p, S) == \A x \in S : p[x] \in S \cup {None}
Above(p, o) ==
    LET closed == {S \in SUBSET Objects : o \in S /\ Upwards(p, S)}
    IN  {g \in Groups \ {o} : \A S \in closed : g \in S}

----------------------------------------------------------------------------
(* Changes of the two structures: h are arrays, p pointers.                *)

\* New objects under g.
GrownHolds(h, g, new) == [h EXCEPT ![g] = @ \cup new]
GrownParent(p, g, new) == [o \in Objects |-> IF o \in new THEN g ELSE p[o]]

Found(h, p, o) == p[o] # None /\ o \in h[p[o]]

PutAlsoLeft(h, p, S, to) ==
    [g \in Groups |-> (h[g] \ {o \in S : p[o] = g /\ to[o] # None})
                      \cup {o \in S : Found(h, p, o) /\ to[o] = g}]

\* move of every object of S to where to sends it (None: nowhere); one its parent
\* does not hold stays.
PutHolds(h, p, S, to) ==
    [g \in Groups |-> (h[g] \ {o \in S : p[o] = g}) \cup {o \in S : Found(h, p, o) /\ to[o] = g}]
PutParent(h, p, S, to) ==
    [o \in Objects |-> IF o \in S /\ Found(h, p, o) THEN to[o] ELSE p[o]]

\* addDeletedObject, for an object and all it holds.
TombsOfOne(h, o) == {o}
Tombs(h, o) == Below(h, o)

MoveAll(h, p, S, to) ==
    /\ holds' = PutHolds(h, p, S, to)
    /\ parent' = PutParent(h, p, S, to)

Destroy(S) ==
    /\ MoveAll(holds, parent, S, [o \in S |-> None])
    /\ buried' = buried \cup UNION {Tombs(holds, o) : o \in S}

AnyUuid(o) == TRUE
Fresh(o) == o \notin made /\ o # bin

----------------------------------------------------------------------------
(* The database as it comes out of a file.                                 *)

Init ==
    /\ parent \in [Objects -> Groups \cup {None}]
    /\ holds = [g \in Groups |-> {o \in Objects : parent[o] = g}]
    /\ made = Live
    /\ \A o \in Objects : parent[o] = None <=> o \notin Live \ {Root}
    /\ bin \in (Groups \ {Root}) \cup {None}        \* it may name no group of the tree
    /\ binEnabled \in BOOLEAN
    /\ buried = {}

----------------------------------------------------------------------------
(* The operations.                                                         *)

CreateEntry(g, e) ==
    /\ g \in Live /\ Fresh(e)
    /\ holds' = GrownHolds(holds, g, {e})
    /\ parent' = GrownParent(parent, g, {e})
    /\ made' = made \cup {e}
    /\ UNCHANGED <<bin, binEnabled, buried>>

CreateGroup(g, n) ==
    /\ g \in Live /\ Fresh(n)
    /\ holds' = GrownHolds(holds, g, {n})
    /\ parent' = GrownParent(parent, g, {n})
    /\ made' = made \cup {n}
    /\ UNCHANGED <<bin, binEnabled, buried>>

\* One record of importEntries: its path names a group of g or a new one.
ImportRecord(g, n, e) ==
    /\ g \in Live /\ Fresh(n) /\ Fresh(e)
    /\ holds' = GrownHolds(GrownHolds(holds, g, {n}), n, {e})
    /\ parent' = GrownParent(GrownParent(parent, g, {n}), n, {e})
    /\ made' = made \cup {n, e}
    /\ UNCHANGED <<bin, binEnabled, buried>>

MoveEntry(e, g) ==
    /\ e \in Live /\ g \in Live
    /\ MoveAll(holds, parent, {e}, [o \in {e} |-> g])
    /\ UNCHANGED <<bin, binEnabled, buried, made>>

BinGone == bin \notin Live

\* remove, for every object of S: into the bin...
RemoveToBin(S) ==
    /\ binEnabled /\ bin # None /\ ~BinGone
    /\ MoveAll(holds, parent, S, [o \in S |-> bin])
    /\ UNCHANGED <<bin, binEnabled, buried, made>>

\* ... into a new one, when the database names one that it does not have...
RemoveToNewBin(S) ==
    /\ binEnabled /\ bin # None /\ BinGone
    /\ \E b \in Groups :
        /\ Fresh(b)
        /\ bin' = b
        /\ made' = made \cup {b}
        /\ MoveAll(GrownHolds(holds, Root, {b}), GrownParent(parent, Root, {b}), S,
                   [o \in S |-> b])
    /\ UNCHANGED <<binEnabled, buried>>

\* ... or for good.
RemoveForGood(S) ==
    /\ ~binEnabled \/ bin = None
    /\ Destroy(S)
    /\ UNCHANGED <<bin, binEnabled, made>>

Remove(S) == RemoveToBin(S) \/ RemoveToNewBin(S) \/ RemoveForGood(S)

DeleteEntry(e) == e \in Live /\ Remove({e})

DeleteGroup(g) ==
    /\ g \in Live \ {Root}
    /\ bin \in Below(holds, g) => MayHoldBin /\ g # bin     \* no button deletes the bin
    /\ Remove({g})

InBin == IF bin \in Live THEN Below(holds, bin) ELSE {}

\* removeDuplicateEntries: of each set one is kept, and entries in the bin are in none.
RemoveDuplicates(S, kept) ==
    /\ S # {} /\ S \subseteq Live \ InBin
    /\ kept \in Live \ (InBin \cup S)
    /\ Remove(S)

EmptyRecycleBin ==
    /\ bin \in Live
    /\ Destroy(holds[bin])
    /\ UNCHANGED <<bin, binEnabled, made>>

\* applyAiSort: the names of a plan stand for groups outside the bin or for new
\* ones, made under the root; entries deleted since the plan are skipped.
ApplyAiSort(S, to, new) ==
    LET h == GrownHolds(holds, Root, new)
        p == GrownParent(parent, Root, new)
    IN  /\ S # {} /\ S \subseteq Live
        /\ \A n \in new : Fresh(n) /\ \E e \in S : to[e] = n
        /\ \A e \in S : to[e] \in (Live \ InBin) \cup new
        /\ MoveAll(h, p, S, to)
        /\ made' = made \cup new
        /\ UNCHANGED <<bin, binEnabled, buried>>

----------------------------------------------------------------------------
Next ==
    \/ \E g \in Groups, e \in Entries : CreateEntry(g, e) \/ MoveEntry(e, g)
    \/ \E g \in Groups, n \in Groups : CreateGroup(g, n)
    \/ \E g \in Groups, n \in Groups, e \in Entries : ImportRecord(g, n, e)
    \/ \E e \in Entries : DeleteEntry(e)
    \/ \E g \in Groups : DeleteGroup(g)
    \/ \E S \in SUBSET Entries, kept \in Entries : RemoveDuplicates(S, kept)
    \/ EmptyRecycleBin
    \/ \E S \in SUBSET Entries, new \in SUBSET Groups :
        \E to \in [S -> Groups] : ApplyAiSort(S, to, new)

Spec == Init /\ [][Next]_vars

----------------------------------------------------------------------------
(* Properties.                                                             *)

TypeOK ==
    /\ holds \in [Groups -> SUBSET Objects]
    /\ parent \in [Objects -> Groups \cup {None}]
    /\ bin \in (Groups \ {Root}) \cup {None}
    /\ binEnabled \in BOOLEAN
    /\ made \subseteq Objects
    /\ buried \subseteq made

\* What was once in the tree is in it or has a tombstone: nothing is dropped from
\* the file without a trace that a merge with another copy would see.
NothingLost == made \subseteq Live \cup buried

\* What has a tombstone is not in the tree, where a merge would delete it.
TombstonesDead == \A x \in buried : x \notin Live

\* The two ways to decide that an entry is in the bin agree: walks from the root
\* that skip the bin (listEntries, kdbxToRecords) and walks up the parentGroup
\* pointers (isInGroup, for health, passkeys and favicons).
BinSeenBothWays ==
    \A e \in Live \cap Entries : (bin \in Above(parent, e)) <=> e \in InBin

\* In a database with a bin, what leaves the tree leaves it from the bin.
LeavesFromBin ==
    [][binEnabled /\ bin # None => Live \ Live' \subseteq InBin]_vars
=============================================================================

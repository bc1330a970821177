------------------------------- MODULE Combine -------------------------------
(***************************************************************************)
(* Combine: a second vault is opened beside the unlocked one, its entries  *)
(* are matched with ours, the user decides about those that differ, and    *)
(* the rest is merged or imported.                                         *)
(*                                                                         *)
(* Source: background/dedup.ts, entry-merge.ts and the combine of          *)
(* background/vault-session.ts of packages/web.  note stands for every     *)
(* string field that is not compared before (notes, custom fields, codes), *)
(* key for a passkey in KeePassXC's fields, doc for an attachment.  Icons, *)
(* tags and the groups of imported entries are left out.  An entry's uuid  *)
(* is its position in the tree.                                            *)
(***************************************************************************)
EXTENDS Naturals, Sequences, FiniteSets

CONSTANTS
    Ours, Theirs,   \* the trees a vault of ours, and the second vault, may hold
    Domain,         \* host -> registrable domain
    MaxEntries,     \* bound: entries of our tree
    MaxApplies,     \* bound: applications of a preview
    None

Sides == {"keep-a", "keep-b", "keep-both"}

VARIABLES
    vault,          \* which vault was unlocked last, 1 or 2
    unlocked,       \* and whether it still is
    tree,           \* its entries: [c, binned]
    second,         \* secondaryDb: [c, uuid], or <<>>
    pending,        \* pendingCombine
    imported,       \* history: how often each entry of second was imported
    failed,         \* history: a save of the combined tree failed
    applies

vars == <<vault, unlocked, tree, second, pending, imported, failed, applies>>

NoPending == [made |-> FALSE, vault |-> 0, exact |-> {}, identical |-> {}, divergent |-> {}, rest |-> {}]

Init ==
    /\ vault = 1 /\ unlocked = TRUE
    /\ tree \in Ours
    /\ second = <<>>
    /\ pending = NoPending
    /\ imported = <<>>
    /\ failed = FALSE
    /\ applies = 0

----------------------------------------------------------------------------
(* dedup.ts: what belongs together.                                        *)

\* duplicateCredentialKey.
CredentialKey(c) ==
    IF c.pass = None THEN None
    ELSE IF c.user # None /\ c.host # None THEN <<c.user, c.pass, c.host>>
    ELSE IF c.title # None THEN <<c.title, c.pass>>
    ELSE None

\* matchKey.
SiteKey(c) == IF c.user = None \/ c.host = None THEN None ELSE <<c.user, Domain[c.host]>>

\* kdbxToRecords: all but the recycle bin.
Records == {i \in DOMAIN tree : ~tree[i].binned}
Least(S) == CHOOSE i \in S : \A j \in S : i <= j
SameKey(c) == {i \in Records : CredentialKey(tree[i].c) = CredentialKey(c) /\ CredentialKey(c) # None}

\* entryFieldDiff; attachments are not compared.
Differ(c, d) == c.user # d.user \/ c.pass # d.pass \/ c.host # d.host \/ c.title # d.title
                \/ c.note # d.note \/ c.key # d.key

Group(origin, P, S) == [origin |-> origin, ours |-> P, theirs |-> S]
Pair(g) == Cardinality(g.ours) = 1 /\ Cardinality(g.theirs) = 1
Identical(g) == Pair(g) /\ ~Differ(tree[Least(g.ours)].c, second[Least(g.theirs)].c)

Preview ==
    LET all == DOMAIN second
        lineage == {j \in all : second[j].uuid \in Records}
        exact == {j \in all \ lineage : SameKey(second[j].c) # {}}
        left == all \ (lineage \cup exact)
        keys == {SiteKey(second[j].c) : j \in left} \ {None}
        heuristic == {g \in {Group("heuristic",
                                   {i \in Records : SiteKey(tree[i].c) = k},
                                   {j \in left : SiteKey(second[j].c) = k}) : k \in keys} : g.ours # {}}
        groups == {Group("uuid", {second[j].uuid}, {j}) : j \in lineage} \cup heuristic
    IN  [made |-> TRUE, vault |-> vault,
         exact |-> {Group("exact", {Least(SameKey(second[j].c))}, {j}) : j \in exact},
         identical |-> {g \in groups : Identical(g)},
         divergent |-> {g \in groups : ~Identical(g)},
         rest |-> left \ UNION {g.theirs : g \in heuristic}]

----------------------------------------------------------------------------
(* Merging one entry into another.                                         *)

\* mergeStringField: an empty one yields.
MergeFieldFirst(a, b, preferSecond) == IF b = None THEN a ELSE b
MergeField(a, b, preferSecond) ==
    IF b = None THEN a ELSE IF a = None THEN b ELSE IF preferSecond THEN b ELSE a

\* mergeRecordIntoEntry, with copyAttachments, mergeCustomFields and
\* mergeKeepassxcPasskeyFields, which all decide the same way.
MergeContent(c, d, preferSecond) == [f \in DOMAIN c |-> MergeField(c[f], d[f], preferSecond)]

\* Entries of a preview that was made with another vault open are not found.
Here == pending.vault = vault
MergeInto(t, i, j, preferSecond) ==
    IF Here THEN [t EXCEPT ![i].c = MergeContent(@, second[j].c, preferSecond)] ELSE t
Import(t, j) == Append(t, [c |-> second[j].c, binned |-> FALSE])

\* db.remove.
Binned(t, S) == [i \in DOMAIN t |-> IF Here /\ i \in S THEN [t[i] EXCEPT !.binned = TRUE] ELSE t[i]]

\* The entries of S one after the other, as the second vault lists them.
ImportAll(t, S) ==
    LET upTo[n \in 0..Len(second)] ==
            IF n = 0 THEN t ELSE IF n \in S THEN Import(upTo[n - 1], n) ELSE upTo[n - 1]
    IN  upTo[Len(second)]

ApplyGroup(t, g, side) ==
    IF side = "keep-both" THEN ImportAll(t, g.theirs)
    ELSE IF Pair(g) THEN MergeInto(t, Least(g.ours), Least(g.theirs), side = "keep-b")
    ELSE IF side = "keep-a" THEN t
    ELSE ImportAll(Binned(t, g.ours), g.theirs)

\* Exact matches and groups of a shared uuid come in the order of the second vault, those
\* of the heuristic in the order of ours; groups of one origin share no entry.
TurnOf(g) == IF g.origin = "heuristic" THEN Least(g.ours) ELSE Least(g.theirs)
Turns == MaxEntries + Len(second)
MergeGroups(t, groups, side) ==
    LET after[n \in 0..Turns] ==
            IF n = 0 THEN t
            ELSE IF \E g \in groups : TurnOf(g) = n
            THEN LET g == CHOOSE h \in groups : TurnOf(h) = n IN ApplyGroup(after[n - 1], g, side[g])
            ELSE after[n - 1]
    IN  after[Turns]
Of(groups, origin) == {g \in groups : g.origin = origin}
UuidsFirst(t, groups, side) ==
    MergeGroups(MergeGroups(t, Of(groups, "uuid"), side), Of(groups, "heuristic"), side)

\* applyCombine up to the save; sides is the user's resolution of each group.
KeepOurs(groups) == [g \in groups |-> "keep-a"]
Combined(sides) ==
    LET exact == MergeGroups(tree, pending.exact, KeepOurs(pending.exact))
        identical == UuidsFirst(exact, pending.identical, KeepOurs(pending.identical))
        divergent == UuidsFirst(identical, pending.divergent, sides)
    IN  ImportAll(divergent, pending.rest)

ImportedBy(sides) ==
    pending.rest \cup UNION {g.theirs : g \in {h \in pending.divergent :
        sides[h] = "keep-both" \/ (sides[h] = "keep-b" /\ ~Pair(h))}}

----------------------------------------------------------------------------
(* The handlers.                                                           *)

OpenSecond(s) ==
    /\ second = <<>>
    /\ second' = s
    /\ pending' = NoPending
    /\ imported' = [j \in DOMAIN s |-> 0]
    /\ UNCHANGED <<vault, unlocked, tree, failed, applies>>

Close == second' = <<>> /\ pending' = NoPending /\ imported' = <<>>

CloseSecond ==
    /\ second # <<>>
    /\ Close
    /\ UNCHANGED <<vault, unlocked, tree, failed, applies>>

PreviewCombine ==
    /\ unlocked /\ second # <<>>
    /\ pending' = Preview
    /\ UNCHANGED <<vault, unlocked, tree, second, imported, failed, applies>>

NeverCloses(saved) == FALSE
Closes(saved) == saved

ApplyCombine(sides, saved) ==
    /\ unlocked /\ pending.made
    /\ applies < MaxApplies
    /\ applies' = applies + 1
    /\ Len(Combined(sides)) <= MaxEntries
    /\ tree' = Combined(sides)
    /\ failed' = (failed \/ ~saved)
    /\ IF Closes(saved)
       THEN Close
       ELSE /\ imported' = [j \in DOMAIN second |->
                               imported[j] + IF j \in ImportedBy(sides) THEN 1 ELSE 0]
            /\ UNCHANGED <<second, pending>>
    /\ UNCHANGED <<vault, unlocked>>

\* The user deletes an entry while the preview is on the screen.
DeleteEntry(i) ==
    /\ unlocked /\ i \in Records
    /\ tree' = [tree EXCEPT ![i].binned = TRUE]
    /\ UNCHANGED <<vault, unlocked, second, pending, imported, failed, applies>>

\* A lock leaves the second vault and the preview where they are.
Lock ==
    /\ unlocked
    /\ unlocked' = FALSE
    /\ UNCHANGED <<vault, tree, second, pending, imported, failed, applies>>

\* What a failed save did not store is gone.
UnlockSame ==
    /\ ~unlocked /\ ~failed
    /\ unlocked' = TRUE
    /\ UNCHANGED <<vault, tree, second, pending, imported, failed, applies>>

UnlockOther(t) ==
    /\ ~unlocked /\ vault = 1
    /\ vault' = 2 /\ unlocked' = TRUE
    /\ tree' = t
    /\ UNCHANGED <<second, pending, imported, failed, applies>>

Next ==
    \/ \E s \in Theirs : OpenSecond(s)
    \/ CloseSecond \/ PreviewCombine \/ Lock \/ UnlockSame
    \/ \E sides \in [pending.divergent -> Sides], saved \in BOOLEAN : ApplyCombine(sides, saved)
    \/ \E i \in DOMAIN tree : DeleteEntry(i)
    \/ \E t \in Ours : UnlockOther(t)

Spec == Init /\ [][Next]_vars

----------------------------------------------------------------------------
(* Properties.                                                             *)

TypeOK ==
    /\ vault \in 1..2 /\ unlocked \in BOOLEAN
    /\ \A i \in DOMAIN tree : tree[i].binned \in BOOLEAN
    /\ Len(tree) <= MaxEntries
    /\ second \in Theirs \cup {<<>>}
    /\ pending.vault \in 0..2
    /\ pending.made => second # <<>>
    /\ DOMAIN imported = DOMAIN second
    /\ failed \in BOOLEAN /\ applies \in 0..MaxApplies

Overruled(sides) == UNION {g.ours : g \in {h \in pending.divergent : sides[h] = "keep-b"}}
Answered(sides) == applies' > applies /\ tree' = Combined(sides)

\* Only the answer keep-b for a group takes a value of ours, or an entry of
\* ours, away: what is merged without asking never does.
OursStep ==
    \A sides \in [pending.divergent -> Sides] : Answered(sides) =>
        \A i \in Records \ Overruled(sides) :
            ~tree'[i].binned /\ \A f \in DOMAIN tree[i].c : tree[i].c[f] \in {None, tree'[i].c[f]}
OursKept == [][OursStep]_vars

\* The entry of ours that takes an incoming one in, if any.
Homes(j) ==
    UNION {g.ours : g \in {h \in pending.exact \cup pending.identical \cup pending.divergent :
                                Pair(h) /\ j \in h.theirs}}
Asked(j) == {g \in pending.divergent : j \in g.theirs}

\* Every password of the second vault is in the combined one, unless the user
\* answered keep-a for it, its counterpart was deleted or belongs to another
\* vault since the preview, or another group's answer replaces it; after a
\* failed save the preview is applied to what it was already applied to.
TheirsStep ==
    \A sides \in [pending.divergent -> Sides] : Answered(sides) =>
        \A j \in DOMAIN second :
            \/ second[j].c.pass = None \/ failed
            \/ \E i \in DOMAIN tree' : ~tree'[i].binned /\ tree'[i].c.pass = second[j].c.pass
            \/ \E g \in Asked(j) : sides[g] = "keep-a"
            \/ Homes(j) # {} /\ (~Here \/ ~(Homes(j) \subseteq Records))
            \/ \E g \in pending.divergent \ Asked(j) :
                  sides[g] = "keep-b" /\ g.ours \cap (Homes(j) \cup UNION {h.ours : h \in Asked(j)}) # {}
TheirsArrive == [][TheirsStep]_vars

\* As long as every save succeeds no incoming entry is imported twice; the
\* retry of an application whose save failed imports again.
ImportedOnce == failed \/ \A j \in DOMAIN imported : imported[j] <= 1
=============================================================================

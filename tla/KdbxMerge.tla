------------------------------ MODULE KdbxMerge ------------------------------
(***************************************************************************)
(* Kdbx.merge: replicas of one database that edit on their own and then    *)
(* reconcile with the copy they share.                                     *)
(*                                                                         *)
(* Source: merge of kdbx/kdbx.ts, kdbx-group.ts, kdbx-entry.ts and         *)
(* kdbx-meta.ts of packages/core.  Times are the ticks of one clock, and   *)
(* the content of an object is named by the tick it was written at.  Of    *)
(* the metadata the name stands for the settings with a date; icons,       *)
(* binaries and the order of children are left out, and with it which of   *)
(* two children a merge visits first.                                      *)
(***************************************************************************)
EXTENDS Naturals, Sequences, FiniteSets

CONSTANTS
    Sites,          \* devices with a replica
    Groups, Entries,
    Root,           \* the default group, in Groups
    First,          \* the objects of the common ancestor, all below the root
    HistoryMax,     \* meta.historyMaxItems
    None,           \* no merge runs
    MaxTicks        \* bound: changes that are made

Objects == Groups \cup Entries
Times == 0..MaxTicks

VARIABLES
    replica,        \* each site's database
    upstream,       \* the copy they share
    ticks,
    born,           \* history: uuids that have been used
    known,          \* history: objects that were in the copy they share
    missed,         \* history: those of them that a merge passed by
    walk            \* the merge that runs, and how far it is, or None

vars == <<replica, upstream, ticks, born, known, missed, walk>>

----------------------------------------------------------------------------
(* A database.                                                             *)

\* allGroupsAndEntries.
Down(kids, S) == S \cup UNION {kids[g] : g \in S \cap Groups}
Below(kids, x) ==
    LET level[n \in 0..Cardinality(Groups)] ==
            IF n = 0 THEN {x} ELSE Down(kids, level[n - 1])
    IN  level[Cardinality(Groups)]
Alive(db) == {Root} \cup UNION {db.kids[g] : g \in Groups}
GroupsOf(db) == Alive(db) \cap Groups
Holders(db, x) == {g \in Groups : x \in db.kids[g]}

Fresh == [mod |-> 0, loc |-> 0, hist |-> {}, added |-> {}, gone |-> {}]

Ancestor ==
    [kids |-> [g \in Groups |-> IF g = Root THEN First ELSE {}],
     item |-> [x \in Objects |-> Fresh],    \* times, history and edit state of an object
     dead |-> {},                           \* deletedObjects
     name |-> 0]                            \* meta.nameChanged

Init ==
    /\ replica = [s \in Sites |-> Ancestor]
    /\ upstream = Ancestor
    /\ ticks = 0
    /\ born = First \cup {Root}
    /\ known = born
    /\ missed = {}
    /\ walk = None

----------------------------------------------------------------------------
(* Changes a site makes, between merges.                                   *)

\* No object is in two places: getObjectMap refuses a database with an entry that is.  A
\* database with any object in two places is where the model stops.
Sound(db) == \A x \in Objects : Cardinality(Holders(db, x)) <= 1

Now == ticks + 1
Change(s, db) ==
    /\ Sound(replica[s])
    /\ ticks < MaxTicks
    /\ ticks' = Now
    /\ replica' = [replica EXCEPT ![s] = db]
    /\ UNCHANGED <<upstream, known, missed, walk>>

Taken(kids, x) == [g \in Groups |-> kids[g] \ {x}]
PutIn(kids, g, x) == [Taken(kids, x) EXCEPT ![g] = @ \cup {x}]

Create(s, x, g) ==
    /\ x \notin born /\ g \in GroupsOf(replica[s])
    /\ born' = born \cup {x}
    /\ Change(s, [replica[s] EXCEPT !.kids = PutIn(@, g, x),
                                    !.item[x] = [Fresh EXCEPT !.mod = Now, !.loc = Now]])

Move(s, x, g) ==
    /\ x \in Alive(replica[s]) \ {Root}
    /\ g \in GroupsOf(replica[s]) \ Below(replica[s].kids, x)
    /\ x \notin replica[s].kids[g]
    /\ Change(s, [replica[s] EXCEPT !.kids = PutIn(@, g, x), !.item[x].loc = Now])
    /\ UNCHANGED born

\* move to nowhere: everything below gets a tombstone.
Delete(s, x) ==
    /\ x \in Alive(replica[s]) \ {Root}
    /\ LET lost == Below(replica[s].kids, x)
       IN  Change(s, [replica[s] EXCEPT !.dead = @ \cup lost,
                                        !.kids = [g \in Groups |-> IF g \in lost THEN {} ELSE @[g] \ {x}]])
    /\ UNCHANGED born

\* pushHistory, with its mark in the edit state.
Pushed(i) == [i EXCEPT !.hist = @ \cup {i.mod}, !.added = @ \cup {i.mod}]

EditEntry(s, x) ==
    /\ x \in Alive(replica[s]) \cap Entries
    /\ Change(s, [replica[s] EXCEPT !.item[x] = [Pushed(@) EXCEPT !.mod = Now]])
    /\ UNCHANGED born

RenameGroup(s, x) ==
    /\ x \in GroupsOf(replica[s])
    /\ Change(s, [replica[s] EXCEPT !.item[x].mod = Now])
    /\ UNCHANGED born

RenameDatabase(s) ==
    /\ Change(s, [replica[s] EXCEPT !.name = Now])
    /\ UNCHANGED born

----------------------------------------------------------------------------
(* The merge of the shared copy r into the database l of a site.  It changes l in place as *)
(* it goes down from the root, so it compares with what it has changed before: the walk    *)
(* has the children and the items as they are now, the groups on its way, and what has met *)
(* its counterpart.  Nothing else runs meanwhile.                                          *)

Local == replica[walk.site]

\* mergeCollection, for the children of group g.
StaysHereIfLater(i, j) == j.loc < i.loc
StaysHere(i, j) == j.loc <= i.loc
ComesHere(i, j) == j.loc > i.loc
MergeCollection(l, r, w, g) ==
    LET dead == l.dead \cup r.dead
    IN  {x \in w.kids[g] \ dead : x \in Alive(r) => StaysHere(w.item[x], r.item[x])}
        \cup {x \in r.kids[g] \ dead : x \in Alive(l) => ComesHere(w.item[x], r.item[x])}

\* copyFrom into a new object: times, and no history.
Copied(j) == [Fresh EXCEPT !.mod = j.mod, !.loc = j.loc]

MergeGroup(i, j) == IF j.mod > i.mod THEN [i EXCEPT !.mod = j.mod, !.loc = j.loc] ELSE i

\* Group g meets the remote one, and its children are collected.
MergeInto(l, r, w, g) ==
    LET kids == MergeCollection(l, r, w, g)
        Item(x) == IF x = g THEN MergeGroup(w.item[x], r.item[x])
                   ELSE IF x \in kids \ Alive(l) THEN Copied(r.item[x])      \* created here
                   ELSE w.item[x]
    IN  [w EXCEPT !.kids[g] = kids, !.item = [x \in Objects |-> Item(x)],
                  !.path = Append(@, g), !.met = @ \cup {g}]

\* mergeHistory: what both have, what one has added, and what the other's history is
\* too old to have.
MergeHistory(i, remote, last) ==
    (i.hist \cap remote)
    \cup {t \in remote \ i.hist : t \notin i.gone}
    \cup {t \in i.hist \ remote : t \in i.added \/ t > last}

MergeEntryOver(i, j) == IF i.mod < j.mod THEN Copied(j) ELSE i

MergeEntry(i, j) ==
    LET own == IF i.mod < j.mod
               THEN [Pushed(i) EXCEPT !.mod = j.mod, !.loc = j.loc]     \* copyFrom
               ELSE i
        theirs == IF i.mod > j.mod /\ j.mod \notin i.hist THEN j.hist \cup {j.mod} ELSE j.hist
    IN  [own EXCEPT !.hist = MergeHistory(own, theirs, j.mod)]

\* cleanup: the oldest versions above the limit go.
Oldest(S) == CHOOSE t \in S : \A u \in S : t <= u
Trimmed(i) ==
    LET over == {t \in i.hist : Cardinality({u \in i.hist : u > t}) >= HistoryMax}
    IN  [i EXCEPT !.hist = @ \ over, !.gone = @ \cup over]

\* The database a merge leaves.
Merge(l, r, w) ==
    LET alive == Below(w.kids, Root)
    IN  [kids |-> [g \in Groups |-> IF g \in alive THEN w.kids[g] ELSE {}],
         item |-> [x \in Objects |-> IF x \in alive THEN Trimmed(w.item[x]) ELSE Fresh],
         dead |-> l.dead \cup r.dead,
         name |-> IF r.name > l.name THEN r.name ELSE l.name]

\* merge begins with the root.
BeginMerge(s) ==
    /\ Sound(replica[s]) /\ Sound(upstream)
    /\ LET l == replica[s]
       IN  walk' = MergeInto(l, upstream, [site |-> s, kids |-> l.kids, item |-> l.item,
                                           path |-> <<>>, met |-> {}], Root)
    /\ UNCHANGED <<replica, upstream, ticks, born, known, missed>>

\* The children that the group the walk is at has yet to merge.
Here == walk.path[Len(walk.path)]
ToMerge(S) == (walk.kids[Here] \cap S \cap Alive(upstream)) \ walk.met

\* A subgroup merges, and does nothing when the remote database does not have it.  One that
\* came from a group the walk gets to later may be there too, and merges there again; what
\* becomes of a group in two places is left out.
MergeSubgroup(g) ==
    /\ walk # None /\ walk.path # <<>>
    /\ g \in ToMerge(Groups)
    /\ walk' = MergeInto(Local, upstream, walk, g)
    /\ UNCHANGED <<replica, upstream, ticks, born, known, missed>>

\* After the subgroups, the entries.  One that has merged before, in another group it came
\* to, has been copied there, and nothing more comes of it.
MergeEntries ==
    /\ walk # None /\ walk.path # <<>>
    /\ ToMerge(Groups) = {}
    /\ LET Item(x) == IF x \in ToMerge(Entries) THEN MergeEntry(walk.item[x], upstream.item[x])
                      ELSE walk.item[x]
       IN  walk' = [walk EXCEPT !.item = [x \in Objects |-> Item(x)],
                                !.path = SubSeq(@, 1, Len(@) - 1),
                                !.met = @ \cup ToMerge(Entries)]
    /\ UNCHANGED <<replica, upstream, ticks, born, known, missed>>

\* The site pushes the result and clears its edit state (removeLocalEditState).
Settled(db) == [db EXCEPT !.item = [x \in Objects |-> [@[x] EXCEPT !.added = {}, !.gone = {}]]]

EndMerge ==
    /\ walk # None /\ walk.path = <<>>
    /\ upstream' = Settled(Merge(Local, upstream, walk))
    /\ replica' = [replica EXCEPT ![walk.site] = upstream']
    /\ known' = known \cup Alive(upstream')
    /\ missed' = missed \cup (known \cap (Alive(upstream') \ walk.met))
    /\ walk' = None
    /\ UNCHANGED <<ticks, born>>

Next ==
    \/ walk = None /\ \E s \in Sites :
        \/ \E x \in Objects :
            \/ EditEntry(s, x) \/ RenameGroup(s, x) \/ Delete(s, x)
            \/ \E g \in Groups : Create(s, x, g) \/ Move(s, x, g)
        \/ RenameDatabase(s)
        \/ BeginMerge(s)
    \/ \E g \in Groups : MergeSubgroup(g)
    \/ MergeEntries
    \/ EndMerge

Spec == Init /\ [][Next]_vars

----------------------------------------------------------------------------
(* Properties.                                                             *)

Database(db) ==
    /\ db.kids \in [Groups -> SUBSET Objects]
    /\ \A x \in Objects : db.item[x].mod \in Times /\ db.item[x].loc \in Times
                          /\ db.item[x].hist \subseteq Times
    /\ db.dead \subseteq Objects /\ db.name \in Times

TypeOK ==
    /\ \A s \in Sites : Database(replica[s])
    /\ Database(upstream)
    /\ ticks \in Times /\ born \subseteq Objects /\ known \subseteq born /\ missed \subseteq known
    /\ walk # None => /\ walk.site \in Sites /\ walk.path \in Seq(Groups) /\ walk.met \subseteq Objects
                      /\ Database([Local EXCEPT !.kids = walk.kids, !.item = walk.item])

\* A step that ends a merge of s.
Synced(s) == walk # None /\ walk.site = s /\ walk' = None

\* What the other side has of them does not contradict l about x and the groups above.
Agreed(l, r, x) ==
    LET path == {y \in Alive(l) : x \in Below(l.kids, y)}
    IN  \A y \in path : /\ y \notin l.dead \cup r.dead
                        /\ y \in Alive(r) => Holders(r, y) = Holders(l, y)

Kept(l, r, m, x) == Agreed(l, r, x) => x \in Alive(m) /\ Holders(m, x) = Holders(l, x)

\* A merge loses nothing of either side that nobody deleted, and moves nothing that
\* nobody moved, whatever is moved, created and deleted elsewhere in the tree.
AgreedStep ==
    \A s \in Sites : Synced(s) =>
        LET l == replica[s] r == upstream m == replica'[s]
        IN  (\A x \in Alive(l) : Kept(l, r, m, x)) /\ (\A x \in Alive(r) : Kept(r, l, m, x))
AgreedStays == [][AgreedStep]_vars

\* The comment of mergeCollection promises a 2P-set: what has been added and not
\* deleted by anyone is in the merged tree, once.
MergeKeepsAll ==
    [][\A s \in Sites : Synced(s) =>
        \A x \in (Alive(replica[s]) \cup Alive(upstream)) \ ({Root} \cup replica[s].dead \cup upstream.dead) :
            Cardinality(Holders(replica'[s], x)) = 1]_vars

\* No version of an entry is lost in a merge, up to the limit of the history: both sides'
\* newest are in the merged entry.  Entries that a merge has passed by are excepted: there
\* one side's versions are lost, and with them what tells a new version from an old one.
\* What is left in two places is not: it merges once all the same.
Versions(db, x) == db.item[x].hist \cup {db.item[x].mod}
Newest(S) == {t \in S : Cardinality({u \in S : u > t}) <= HistoryMax}
VersionsStep ==
    \A s \in Sites : Synced(s) =>
        \A x \in (Alive(replica[s]) \cap Alive(upstream) \cap Alive(replica'[s]) \cap Entries) \ missed' :
            Newest(Versions(replica[s], x) \cup Versions(upstream, x)) \subseteq Versions(replica'[s], x)
VersionsKept == [][VersionsStep]_vars
=============================================================================

---------------------------- MODULE LibraryProofs ----------------------------
(***************************************************************************)
(* Proofs about the run Library, for any values of its constants.          *)
(*                                                                         *)
(* KdbxTree: all theorems suppose that no group that holds the bin is      *)
(* deleted: when one is, things are lost (run KdbxTreeBin).  The inductive *)
(* invariant says that the two structures are one forest and that what was *)
(* never in it is not in them.                                             *)
(* MetaMerge: every setting carries its date, a date dates one value, and  *)
(* what a client changed and has not pushed is newer than the server's.    *)
(* EntryEdits: a key is stored in an entry that lists it, or that a merge  *)
(* is about to list it in, and the value a field loses is logged before it *)
(* is lost, where it is not taken over from a second vault.                *)
(* KdbxMerge: the tree of every replica hangs from its root, also halfway  *)
(* through the walk of a merge, in which the groups met have what they are *)
(* to keep; a version that a site has not made itself is in the shared     *)
(* copy or was there.                                                      *)
(* Combine: the groups of a preview name entries of both sides in order,   *)
(* and all of the second vault's; an application goes through sets of      *)
(* trees that every group keeps.                                           *)
(* Types: times, texts and histories are bounded by the steps so far.      *)
(***************************************************************************)
EXTENDS MCLibrary, SequenceTheorems, FiniteSetTheorems, WellFoundedInduction, TLAPS

Arrays == [Groups -> SUBSET Objects]
Pointers == [Objects -> Groups \cup {None}]

\* Arrays and pointers describe one forest, in which Root has no parent.
Agree(h, p) ==
    /\ h \in Arrays /\ p \in Pointers
    /\ p[Root] = None
    /\ \A g \in Groups, o \in Objects : o \in h[g] <=> p[o] = g

\* o is in no array and, if it is a group, holds nothing.
Unplaced(h, p, o) == p[o] = None /\ (o \in Groups => h[o] = {})

IInv ==
    /\ TypeOK
    /\ Agree(holds, parent)
    /\ \A o \in Objects \ made : Unplaced(holds, parent, o)
    /\ Live \subseteq made
    /\ NothingLost
    /\ TombstonesDead

-----------------------------------------------------------------------------
(* What is below an object.                                                *)

LEMMA BelowClosed ==
    ASSUME NEW h \in Arrays, NEW o \in Objects
    PROVE  /\ Below(h, o) \subseteq Objects /\ o \in Below(h, o)
           /\ \A g \in Below(h, o) \cap Groups : h[g] \subseteq Below(h, o)
<1>1. Below(h, o) \subseteq Objects /\ o \in Below(h, o)
    BY DEF Below
<1>2. ASSUME NEW g \in Below(h, o) \cap Groups, NEW c \in h[g]
      PROVE  c \in Below(h, o)
    <2>1. c \in Objects
        BY DEF Arrays
    <2>2. ASSUME NEW S \in SUBSET Objects, o \in S, Closed(h, S)
          PROVE  c \in S
        <3>1. g \in S
            BY <2>2 DEF Below
        <3> QED BY <2>2, <3>1 DEF Closed
    <2> QED BY <2>1, <2>2 DEF Below
<1> QED BY <1>1, <1>2

LEMMA BelowLeast ==
    ASSUME NEW h \in Arrays, NEW o \in Objects, NEW S \in SUBSET Objects, o \in S,
           \A g \in S \cap Groups : h[g] \subseteq S
    PROVE  Below(h, o) \subseteq S
BY DEF Below, Closed

LEMMA BelowParent ==
    ASSUME NEW h, NEW p, Agree(h, p), NEW o \in Objects, NEW x \in Below(h, o), x # o
    PROVE  p[x] \in Below(h, o) \cap Groups /\ x \in h[p[x]]
<1> h \in Arrays
    BY DEF Agree
<1> DEFINE S == {y \in Below(h, o) : y = o \/ p[y] \in Below(h, o) \cap Groups}
<1>1. S \in SUBSET Objects /\ o \in S
    BY BelowClosed
<1>2. ASSUME NEW g \in S \cap Groups PROVE h[g] \subseteq S
    BY BelowClosed DEF Agree, Arrays
<1>3. Below(h, o) \subseteq S
    BY <1>1, <1>2, BelowLeast
<1>4. x \in Objects /\ p[x] \in Below(h, o) \cap Groups
    BY <1>1, <1>3
<1> QED BY <1>4 DEF Agree

LEMMA RootBelowNothing ==
    ASSUME NEW h, NEW p, Agree(h, p), NEW o \in Objects, o # Root
    PROVE  Root \notin Below(h, o)
BY BelowParent, TreeAssumption DEF Agree, Objects

LEMMA EntryBelow ==
    ASSUME NEW h \in Arrays, NEW e \in Entries
    PROVE  Below(h, e) = {e}
<1>1. e \in Objects /\ {e} \in SUBSET Objects /\ {e} \cap Groups = {}
    BY TreeAssumption DEF Objects
<1> QED BY <1>1, BelowClosed, BelowLeast

-----------------------------------------------------------------------------
(* What the changes of the tree do to what is in it.                       *)

LEMMA GrownAgree ==
    ASSUME NEW h, NEW p, Agree(h, p), NEW g \in Groups, NEW new \in SUBSET Objects,
           \A o \in new : Unplaced(h, p, o), Root \notin new
    PROVE  Agree(GrownHolds(h, g, new), GrownParent(p, g, new))
<1> DEFINE h2 == GrownHolds(h, g, new)
           p2 == GrownParent(p, g, new)
<1>1. h \in Arrays /\ p \in Pointers /\ p[Root] = None
    BY DEF Agree
<1>2. h2 \in Arrays /\ \A x \in Groups : h2[x] = IF x = g THEN h[g] \cup new ELSE h[x]
    BY <1>1 DEF GrownHolds, Arrays
<1>3. p2 \in Pointers /\ \A o \in Objects : p2[o] = IF o \in new THEN g ELSE p[o]
    BY <1>1 DEF GrownParent, Pointers
<1>4. Root \in Objects
    BY TreeAssumption DEF Objects
<1>5. ASSUME NEW x \in Groups, NEW o \in Objects
      PROVE  o \in h2[x] <=> p2[o] = x
    <2>1. o \in h[x] <=> p[o] = x
        BY DEF Agree
    <2>2. o \in new => p[o] # x
        BY TreeAssumption DEF Unplaced, Objects
    <2> QED BY <1>2, <1>3, <2>1, <2>2
<1> HIDE DEF h2, p2
<1>6. Agree(h2, p2)
    BY <1>1, <1>2, <1>3, <1>4, <1>5 DEF Agree
<1> QED BY <1>6 DEF h2, p2

LEMMA GrownLive ==
    ASSUME NEW h, NEW p, Agree(h, p), NEW g \in Groups \cap Below(h, Root),
           NEW new \in SUBSET Objects, \A o \in new : Unplaced(h, p, o)
    PROVE  Below(GrownHolds(h, g, new), Root) = Below(h, Root) \cup new
<1> DEFINE h2 == GrownHolds(h, g, new)
           L == Below(h, Root)
           T == Below(h2, Root)
<1>1. h \in Arrays /\ Root \in Objects
    BY TreeAssumption DEF Agree, Objects
<1>2. h2 \in Arrays /\ \A x \in Groups : h2[x] = IF x = g THEN h[g] \cup new ELSE h[x]
    BY <1>1 DEF GrownHolds, Arrays
<1> HIDE DEF h2
<1>3. L \subseteq Objects /\ Root \in L /\ \A x \in L \cap Groups : h[x] \subseteq L
    BY <1>1, BelowClosed
<1>4. T \subseteq Objects /\ Root \in T /\ \A x \in T \cap Groups : h2[x] \subseteq T
    BY <1>1, <1>2, BelowClosed
<1> HIDE DEF L, T
<1>5. T \subseteq L \cup new
    <2>1. ASSUME NEW x \in (L \cup new) \cap Groups PROVE h2[x] \subseteq L \cup new
        BY <1>2, <1>3 DEF Unplaced
    <2> QED BY <1>1, <1>2, <1>3, <2>1, BelowLeast DEF T
<1>6. L \subseteq T
    <2>1. \A x \in T \cap Groups : h[x] \subseteq T
        BY <1>2, <1>4
    <2> QED BY <1>1, <1>4, <2>1, BelowLeast DEF L
<1>7. new \subseteq T
    BY <1>2, <1>4, <1>6 DEF L
<1> QED BY <1>5, <1>6, <1>7 DEF h2, L, T

LEMMA FoundInTree ==
    ASSUME NEW h, NEW p, Agree(h, p), NEW o \in Below(h, Root) \ {Root}
    PROVE  Found(h, p, o)
BY BelowParent, TreeAssumption DEF Found, Objects

\* Objects that are found are moved, all of them.
LEMMA PutFound ==
    ASSUME NEW h, NEW p, Agree(h, p), NEW S \in SUBSET (Objects \ {Root}),
           \A o \in S : Found(h, p, o), NEW to \in [S -> Groups \cup {None}]
    PROVE  LET h2 == PutHolds(h, p, S, to)
               p2 == PutParent(h, p, S, to)
           IN  /\ Agree(h2, p2)
               /\ \A g \in Groups : h2[g] = (h[g] \ S) \cup {o \in S : to[o] = g}
               /\ \A o \in Objects : p2[o] = IF o \in S THEN to[o] ELSE p[o]
<1> DEFINE h2 == PutHolds(h, p, S, to)
           p2 == PutParent(h, p, S, to)
<1>1. h \in Arrays /\ p \in Pointers /\ p[Root] = None /\ Root \in Objects
    BY TreeAssumption DEF Agree, Objects
<1>2. ASSUME NEW g \in Groups
      PROVE  h2[g] = (h[g] \ S) \cup {o \in S : to[o] = g}
    <2>1. h2[g] = (h[g] \ {o \in S : p[o] = g}) \cup {o \in S : Found(h, p, o) /\ to[o] = g}
        BY DEF PutHolds
    <2>2. \A o \in h[g] : o \in Objects /\ p[o] = g
        BY <1>1 DEF Agree, Arrays
    <2> QED BY <2>1, <2>2
<1>3. \A o \in Objects : p2[o] = IF o \in S THEN to[o] ELSE p[o]
    BY DEF PutParent
<1>4. h2 \in Arrays
    <2>1. \A g \in Groups : h2[g] \in SUBSET Objects
        BY <1>1, <1>2 DEF Arrays
    <2>2. h2 = [g \in Groups |-> h2[g]]
        BY DEF PutHolds
    <2> HIDE DEF h2
    <2> QED BY <2>1, <2>2 DEF Arrays
<1>5. p2 \in Pointers
    <2>1. \A o \in Objects : p2[o] \in Groups \cup {None}
        BY <1>1, <1>3 DEF Pointers
    <2>2. p2 = [o \in Objects |-> p2[o]]
        BY DEF PutParent
    <2> HIDE DEF p2
    <2> QED BY <2>1, <2>2 DEF Pointers
<1> HIDE DEF h2, p2
<1>6. ASSUME NEW g \in Groups, NEW o \in Objects
      PROVE  o \in h2[g] <=> p2[o] = g
    <2>1. o \in h[g] <=> p[o] = g
        BY DEF Agree
    <2> QED BY <1>2, <1>3, <2>1
<1>7. Agree(h2, p2)
    BY <1>1, <1>3, <1>4, <1>5, <1>6 DEF Agree
<1> QED BY <1>2, <1>3, <1>7 DEF h2, p2

\* Whatever is below an object of S.
Under(h, S) == UNION {Below(h, x) : x \in S}

\* A closed set of the new tree, with what was below S, is closed in the old one.
LEMMA ClosedWithUnder ==
    ASSUME NEW h, NEW p, Agree(h, p), NEW S \in SUBSET (Objects \ {Root}),
           NEW h2, \A g \in Groups : h[g] \ S \subseteq h2[g],
           NEW T \in SUBSET Objects, Root \in T, \A g \in T \cap Groups : h2[g] \subseteq T
    PROVE  Below(h, Root) \subseteq T \cup Under(h, S)
<1> DEFINE Gone == Under(h, S)
<1>1. h \in Arrays /\ Root \in Objects
    BY TreeAssumption DEF Agree, Objects
<1>2. Gone \subseteq Objects /\ S \subseteq Gone /\ \A g \in Gone \cap Groups : h[g] \subseteq Gone
    BY <1>1, BelowClosed DEF Under
<1> HIDE DEF Gone
<1>3. ASSUME NEW g \in (T \cup Gone) \cap Groups PROVE h[g] \subseteq T \cup Gone
    BY <1>2
<1>4. Below(h, Root) \subseteq T \cup Gone
    BY <1>1, <1>2, <1>3, BelowLeast
<1> QED BY <1>4 DEF Gone

\* Moving parts of the tree to other parts of it keeps everything in it.
LEMMA MoveLive ==
    ASSUME NEW h, NEW p, Agree(h, p), NEW S \in SUBSET (Below(h, Root) \ {Root}),
           NEW to \in [S -> Groups],
           \A o \in S : to[o] \in Below(h, Root) \ Under(h, S)
    PROVE  /\ Agree(PutHolds(h, p, S, to), PutParent(h, p, S, to))
           /\ Below(PutHolds(h, p, S, to), Root) = Below(h, Root)
<1> DEFINE h2 == PutHolds(h, p, S, to)
           L == Below(h, Root)
           T == Below(h2, Root)
<1>1. h \in Arrays /\ Root \in Objects
    BY TreeAssumption DEF Agree, Objects
<1>2. L \subseteq Objects /\ Root \in L /\ \A x \in L \cap Groups : h[x] \subseteq L
    BY <1>1, BelowClosed
<1>3. S \in SUBSET (Objects \ {Root}) /\ to \in [S -> Groups \cup {None}]
      /\ \A o \in S : Found(h, p, o)
    BY <1>2, FoundInTree
<1>4. /\ Agree(h2, PutParent(h, p, S, to))
      /\ \A g \in Groups : h2[g] = (h[g] \ S) \cup {o \in S : to[o] = g}
    BY <1>3, PutFound
<1> HIDE DEF h2
<1>5. h2 \in Arrays
    BY <1>4 DEF Agree
<1>6. T \subseteq Objects /\ Root \in T /\ \A x \in T \cap Groups : h2[x] \subseteq T
    BY <1>1, <1>5, BelowClosed
<1> HIDE DEF L, T
<1>7. T \subseteq L
    <2>1. ASSUME NEW g \in L \cap Groups PROVE h2[g] \subseteq L
        BY <1>2, <1>4 DEF L
    <2> QED BY <1>1, <1>2, <1>5, <2>1, BelowLeast DEF T
<1>8. L \subseteq T \cup Under(h, S)
    <2>1. \A g \in Groups : h[g] \ S \subseteq h2[g]
        BY <1>4
    <2> QED BY <1>3, <1>6, <2>1, ClosedWithUnder DEF L
<1>9. S \subseteq T
    <2>1. ASSUME NEW o \in S PROVE o \in T
        <3>1. to[o] \in T \cap Groups
            BY <1>8 DEF L
        <3>2. o \in h2[to[o]]
            BY <1>4, <3>1
        <3> QED BY <1>6, <3>1, <3>2
    <2> QED BY <2>1
<1>10. ASSUME NEW x \in S PROVE Below(h, x) \subseteq T
    <2> DEFINE Z == Below(h, x) \cap T
    <2>1. x \in Objects
        BY <1>3
    <2>2. Z \in SUBSET Objects /\ x \in Z
        BY <1>1, <1>6, <1>9, <2>1, BelowClosed
    <2>3. ASSUME NEW g \in Z \cap Groups, NEW c \in h[g] PROVE c \in Z
        <3>1. c \in Below(h, x)
            BY <1>1, <2>1, BelowClosed
        <3>2. c \in S \/ c \in h2[g]
            BY <1>4
        <3> QED BY <1>6, <1>9, <3>1, <3>2
    <2> QED BY <1>1, <2>1, <2>2, <2>3, BelowLeast
<1>11. L \subseteq T
    BY <1>8, <1>10 DEF Under
<1> QED BY <1>4, <1>7, <1>11 DEF h2, L, T

\* Moving parts of the tree to nowhere takes exactly what is below them out of it.
LEMMA BuryLive ==
    ASSUME NEW h, NEW p, Agree(h, p), NEW S \in SUBSET (Below(h, Root) \ {Root}),
           NEW to, to = [o \in S |-> None]
    PROVE  /\ Agree(PutHolds(h, p, S, to), PutParent(h, p, S, to))
           /\ Below(PutHolds(h, p, S, to), Root) = Below(h, Root) \ Under(h, S)
           /\ \A g \in Groups : PutHolds(h, p, S, to)[g] \subseteq h[g]
<1> DEFINE h2 == PutHolds(h, p, S, to)
           L == Below(h, Root)
           T == Below(h2, Root)
           Gone == Under(h, S)
<1>1. h \in Arrays /\ Root \in Objects
    BY TreeAssumption DEF Agree, Objects
<1>2. L \subseteq Objects /\ Root \in L /\ \A x \in L \cap Groups : h[x] \subseteq L
    BY <1>1, BelowClosed
<1>3. S \in SUBSET (Objects \ {Root}) /\ to \in [S -> Groups \cup {None}]
      /\ \A o \in S : Found(h, p, o)
    BY <1>2, FoundInTree
<1>4. /\ Agree(h2, PutParent(h, p, S, to))
      /\ \A g \in Groups : h2[g] = (h[g] \ S) \cup {o \in S : to[o] = g}
    BY <1>3, PutFound
<1>5. \A g \in Groups : h2[g] = h[g] \ S
    <2>1. \A o \in S : to[o] \notin Groups
        BY TreeAssumption DEF Objects
    <2> HIDE DEF h2
    <2> QED BY <1>4, <2>1
<1> HIDE DEF h2
<1>6. h2 \in Arrays
    BY <1>4 DEF Agree
<1>7. T \subseteq Objects /\ Root \in T /\ \A x \in T \cap Groups : h2[x] \subseteq T
    BY <1>1, <1>6, BelowClosed
<1> HIDE DEF L, T
<1>8. L \subseteq T \cup Gone
    BY <1>3, <1>5, <1>7, ClosedWithUnder DEF L
<1>9. Root \notin Gone
    BY <1>3, RootBelowNothing DEF Under
<1>10. ASSUME NEW g \in (L \ Gone) \cap Groups, NEW c \in h2[g] PROVE c \in L \ Gone
    <2>1. c \in h[g] /\ c \notin S /\ c \in L /\ c \in Objects
        BY <1>2, <1>5
    <2>2. p[c] = g
        BY <2>1 DEF Agree
    <2>3. ASSUME NEW x \in S, c \in Below(h, x) PROVE FALSE
        <3>1. p[c] \in Below(h, x)
            BY <1>3, <2>1, <2>3, BelowParent
        <3> QED BY <2>2, <3>1 DEF Under
    <2> QED BY <2>1, <2>3 DEF Under
<1>11. T \subseteq L \ Gone
    <2>1. L \ Gone \in SUBSET Objects /\ Root \in L \ Gone
        BY <1>2, <1>9
    <2> HIDE DEF Gone
    <2> QED BY <1>1, <1>6, <1>10, <2>1, BelowLeast DEF T
<1> QED BY <1>4, <1>5, <1>8, <1>11 DEF h2, L, T

-----------------------------------------------------------------------------
(* A database as it comes out of a file.                                   *)

LEMMA InitIInv == Init => IInv
<1> SUFFICES ASSUME Init PROVE IInv
    OBVIOUS
<1>1. /\ parent \in Pointers
      /\ \A g \in Groups : holds[g] = {o \in Objects : parent[o] = g}
      /\ holds \in Arrays /\ made = Live /\ buried = {}
      /\ \A o \in Objects : parent[o] = None <=> o \notin Live \ {Root}
    BY DEF Init, Arrays, Pointers
<1>2. Root \in Objects
    BY TreeAssumption DEF Objects
<1>3. Agree(holds, parent)
    BY <1>1, <1>2 DEF Agree
<1>4. Live \subseteq Objects
    BY <1>1, <1>2, BelowClosed DEF Live
<1>5. ASSUME NEW o \in Objects \ made PROVE Unplaced(holds, parent, o)
    <2>1. parent[o] = None
        BY <1>1
    <2>2. ASSUME o \in Groups, NEW c \in holds[o] PROVE FALSE
        <3>1. c \in Objects /\ parent[c] = o
            BY <1>1, <2>2
        <3>2. c \in Live \ {Root}
            BY <1>1, <2>2, <3>1, TreeAssumption DEF Objects
        <3>3. parent[c] \in Live
            BY <1>2, <1>3, <3>2, BelowParent DEF Live
        <3> QED BY <1>1, <3>1, <3>3
    <2> QED BY <1>1, <2>1, <2>2 DEF Unplaced, Arrays
<1>6. TypeOK
    BY <1>1, <1>4 DEF TypeOK, Init, Arrays, Pointers
<1> QED BY <1>1, <1>3, <1>5, <1>6 DEF IInv, NothingLost, TombstonesDead

-----------------------------------------------------------------------------
(* The operations.                                                         *)

\* What every operation may rely on.
LEMMA InTree ==
    ASSUME IInv
    PROVE  /\ Agree(holds, parent) /\ holds \in Arrays /\ parent \in Pointers
           /\ Root \in Groups /\ Root \in Objects /\ Root \in Live
           /\ Live = Below(holds, Root) /\ Live \subseteq made /\ made \subseteq Objects
           /\ \A o \in Objects \ made : Unplaced(holds, parent, o)
           /\ made \subseteq Live \cup buried /\ Live \cap buried = {} /\ buried \subseteq made
           /\ bin \in (Groups \ {Root}) \cup {None} /\ binEnabled \in BOOLEAN
BY BelowClosed, TreeAssumption
   DEF IInv, Agree, TypeOK, Live, NothingLost, TombstonesDead, Objects

\* New objects are in the tree and nothing else changes.
LEMMA GrowPreserves ==
    ASSUME IInv, NEW h, NEW p, NEW new \in SUBSET Objects, new \cap made = {},
           Agree(h, p), Below(h, Root) = Live \cup new,
           \A o \in Objects \ (made \cup new) : Unplaced(h, p, o),
           holds' = h, parent' = p, made' = made \cup new, buried' = buried,
           bin' \in (Groups \ {Root}) \cup {None}, binEnabled' = binEnabled
    PROVE  IInv'
<1>1. Live' = Live \cup new
    BY DEF Live
<1>2. TypeOK'
    BY InTree DEF TypeOK, Agree, Arrays, Pointers
<1>3. Agree(holds, parent)' /\ (\A o \in Objects \ made : Unplaced(holds, parent, o))'
    BY DEF Agree, Unplaced
<1>4. (Live \subseteq made)' /\ NothingLost' /\ TombstonesDead'
    BY <1>1, InTree DEF NothingLost, TombstonesDead
<1> QED BY <1>2, <1>3, <1>4 DEF IInv

LEMMA GrownUnplaced ==
    ASSUME NEW h, NEW p, Agree(h, p), NEW g \in Groups, NEW new \in SUBSET Objects,
           NEW o \in Objects \ new, o # g, Unplaced(h, p, o)
    PROVE  Unplaced(GrownHolds(h, g, new), GrownParent(p, g, new), o)
BY DEF Unplaced, GrownHolds, GrownParent, Agree, Arrays

LEMMA CreatePreserves ==
    ASSUME IInv, NEW g \in Groups \cap Live, NEW n \in Objects, Fresh(n),
           holds' = GrownHolds(holds, g, {n}), parent' = GrownParent(parent, g, {n}),
           made' = made \cup {n}, UNCHANGED <<bin, binEnabled, buried>>
    PROVE  IInv'
<1>1. n \notin made /\ Root \notin {n} /\ Unplaced(holds, parent, n)
    BY InTree DEF Fresh
<1>2. Agree(holds', parent')
    BY <1>1, InTree, GrownAgree
<1>3. Below(holds', Root) = Live \cup {n}
    BY <1>1, InTree, GrownLive
<1>4. ASSUME NEW o \in Objects \ (made \cup {n}) PROVE Unplaced(holds', parent', o)
    BY InTree, GrownUnplaced
<1> QED BY <1>1, <1>2, <1>3, <1>4, InTree, GrowPreserves

LEMMA ImportPreserves ==
    ASSUME IInv, NEW g \in Groups, NEW n \in Groups, NEW e \in Entries, ImportRecord(g, n, e)
    PROVE  IInv'
<1> DEFINE h == GrownHolds(holds, g, {n})
           p == GrownParent(parent, g, {n})
<1>1. /\ n \in Objects \ made /\ e \in Objects \ made /\ n # e /\ Root \notin {n, e}
      /\ g \in Live /\ g # n
    BY InTree, TreeAssumption DEF ImportRecord, Fresh, Objects
<1>2. Unplaced(holds, parent, n) /\ Unplaced(holds, parent, e)
    BY <1>1, InTree
<1>3. Agree(h, p)
    BY <1>1, <1>2, InTree, GrownAgree
<1>4. Below(h, Root) = Live \cup {n}
    BY <1>1, <1>2, InTree, GrownLive
<1>5. \A o \in Objects \ (made \cup {n}) : Unplaced(h, p, o)
    BY <1>1, InTree, GrownUnplaced
<1>6. holds' = GrownHolds(h, n, {e}) /\ parent' = GrownParent(p, n, {e})
      /\ made' = made \cup {n, e} /\ UNCHANGED <<bin, binEnabled, buried>>
    BY DEF ImportRecord
<1> HIDE DEF h, p
<1>7. Agree(holds', parent')
    BY <1>1, <1>3, <1>5, <1>6, GrownAgree
<1>8. Below(holds', Root) = Live \cup {n, e}
    <2>1. Below(holds', Root) = Below(h, Root) \cup {e}
        BY <1>1, <1>3, <1>4, <1>5, <1>6, GrownLive
    <2> QED BY <1>4, <2>1
<1>9. ASSUME NEW o \in Objects \ (made \cup {n, e}) PROVE Unplaced(holds', parent', o)
    BY <1>1, <1>3, <1>5, <1>6, GrownUnplaced
<1>10. {n, e} \in SUBSET Objects /\ {n, e} \cap made = {}
    BY <1>1
<1>11. bin' \in (Groups \ {Root}) \cup {None} /\ binEnabled' = binEnabled /\ buried' = buried
    BY <1>6, InTree
<1> QED BY <1>6, <1>7, <1>8, <1>9, <1>10, <1>11, GrowPreserves

\* An object without a place has none after a move of others to groups that have.
LEMMA PutUnplaced ==
    ASSUME NEW h, NEW p, Agree(h, p), NEW S \in SUBSET (Objects \ {Root}),
           \A o \in S : Found(h, p, o), NEW to \in [S -> Groups \cup {None}],
           NEW o \in Objects \ S, Unplaced(h, p, o), \A x \in S : to[x] # o
    PROVE  Unplaced(PutHolds(h, p, S, to), PutParent(h, p, S, to), o)
<1>1. PutParent(h, p, S, to)[o] = p[o]
    BY PutFound
<1>2. o \in Groups => PutHolds(h, p, S, to)[o] = (h[o] \ S) \cup {x \in S : to[x] = o}
    BY PutFound
<1> QED BY <1>1, <1>2 DEF Unplaced

\* A move inside a tree grown by new groups, which may be none.
LEMMA MoveGrownPreserves ==
    ASSUME IInv, NEW h, NEW p, NEW new \in SUBSET Objects, new \cap made = {},
           Agree(h, p), Below(h, Root) = Live \cup new,
           \A o \in Objects \ (made \cup new) : Unplaced(h, p, o),
           NEW S \in SUBSET (Live \ {Root}), NEW to \in [S -> Groups],
           \A o \in S : to[o] \in (Live \cup new) \ Under(h, S),
           MoveAll(h, p, S, to), made' = made \cup new, buried' = buried,
           bin' \in (Groups \ {Root}) \cup {None}, binEnabled' = binEnabled
    PROVE  IInv'
<1>1. /\ Agree(holds', parent') /\ Below(holds', Root) = Live \cup new
      /\ holds' = PutHolds(h, p, S, to) /\ parent' = PutParent(h, p, S, to)
    BY MoveLive DEF MoveAll
<1>2. ASSUME NEW o \in Objects \ (made \cup new) PROVE Unplaced(holds', parent', o)
    <2>1. S \in SUBSET (Objects \ {Root}) /\ S \subseteq made
        BY InTree
    <2>2. \A x \in S : Found(h, p, x) /\ to[x] # o
        BY InTree, FoundInTree
    <2>3. to \in [S -> Groups \cup {None}]
        OBVIOUS
    <2> QED BY <1>1, <2>1, <2>2, <2>3, PutUnplaced
<1> QED BY <1>1, <1>2, GrowPreserves

LEMMA MovePreserves ==
    ASSUME IInv, NEW S \in SUBSET (Live \ {Root}), NEW to \in [S -> Groups],
           \A o \in S : to[o] \in Live \ Under(holds, S),
           MoveAll(holds, parent, S, to), UNCHANGED <<bin, binEnabled, buried, made>>
    PROVE  IInv'
<1>1. {} \in SUBSET Objects /\ Live \cup {} = Live /\ made \cup {} = made
    OBVIOUS
<1> QED BY <1>1, InTree, MoveGrownPreserves

LEMMA EntriesUnder ==
    ASSUME NEW h \in Arrays, NEW S \in SUBSET Entries
    PROVE  Under(h, S) = S
BY EntryBelow DEF Under

LEMMA MoveEntryPreserves ==
    ASSUME IInv, NEW e \in Entries, NEW g \in Groups, MoveEntry(e, g)
    PROVE  IInv'
<1>1. e \in Live \ {Root} /\ g \in Live
    BY TreeAssumption DEF MoveEntry
<1>2. Under(holds, {e}) = {e} /\ g # e
    BY InTree, EntriesUnder, TreeAssumption
<1>3. MoveAll(holds, parent, {e}, [o \in {e} |-> g]) /\ UNCHANGED <<bin, binEnabled, buried, made>>
    BY DEF MoveEntry
<1> QED BY <1>1, <1>2, <1>3, MovePreserves

LEMMA DestroyPreserves ==
    ASSUME IInv, NEW S \in SUBSET (Live \ {Root}), Destroy(S),
           UNCHANGED <<bin, binEnabled, made>>
    PROVE  IInv'
<1> DEFINE to == [o \in S |-> None]
<1>1. holds' = PutHolds(holds, parent, S, to) /\ parent' = PutParent(holds, parent, S, to)
      /\ buried' = buried \cup Under(holds, S)
    BY DEF Destroy, MoveAll, Under, Tombs
<1>2. /\ Agree(holds', parent') /\ Live' = Live \ Under(holds, S)
      /\ \A g \in Groups : holds'[g] \subseteq holds[g]
    BY <1>1, InTree, BuryLive DEF Live
<1>3. Under(holds, S) \subseteq Live
    <2>1. ASSUME NEW x \in S PROVE Below(holds, x) \subseteq Live
        BY InTree, BelowClosed, BelowLeast
    <2> QED BY <2>1 DEF Under
<1>4. ASSUME NEW o \in Objects \ made PROVE Unplaced(holds', parent', o)
    <2>1. Unplaced(holds, parent, o) /\ o \notin S
        BY InTree
    <2>2. parent'[o] = parent[o]
        BY <1>1, <2>1 DEF PutParent
    <2> QED BY <1>2, <2>1, <2>2 DEF Unplaced
<1>5. TypeOK'
    BY <1>1, <1>2, <1>3, InTree DEF TypeOK, Agree, Arrays, Pointers
<1>6. (Live \subseteq made)' /\ NothingLost' /\ TombstonesDead'
    BY <1>1, <1>2, <1>3, InTree DEF NothingLost, TombstonesDead
<1> QED BY <1>2, <1>4, <1>5, <1>6 DEF IInv, Agree, Unplaced

\* remove, of objects none of which holds the bin.
LEMMA RemovePreserves ==
    ASSUME IInv, NEW S \in SUBSET (Live \ {Root}), bin \notin Under(holds, S), Remove(S)
    PROVE  IInv'
<1>1. CASE RemoveToBin(S)
    <2>1. bin \in Groups \cap Live
        BY <1>1, InTree DEF RemoveToBin, BinGone
    <2>2. MoveAll(holds, parent, S, [o \in S |-> bin]) /\ UNCHANGED <<bin, binEnabled, buried, made>>
        BY <1>1 DEF RemoveToBin
    <2> QED BY <2>1, <2>2, MovePreserves
<1>2. CASE RemoveToNewBin(S)
    <2>1. PICK b \in Groups :
            /\ Fresh(b) /\ bin' = b /\ made' = made \cup {b}
            /\ MoveAll(GrownHolds(holds, Root, {b}), GrownParent(parent, Root, {b}), S,
                       [o \in S |-> b])
        BY <1>2 DEF RemoveToNewBin
    <2> DEFINE h == GrownHolds(holds, Root, {b})
               p == GrownParent(parent, Root, {b})
    <2>2. b \in Objects /\ b \notin made /\ Root \notin {b} /\ Unplaced(holds, parent, b)
        BY <2>1, InTree DEF Fresh, Objects
    <2>3. Agree(h, p)
        BY <2>2, InTree, GrownAgree
    <2>4. Below(h, Root) = Live \cup {b}
        BY <2>2, InTree, GrownLive
    <2>5. ASSUME NEW o \in Objects \ (made \cup {b}) PROVE Unplaced(h, p, o)
        <3>1. o # Root /\ o \in Objects \ {b} /\ Unplaced(holds, parent, o)
              /\ {b} \in SUBSET Objects /\ Root \in Groups /\ Agree(holds, parent)
            BY <2>2, InTree
        <3> QED BY <3>1, GrownUnplaced
    <2>6. p[b] = Root
        BY <2>2 DEF GrownParent
    <2> HIDE DEF h, p
    <2>7. b \notin Under(h, S)
        <3>1. ASSUME NEW x \in S, b \in Below(h, x) PROVE FALSE
            <4>1. x \in Objects /\ x # Root /\ x # b
                BY <2>2, InTree
            <4>2. Root \in Below(h, x)
                BY <2>3, <2>6, <3>1, <4>1, BelowParent
            <4> QED BY <2>3, <4>1, <4>2, RootBelowNothing
        <3> QED BY <3>1 DEF Under
    <2>8. binEnabled' = binEnabled /\ buried' = buried
        BY <1>2 DEF RemoveToNewBin
    <2>9. MoveAll(h, p, S, [o \in S |-> b])
        BY <2>1 DEF h, p
    <2> QED BY <2>1, <2>2, <2>3, <2>4, <2>5, <2>7, <2>8, <2>9, MoveGrownPreserves
<1>3. CASE RemoveForGood(S)
    BY <1>3, DestroyPreserves DEF RemoveForGood
<1> QED BY <1>1, <1>2, <1>3 DEF Remove

LEMMA RemoveEntriesPreserves ==
    ASSUME IInv, NEW S \in SUBSET Entries, S \subseteq Live, Remove(S)
    PROVE  IInv'
<1>1. S \in SUBSET (Live \ {Root}) /\ bin \notin Under(holds, S)
    BY InTree, EntriesUnder, TreeAssumption DEF Objects
<1> QED BY <1>1, RemovePreserves

LEMMA DeleteGroupPreserves ==
    ASSUME MayHoldBin = FALSE, IInv, NEW g \in Groups, DeleteGroup(g)
    PROVE  IInv'
<1>1. {g} \in SUBSET (Live \ {Root}) /\ bin \notin Under(holds, {g}) /\ Remove({g})
    BY DEF DeleteGroup, Under
<1> QED BY <1>1, RemovePreserves

LEMMA EmptyBinPreserves ==
    ASSUME IInv, EmptyRecycleBin
    PROVE  IInv'
<1>1. bin \in Live \cap Groups
    BY InTree, TreeAssumption DEF EmptyRecycleBin, Objects
<1>2. holds[bin] \subseteq Live
    BY <1>1, InTree, BelowClosed
<1>3. Root \notin holds[bin]
    BY <1>1, InTree, TreeAssumption DEF Agree, Objects
<1> QED BY <1>2, <1>3, DestroyPreserves DEF EmptyRecycleBin

LEMMA SortPreserves ==
    ASSUME IInv, NEW S \in SUBSET Entries, NEW new \in SUBSET Groups, NEW to \in [S -> Groups],
           ApplyAiSort(S, to, new)
    PROVE  IInv'
<1> DEFINE h == GrownHolds(holds, Root, new)
           p == GrownParent(parent, Root, new)
<1>1. /\ S \subseteq Live /\ \A n \in new : n \notin made
      /\ \A e \in S : to[e] \in Live \cup new
      /\ MoveAll(h, p, S, to) /\ made' = made \cup new /\ UNCHANGED <<bin, binEnabled, buried>>
    BY DEF ApplyAiSort, Fresh
<1>2. new \in SUBSET Objects /\ new \cap made = {} /\ Root \notin new
      /\ \A n \in new : Unplaced(holds, parent, n)
    BY <1>1, InTree DEF Objects
<1>3. Agree(h, p)
    BY <1>2, InTree, GrownAgree
<1>4. Below(h, Root) = Live \cup new
    BY <1>2, InTree, GrownLive
<1>5. ASSUME NEW o \in Objects \ (made \cup new) PROVE Unplaced(h, p, o)
    <2>1. o # Root /\ o \in Objects \ new /\ Unplaced(holds, parent, o)
          /\ Root \in Groups /\ Agree(holds, parent)
        BY InTree
    <2> QED BY <1>2, <2>1, GrownUnplaced
<1> HIDE DEF h, p
<1>6. Under(h, S) = S
    BY <1>3, EntriesUnder DEF Agree
<1>7. S \in SUBSET (Live \ {Root}) /\ \A o \in S : to[o] \in (Live \cup new) \ Under(h, S)
    BY <1>1, <1>6, TreeAssumption
<1> QED BY <1>1, <1>2, <1>3, <1>4, <1>5, <1>7, InTree, MoveGrownPreserves

LEMMA NextIInv ==
    ASSUME MayHoldBin = FALSE, IInv, [Next]_vars
    PROVE  IInv'
<1>1. ASSUME NEW g \in Groups, NEW e \in Entries, CreateEntry(g, e) PROVE IInv'
    BY <1>1, CreatePreserves DEF CreateEntry, Objects
<1>2. ASSUME NEW g \in Groups, NEW e \in Entries, MoveEntry(e, g) PROVE IInv'
    BY <1>2, MoveEntryPreserves
<1>3. ASSUME NEW g \in Groups, NEW n \in Groups, CreateGroup(g, n) PROVE IInv'
    BY <1>3, CreatePreserves DEF CreateGroup, Objects
<1>4. ASSUME NEW g \in Groups, NEW n \in Groups, NEW e \in Entries, ImportRecord(g, n, e)
      PROVE  IInv'
    BY <1>4, ImportPreserves
<1>5. ASSUME NEW e \in Entries, DeleteEntry(e) PROVE IInv'
    <2>1. {e} \in SUBSET Entries /\ {e} \subseteq Live /\ Remove({e})
        BY <1>5 DEF DeleteEntry
    <2> QED BY <2>1, RemoveEntriesPreserves
<1>6. ASSUME NEW g \in Groups, DeleteGroup(g) PROVE IInv'
    BY <1>6, DeleteGroupPreserves
<1>7. ASSUME NEW S \in SUBSET Entries, NEW kept \in Entries, RemoveDuplicates(S, kept)
      PROVE  IInv'
    <2>1. S \subseteq Live /\ Remove(S)
        BY <1>7 DEF RemoveDuplicates
    <2> QED BY <2>1, RemoveEntriesPreserves
<1>8. CASE EmptyRecycleBin
    BY <1>8, EmptyBinPreserves
<1>9. ASSUME NEW S \in SUBSET Entries, NEW new \in SUBSET Groups, NEW to \in [S -> Groups],
             ApplyAiSort(S, to, new)
      PROVE  IInv'
    BY <1>9, SortPreserves
<1>10. CASE UNCHANGED vars
    BY <1>10 DEF vars, IInv, TypeOK, Agree, Unplaced, Live, NothingLost, TombstonesDead
<1> QED BY <1>1, <1>2, <1>3, <1>4, <1>5, <1>6, <1>7, <1>8, <1>9, <1>10 DEF Next

-----------------------------------------------------------------------------
(* The two ways to see what is in the bin.                                 *)

LEMMA SeenBothWays ==
    ASSUME IInv
    PROVE  BinSeenBothWays
<1> SUFFICES ASSUME NEW e \in Live \cap Entries
             PROVE  (bin \in Above(parent, e)) <=> e \in InBin
    BY DEF BinSeenBothWays
<1>1. e \in Objects /\ e \notin Groups /\ None \notin Objects /\ Live \in SUBSET Objects
    BY InTree, TreeAssumption DEF Objects
<1>2. ASSUME bin \in Above(parent, e) PROVE e \in InBin
    <2>1. ASSUME NEW S \in SUBSET Objects, e \in S, Upwards(parent, S) PROVE bin \in S
        BY <1>2, <2>1 DEF Above
    <2>2. bin \in Objects
        BY <1>2 DEF Above, Objects
    <2>3. ASSUME NEW x \in Live PROVE parent[x] \in Live \cup {None}
        BY <1>1, InTree, BelowParent DEF Agree
    <2>4. bin \in Live
        BY <1>1, <2>1, <2>3 DEF Upwards
    <2> DEFINE T == Objects \ Below(holds, bin)
    <2>5. ASSUME NEW x \in T PROVE parent[x] \in T \cup {None}
        <3>1. parent[x] \in Groups \cup {None}
            BY InTree DEF Pointers
        <3>2. parent[x] \in Groups => x \in holds[parent[x]]
            BY InTree DEF Agree
        <3>3. parent[x] \in Groups => parent[x] \notin Below(holds, bin)
            BY <2>2, <3>2, InTree, BelowClosed
        <3> QED BY <3>1, <3>3 DEF Objects
    <2>6. bin \in Below(holds, bin)
        BY <2>2, InTree, BelowClosed
    <2>7. e \notin T
        BY <2>1, <2>5, <2>6 DEF Upwards
    <2> QED BY <1>1, <2>4, <2>7 DEF InBin
<1>3. ASSUME e \in InBin PROVE bin \in Above(parent, e)
    <2>1. bin \in Live /\ e \in Below(holds, bin)
        BY <1>3 DEF InBin
    <2>2. bin \in Groups /\ bin \in Objects /\ bin # e
        BY <1>1, <2>1, InTree
    <2>3. ASSUME NEW S \in SUBSET Objects, e \in S, Upwards(parent, S), bin \notin S PROVE FALSE
        <3> DEFINE T == Below(holds, bin) \ S
        <3>1. T \in SUBSET Objects /\ bin \in T
            BY <2>2, <2>3, InTree, BelowClosed
        <3>2. ASSUME NEW g \in T \cap Groups, NEW c \in holds[g] PROVE c \in T
            <4>1. c \in Below(holds, bin) /\ c \in Objects
                BY <2>2, InTree, BelowClosed DEF Arrays
            <4>2. parent[c] = g /\ g # None
                BY <1>1, <4>1, InTree DEF Agree, Objects
            <4> QED BY <2>3, <4>1, <4>2 DEF Upwards
        <3>3. Below(holds, bin) \subseteq T
            BY <2>2, <3>1, <3>2, InTree, BelowLeast
        <3> QED BY <2>1, <2>3, <3>3
    <2> QED BY <2>2, <2>3 DEF Above
<1> QED BY <1>2, <1>3

-----------------------------------------------------------------------------
(* What leaves the tree.                                                   *)

\* Without a new tombstone nothing leaves the tree.
LEMMA NothingLeaves ==
    ASSUME IInv, IInv', buried' = buried, made \subseteq made'
    PROVE  Live \subseteq Live'
BY DEF IInv, NothingLost, TombstonesDead

LEMMA LeavesOnlyBin ==
    ASSUME MayHoldBin = FALSE, IInv, [Next]_vars, binEnabled, bin # None
    PROVE  Live \ Live' \subseteq InBin
<1>1. IInv'
    BY NextIInv
<1>2. ASSUME NEW S, Remove(S) PROVE buried' = buried /\ made \subseteq made'
    BY <1>2 DEF Remove, RemoveToBin, RemoveToNewBin, RemoveForGood
<1>3. CASE ~EmptyRecycleBin
    <2>1. buried' = buried /\ made \subseteq made'
        BY <1>2, <1>3 DEF Next, vars, CreateEntry, CreateGroup, ImportRecord, MoveEntry,
           DeleteEntry, DeleteGroup, RemoveDuplicates, ApplyAiSort
    <2> QED BY <1>1, <2>1, NothingLeaves
<1>4. CASE EmptyRecycleBin
    <2>1. bin \in Live /\ bin \in Objects /\ bin \in Groups
        BY <1>4, InTree, TreeAssumption DEF EmptyRecycleBin, Objects
    <2>2. buried' = buried \cup Under(holds, holds[bin]) /\ made' = made
        BY <1>4 DEF EmptyRecycleBin, Destroy, Tombs, Under
    <2>3. Under(holds, holds[bin]) \subseteq Below(holds, bin)
        <3>1. Below(holds, bin) \in SUBSET Objects /\ holds[bin] \subseteq Below(holds, bin)
              /\ \A g \in Below(holds, bin) \cap Groups : holds[g] \subseteq Below(holds, bin)
            BY <2>1, InTree, BelowClosed
        <3>2. ASSUME NEW x \in holds[bin] PROVE Below(holds, x) \subseteq Below(holds, bin)
            BY <3>1, InTree, BelowLeast
        <3> QED BY <3>2 DEF Under
    <2>4. Live \ Live' \subseteq Under(holds, holds[bin])
        BY <1>1, <2>2, InTree DEF IInv, NothingLost
    <2> QED BY <2>1, <2>3, <2>4 DEF InBin
<1> QED BY <1>3, <1>4

-----------------------------------------------------------------------------
(* The theorems.  They suppose that the bin is not deleted with a group    *)
(* that holds it: TLC shows what happens when it is.                       *)

LEMMA Inductive ==
    ASSUME MayHoldBin = FALSE
    PROVE  Spec => []IInv
<1>1. Init => IInv
    BY InitIInv
<1>2. IInv /\ [Next]_vars => IInv'
    BY NextIInv
<1> QED BY <1>1, <1>2, PTL DEF Spec

\* Arrays, pointers, bin and tombstones keep their types.
THEOREM TypesKept ==
    ASSUME MayHoldBin = FALSE
    PROVE  Spec => []TypeOK
<1>1. IInv => TypeOK
    BY DEF IInv
<1> QED BY <1>1, Inductive, PTL

\* Whatever was in the tree is in it or has a tombstone.
THEOREM NothingIsLost ==
    ASSUME MayHoldBin = FALSE
    PROVE  Spec => []NothingLost
<1>1. IInv => NothingLost
    BY DEF IInv
<1> QED BY <1>1, Inductive, PTL

\* Whatever has a tombstone is out of the tree.
THEOREM TombstonesAreDead ==
    ASSUME MayHoldBin = FALSE
    PROVE  Spec => []TombstonesDead
<1>1. IInv => TombstonesDead
    BY DEF IInv
<1> QED BY <1>1, Inductive, PTL

\* Walks down from the root and walks up from an entry see the same bin.
THEOREM BinIsSeenBothWays ==
    ASSUME MayHoldBin = FALSE
    PROVE  Spec => []BinSeenBothWays
<1>1. IInv => BinSeenBothWays
    BY SeenBothWays
<1> QED BY <1>1, Inductive, PTL

\* While there is a bin, only what is in it leaves the tree.
THEOREM OnlyTheBinIsEmptied ==
    ASSUME MayHoldBin = FALSE
    PROVE  Spec => LeavesFromBin
<1>1. IInv /\ [Next]_vars => [binEnabled /\ bin # None => Live \ Live' \subseteq InBin]_vars
    BY LeavesOnlyBin
<1> QED BY <1>1, Inductive, PTL DEF Spec, LeavesFromBin

-----------------------------------------------------------------------------
(* The run: a step of it is one of the subject.                            *)

LEMMA LibraryStep ==
    ASSUME [LibraryNext]_<<subject, vars, shared>>
    PROVE  /\ subject' = subject
           /\ [Next]_vars
           /\ subject = "MetaMerge" => [Meta!Next]_Meta!vars
           /\ subject = "EntryEdits" => [Edits!Next]_Edits!vars
           /\ subject = "KdbxMerge" => [Merge!Next]_Merge!vars
           /\ subject = "Combine" => [Combining!Next]_Combining!vars
<1>1. UNCHANGED shared => /\ UNCHANGED Meta!vars /\ UNCHANGED Edits!vars /\ UNCHANGED Merge!vars
                          /\ UNCHANGED Combining!vars
    BY DEF shared, Meta!vars, Edits!vars, Merge!vars, Combining!vars
<1> QED BY <1>1 DEF LibraryNext

LEMMA LibraryBegin ==
    ASSUME LibraryInit
    PROVE  /\ Init
           /\ subject = "MetaMerge" => Meta!Init
           /\ subject = "EntryEdits" => Edits!Init
           /\ subject = "KdbxMerge" => Merge!Init
           /\ subject = "Combine" => Combining!Init
BY DEF LibraryInit

LEMMA TreeInLibrary ==
    ASSUME MayHoldBin = FALSE
    PROVE  LibrarySpec => []IInv
<1>1. LibraryInit => IInv
    BY InitIInv, LibraryBegin
<1>2. IInv /\ [LibraryNext]_<<subject, vars, shared>> => IInv'
    BY NextIInv, LibraryStep
<1> QED BY <1>1, <1>2, PTL DEF LibrarySpec

\* Whatever was in the tree is in it or has a tombstone, for any groups and entries.
THEOREM LibraryLosesNothing ==
    ASSUME MayHoldBin = FALSE
    PROVE  LibrarySpec => []NothingLost
<1>1. IInv => NothingLost
    BY DEF IInv
<1> QED BY <1>1, TreeInLibrary, PTL

\* Whatever has a tombstone is out of the tree, for any groups and entries.
THEOREM LibraryBuriesTheDead ==
    ASSUME MayHoldBin = FALSE
    PROVE  LibrarySpec => []TombstonesDead
<1>1. IInv => TombstonesDead
    BY DEF IInv
<1> QED BY <1>1, TreeInLibrary, PTL

-----------------------------------------------------------------------------
(* MetaMerge.                                                              *)

meta == v1
server == v2
clock == v4
wrote == v5
mine == v6
gone == v7
USE DEF meta, server, clock, wrote, mine, gone

Settings == Meta!Settings
Undated == Meta!Undated
Dates == Meta!Dates
Metas == [value : [Settings -> Values], changed : [Dates -> Nat], marked : SUBSET Undated,
          item : [Keys -> Nat], dead : SUBSET Keys]

\* The settings under one date are set by one client at once.
LEMMA DatedIs ==
    /\ \A d \in Dates : Meta!Dated[d] \subseteq Settings \ Undated
    /\ \A s \in Settings \ Undated : \E d \in Dates : s \in Meta!Dated[d]
    /\ \A s \in Settings : \A d, f \in Dates : s \in Meta!Dated[d] /\ s \in Meta!Dated[f] => d = f
    /\ Undated \subseteq Settings
<1>1. Dates = {"name", "bin"} /\ Meta!Dated["name"] = {"name"}
      /\ Meta!Dated["bin"] = {"recycleBinEnabled", "recycleBinUuid"}
    BY DEF Dates, Meta!Dates, Meta!Dated
<1> QED BY <1>1 DEF Settings, Undated, Meta!Settings, Meta!Undated

MetaTypes ==
    /\ meta \in [Twins -> Metas] /\ server \in Metas
    /\ clock \in 1..MaxClock /\ wrote = [t \in 1..MaxClock |-> wrote[t]]
    /\ mine \in [Twins -> [Undated -> Values \cup {None}]] /\ gone \in [Twins -> SUBSET Keys]

\* Every date is of one setting together.
Together(m) ==
    \A d \in Dates : m.changed[d] # 0 => m.changed[d] < clock /\ Meta!Part(m, d) = wrote[m.changed[d]]
Unpushed(m, own) == \A s \in Undated : own[s] # None => s \in m.marked /\ m.value[s] = own[s]
Removed(m, keys) == keys \subseteq m.dead /\ \A k \in keys : m.item[k] = 0

MetaInv ==
    /\ MetaTypes
    /\ Together(server)
    /\ \A c \in Twins : Together(meta[c]) /\ Unpushed(meta[c], mine[c]) /\ Removed(meta[c], gone[c])

LEMMA PartSame ==
    ASSUME NEW m, NEW n, NEW d, \A s \in Meta!Dated[d] : m.value[s] = n.value[s]
    PROVE  Meta!Part(m, d) = Meta!Part(n, d)
BY DEF Meta!Part

LEMMA MetaBegins == MaxClock \in Nat \ {0} /\ Meta!Init => MetaInv
<1> SUFFICES ASSUME MaxClock \in Nat \ {0}, Meta!Init PROVE MetaInv
    OBVIOUS
<1>1. PICK v \in Values : server = Meta!Meta(v) /\ meta = [c \in Twins |-> Meta!Meta(v)]
    BY DEF Meta!Init
<1>2. Meta!Meta(v) \in Metas /\ (\A d \in Dates : Meta!Meta(v).changed[d] = 0)
    BY DEF Meta!Meta, Metas, Settings, Dates
<1>3. clock = 1 /\ wrote = [t \in 1..MaxClock |-> None] /\ mine = [c \in Twins |-> [s \in Undated |-> None]]
      /\ gone = [c \in Twins |-> {}]
    BY DEF Meta!Init, Undated
<1>4. MetaTypes
    BY <1>1, <1>2, <1>3 DEF MetaTypes
<1> QED BY <1>1, <1>2, <1>3, <1>4 DEF MetaInv, Together, Unpushed, Removed

\* A step of one client, to the settings m.
Turns(c, m) ==
    /\ m \in Metas /\ meta' \in [Twins -> Metas] /\ meta'[c] = m
    /\ \A o \in Twins \ {c} : meta'[o] = meta[o]

LEMMA TurnsTo ==
    ASSUME MetaTypes, NEW c \in Twins, NEW m \in Metas, meta' = [meta EXCEPT ![c] = m]
    PROVE  Turns(c, m)
BY DEF MetaTypes, Turns

\* What a setting was set to stays what it was, at every date before this one.
LEMMA TogetherStays ==
    ASSUME MetaTypes, NEW m \in Metas, Together(m), clock' \in Nat, clock <= clock',
           \A t \in Nat : t # 0 /\ t < clock => wrote'[t] = wrote[t]
    PROVE  Together(m)'
<1>1. \A d \in Dates : m.changed[d] \in Nat
    BY DEF Metas
<1>2. clock \in Nat
    BY DEF MetaTypes
<1>3. \A d \in Dates : m.changed[d] # 0 => m.changed[d] < clock'
    BY <1>1, <1>2 DEF Together
<1> QED BY <1>1, <1>3 DEF Together, Meta!Part

LEMMA SetIs ==
    ASSUME NEW m \in Metas, NEW s \in Settings, NEW v \in Values, NEW t \in Nat, m.value[s] # v
    PROVE  \E n \in Metas :
              /\ n = Meta!Set(m, s, v, t) /\ n.dead = m.dead /\ n.item = m.item
              /\ n.value[s] = v /\ \A x \in Settings \ {s} : n.value[x] = m.value[x]
              /\ \A d \in Dates : n.changed[d] = IF s \in Meta!Dated[d] THEN t ELSE m.changed[d]
              /\ m.marked \subseteq n.marked /\ (s \in Undated => s \in n.marked)
<1>1. PICK n : n = Meta!Set(m, s, v, t)
    OBVIOUS
<1>2. n = [m EXCEPT !.value[s] = v,
                    !.changed = [d \in Dates |-> IF s \in Meta!Dated[d] THEN t ELSE m.changed[d]],
                    !.marked = IF s \in Undated THEN m.marked \cup {s} ELSE m.marked]
    BY <1>1 DEF Meta!Set, Dates, Undated
<1>3. n \in Metas
    BY <1>2 DEF Metas
<1>4. /\ n.dead = m.dead /\ n.item = m.item
      /\ n.value[s] = v /\ \A x \in Settings \ {s} : n.value[x] = m.value[x]
      /\ \A d \in Dates : n.changed[d] = IF s \in Meta!Dated[d] THEN t ELSE m.changed[d]
      /\ m.marked \subseteq n.marked /\ (s \in Undated => s \in n.marked)
    BY <1>2 DEF Metas
<1> QED BY <1>1, <1>3, <1>4

\* The other clients are as they were.
LEMMA OtherClients ==
    ASSUME MetaInv, MetaTypes', Together(server)', NEW c \in Twins, NEW n \in Metas, Turns(c, n),
           \A x \in Metas : Together(x) => Together(x)',
           Together(n)', Unpushed(n, mine'[c]), Removed(n, gone'[c]),
           \A o \in Twins \ {c} : mine'[o] = mine[o] /\ gone'[o] = gone[o]
    PROVE  MetaInv'
<1>1. ASSUME NEW o \in Twins
      PROVE  (Together(meta[o]) /\ Unpushed(meta[o], mine[o]) /\ Removed(meta[o], gone[o]))'
    <2>1. CASE o = c
        <3>1. meta'[o] = n
            BY <2>1 DEF Turns
        <3> QED BY <2>1, <3>1 DEF Together, Meta!Part, Unpushed, Removed
    <2>2. CASE o # c
        <3>1. meta'[o] = meta[o] /\ mine'[o] = mine[o] /\ gone'[o] = gone[o]
            BY <2>2 DEF Turns
        <3>2. Together(meta[o]) /\ Unpushed(meta[o], mine[o]) /\ Removed(meta[o], gone[o])
            BY DEF MetaInv
        <3>3. PICK x \in Metas : x = meta[o]
            BY DEF MetaInv, MetaTypes
        <3>4. Together(x)'
            BY <3>2, <3>3
        <3> QED BY <3>1, <3>2, <3>3, <3>4 DEF Together, Meta!Part, Unpushed, Removed
    <2> QED BY <2>1, <2>2
<1> QED BY <1>1 DEF MetaInv

LEMMA ChangeSettingStep ==
    ASSUME MaxClock \in Nat, MetaInv, NEW c \in Twins, NEW s \in Settings, NEW v \in Values, Meta!ChangeSetting(c, s, v)
    PROVE  MetaInv'
<1>1. PICK m \in Metas : m = meta[c]
    BY DEF MetaInv, MetaTypes
<1>2. clock \in Nat /\ clock # 0 /\ clock < MaxClock /\ clock' = clock + 1 /\ m.value[s] # v
      /\ UNCHANGED <<server, gone>>
    BY <1>1 DEF Meta!ChangeSetting, MetaInv, MetaTypes
<1>3. PICK n \in Metas :
        /\ n = Meta!Set(m, s, v, clock) /\ n.dead = m.dead /\ n.item = m.item
        /\ n.value[s] = v /\ \A x \in Settings \ {s} : n.value[x] = m.value[x]
        /\ \A d \in Dates : n.changed[d] = IF s \in Meta!Dated[d] THEN clock ELSE m.changed[d]
        /\ m.marked \subseteq n.marked /\ (s \in Undated => s \in n.marked)
    BY <1>2, SetIs
<1>4. Turns(c, n)
    BY <1>1, <1>3, TurnsTo DEF Meta!ChangeSetting, MetaInv
<1>5. /\ wrote' = [t \in 1..MaxClock |-> wrote'[t]] /\ \A t \in Nat : t # 0 /\ t < clock => wrote'[t] = wrote[t]
      /\ \A d \in Dates : s \in Meta!Dated[d] => wrote'[clock] = Meta!Part(n, d)
    <2>1. clock \in 1..MaxClock /\ wrote = [t \in 1..MaxClock |-> wrote[t]]
        BY DEF MetaInv, MetaTypes
    <2>2. \A t \in Nat : t # 0 /\ t < clock => t \in 1..MaxClock /\ t # clock
        BY <1>2
    <2>3. CASE s \in Undated
        <3>1. wrote' = wrote
            BY <2>3 DEF Meta!ChangeSetting, Undated
        <3>2. \A d \in Dates : s \notin Meta!Dated[d]
            BY <2>3, DatedIs
        <3> QED BY <2>1, <3>1, <3>2
    <2>4. CASE s \notin Undated
        <3>1. PICK d \in Dates : d = CHOOSE f \in Dates : s \in Meta!Dated[f]
            BY <2>4, DatedIs
        <3>2. s \in Meta!Dated[d] /\ \A f \in Dates : s \in Meta!Dated[f] => f = d
            BY <2>4, <3>1, DatedIs
        <3>3. wrote' = [wrote EXCEPT ![clock] = Meta!Part(n, d)]
            BY <1>1, <1>3, <2>4, <3>1 DEF Meta!ChangeSetting, Undated, Dates
        <3> QED BY <2>1, <2>2, <3>2, <3>3
    <2> QED BY <2>3, <2>4
<1>6. \A x \in Metas : Together(x) => Together(x)'
    <2>1. clock' \in Nat /\ clock <= clock'
        BY <1>2
    <2> QED BY <1>5, <2>1, TogetherStays DEF MetaInv
<1>7. Together(n)'
    <2>1. Together(m) /\ Together(m)'
        BY <1>1, <1>6 DEF MetaInv
    <2>2. ASSUME NEW d \in Dates, n.changed[d] # 0
          PROVE  n.changed[d] < clock' /\ Meta!Part(n, d) = wrote'[n.changed[d]]
        <3>1. CASE s \in Meta!Dated[d]
            BY <1>2, <1>3, <1>5, <3>1
        <3>2. CASE s \notin Meta!Dated[d]
            <4>1. \A x \in Meta!Dated[d] : n.value[x] = m.value[x]
                BY <1>3, <3>2, DatedIs
            <4>2. Meta!Part(n, d) = Meta!Part(m, d) /\ n.changed[d] = m.changed[d]
                BY <1>3, <3>2, <4>1, PartSame
            <4>3. m.changed[d] < clock' /\ Meta!Part(m, d) = wrote'[m.changed[d]]
                BY <2>1, <2>2, <4>2 DEF Together, Meta!Part
            <4> QED BY <4>2, <4>3
        <3> QED BY <3>1, <3>2
    <2> QED BY <2>2 DEF Together, Meta!Part
<1>8. /\ mine' \in [Twins -> [Undated -> Values \cup {None}]] /\ Unpushed(n, mine'[c])
      /\ \A o \in Twins \ {c} : mine'[o] = mine[o]
    <2>1. Unpushed(m, mine[c]) /\ mine \in [Twins -> [Undated -> Values \cup {None}]]
        BY <1>1 DEF MetaInv, MetaTypes
    <2>2. CASE s \in Undated
        <3>1. mine' = [mine EXCEPT ![c][s] = v]
            BY <2>2 DEF Meta!ChangeSetting, Undated
        <3>2. mine'[c] = [mine[c] EXCEPT ![s] = v] /\ mine' \in [Twins -> [Undated -> Values \cup {None}]]
              /\ \A o \in Twins \ {c} : mine'[o] = mine[o]
            BY <2>1, <2>2, <3>1
        <3>3. \A x \in Undated : mine'[c][x] = IF x = s THEN v ELSE mine[c][x]
            BY <2>1, <3>2
        <3> QED BY <1>3, <2>1, <2>2, <3>2, <3>3, DatedIs DEF Unpushed
    <2>3. CASE s \notin Undated
        <3>1. mine' = mine
            BY <2>3 DEF Meta!ChangeSetting, Undated
        <3> QED BY <1>3, <2>1, <2>3, <3>1, DatedIs DEF Unpushed
    <2> QED BY <2>2, <2>3
<1>9. Removed(n, gone'[c])
    BY <1>1, <1>2, <1>3 DEF MetaInv, Removed
<1>10. clock' \in 1..MaxClock
    BY <1>2
<1>11. MetaTypes'
    BY <1>2, <1>4, <1>5, <1>8, <1>10 DEF MetaInv, MetaTypes, Turns
<1>12. Together(server)'
    <2>1. Together(server) /\ server \in Metas
        BY DEF MetaInv, MetaTypes
    <2> QED BY <1>2, <1>5, <2>1, TogetherStays DEF MetaInv, Together, Meta!Part
<1> QED BY <1>2, <1>4, <1>6, <1>7, <1>8, <1>9, <1>11, <1>12, OtherClients

\* An icon is dated anew, or removed.
LEMMA ItemStep ==
    ASSUME MaxClock \in Nat, MetaInv, NEW c \in Twins, NEW k \in Keys, Meta!ChangeItem(c, k) \/ Meta!RemoveItem(c, k)
    PROVE  MetaInv'
<1>1. PICK m \in Metas : m = meta[c]
    BY DEF MetaInv, MetaTypes
<1>2. /\ clock \in Nat /\ clock' \in 1..MaxClock /\ clock <= clock'
      /\ UNCHANGED <<server, wrote, mine>>
    BY DEF Meta!ChangeItem, Meta!RemoveItem, MetaInv, MetaTypes
<1>3. Together(m) /\ Unpushed(m, mine[c]) /\ Removed(m, gone[c]) /\ gone \in [Twins -> SUBSET Keys]
    BY <1>1 DEF MetaInv, MetaTypes
<1>4. PICK n \in Metas :
        /\ Turns(c, n) /\ n.value = m.value /\ n.changed = m.changed /\ n.marked = m.marked
        /\ Removed(n, gone'[c]) /\ gone' \in [Twins -> SUBSET Keys]
        /\ \A o \in Twins \ {c} : gone'[o] = gone[o]
    <2>1. CASE Meta!ChangeItem(c, k)
        <3>1. k \notin m.dead /\ gone' = gone
            BY <1>1, <2>1 DEF Meta!ChangeItem
        <3>2. PICK n : n = [m EXCEPT !.item[k] = clock]
            OBVIOUS
        <3>3. /\ n \in Metas
              /\ n.dead = m.dead /\ n.value = m.value /\ n.changed = m.changed /\ n.marked = m.marked
              /\ n.item[k] = clock /\ \A x \in Keys \ {k} : n.item[x] = m.item[x]
            BY <1>2, <3>2 DEF Metas
        <3>4. Turns(c, n)
            BY <1>1, <2>1, <3>2, <3>3, TurnsTo DEF Meta!ChangeItem, MetaInv
        <3>5. Removed(n, gone[c])
            BY <1>3, <3>1, <3>3 DEF Removed
        <3> QED BY <1>3, <3>1, <3>3, <3>4, <3>5
    <2>2. CASE Meta!RemoveItem(c, k)
        <3>1. PICK n : n = [m EXCEPT !.item[k] = 0, !.dead = m.dead \cup {k}]
            OBVIOUS
        <3>2. /\ n \in Metas
              /\ n.dead = m.dead \cup {k} /\ n.value = m.value /\ n.changed = m.changed /\ n.marked = m.marked
              /\ n.item[k] = 0 /\ \A x \in Keys \ {k} : n.item[x] = m.item[x]
            BY <3>1 DEF Metas
        <3>3. Turns(c, n)
            <4>1. meta' = [meta EXCEPT ![c] = n]
                BY <1>1, <2>2, <3>1 DEF Meta!RemoveItem
            <4> QED BY <3>2, <4>1, TurnsTo DEF MetaInv
        <3>4. gone' = [gone EXCEPT ![c] = gone[c] \cup {k}]
            BY <2>2 DEF Meta!RemoveItem
        <3>5. gone'[c] = gone[c] \cup {k} /\ gone' \in [Twins -> SUBSET Keys] /\ \A o \in Twins \ {c} : gone'[o] = gone[o]
            BY <1>3, <3>4
        <3>6. Removed(n, gone'[c])
            BY <1>3, <3>2, <3>5 DEF Removed
        <3> QED BY <3>2, <3>3, <3>5, <3>6
    <2> QED BY <2>1, <2>2
<1>5. \A x \in Metas : Together(x) => Together(x)'
    <2>1. clock' \in Nat
        BY <1>2
    <2> QED BY <1>2, <2>1, TogetherStays DEF MetaInv
<1>6. Together(n)'
    BY <1>3, <1>4, <1>5 DEF Together, Meta!Part
<1>7. Unpushed(n, mine'[c])
    BY <1>2, <1>3, <1>4 DEF Unpushed
<1>8. MetaTypes'
    BY <1>2, <1>4 DEF MetaInv, MetaTypes, Turns
<1>9. Together(server)'
    <2>1. Together(server) /\ server \in Metas /\ clock' \in Nat
        BY <1>2 DEF MetaInv, MetaTypes
    <2> QED BY <1>2, <2>1, TogetherStays DEF MetaInv, Together, Meta!Part
<1> QED BY <1>2, <1>4, <1>5, <1>6, <1>7, <1>8, <1>9, OtherClients

\* A merge takes what one date is of from one side, keeps what is marked here, and brings
\* nothing back that was removed here.
LEMMA MergedIs ==
    ASSUME clock \in Nat, NEW m \in Metas, NEW r \in Metas
    PROVE  \E n \in Metas :
              /\ n = Meta!Merge(m, r)
              /\ \A d \in Dates :
                    \/ n.changed[d] = r.changed[d] /\ \A s \in Meta!Dated[d] : n.value[s] = r.value[s]
                    \/ n.changed[d] = m.changed[d] /\ \A s \in Meta!Dated[d] : n.value[s] = m.value[s]
              /\ \A s \in m.marked : s \in n.marked /\ n.value[s] = m.value[s]
              /\ m.dead \subseteq n.dead /\ \A k \in m.dead : m.item[k] = 0 => n.item[k] = 0
<1>1. PICK a : a = Meta!MergeDated(m, r)
    OBVIOUS
<1>2. a = [m EXCEPT !.value = [s \in Settings |->
                                  IF \E d \in Dates : s \in Meta!Dated[d] /\ Meta!NeedUpdate(r.changed[d], m.changed[d])
                                  THEN r.value[s] ELSE m.value[s]],
                    !.changed = [d \in Dates |-> IF Meta!NeedUpdate(r.changed[d], m.changed[d])
                                                  THEN r.changed[d] ELSE m.changed[d]]]
    BY <1>1 DEF Meta!MergeDated, Settings, Dates
<1>3. /\ a \in Metas /\ a.marked = m.marked /\ a.dead = m.dead /\ a.item = m.item
      /\ \A d \in Dates : a.changed[d] = IF Meta!NeedUpdate(r.changed[d], m.changed[d])
                                         THEN r.changed[d] ELSE m.changed[d]
      /\ \A s \in Settings :
            a.value[s] = IF \E d \in Dates : s \in Meta!Dated[d] /\ Meta!NeedUpdate(r.changed[d], m.changed[d])
                         THEN r.value[s] ELSE m.value[s]
    BY <1>2 DEF Metas
<1>4. PICK b : b = Meta!MergeItems(a, r)
    OBVIOUS
<1>5. b = [a EXCEPT !.dead = a.dead \cup r.dead,
                    !.item = [k \in Keys |-> IF a.item[k] = 0 THEN (IF k \in a.dead \cup r.dead THEN 0 ELSE r.item[k])
                                             ELSE IF r.item[k] > a.item[k] THEN r.item[k] ELSE a.item[k]]]
    BY <1>4 DEF Meta!MergeItems
<1>6. /\ b \in Metas /\ b.marked = m.marked /\ b.changed = a.changed /\ b.value = a.value
      /\ m.dead \subseteq b.dead /\ \A k \in m.dead : m.item[k] = 0 => b.item[k] = 0
    BY <1>3, <1>5 DEF Metas
<1>7. PICK take : take = {s \in Undated : s \notin b.marked /\ r.value[s] # b.value[s]}
    OBVIOUS
<1>8. PICK n : n = Meta!Merge(m, r)
    OBVIOUS
<1>9. n = [b EXCEPT !.value = [s \in Settings |-> IF s \in take THEN r.value[s] ELSE b.value[s]],
                    !.marked = b.marked \cup take]
    BY <1>1, <1>4, <1>7, <1>8 DEF Meta!Merge, Meta!MergeUndated, Settings, Undated
<1>10. /\ n \in Metas /\ n.marked = b.marked \cup take /\ n.changed = b.changed /\ n.dead = b.dead /\ n.item = b.item
       /\ \A s \in Settings : n.value[s] = IF s \in take THEN r.value[s] ELSE b.value[s]
    BY <1>6, <1>7, <1>9, DatedIs DEF Metas
<1>11. ASSUME NEW d \in Dates
       PROVE  \/ n.changed[d] = r.changed[d] /\ \A s \in Meta!Dated[d] : n.value[s] = r.value[s]
              \/ n.changed[d] = m.changed[d] /\ \A s \in Meta!Dated[d] : n.value[s] = m.value[s]
    <2>1. \A s \in Meta!Dated[d] : s \in Settings /\ s \notin take /\ \A f \in Dates : s \in Meta!Dated[f] => f = d
        BY <1>7, DatedIs
    <2>2. \A s \in Meta!Dated[d] : n.value[s] = IF Meta!NeedUpdate(r.changed[d], m.changed[d])
                                              THEN r.value[s] ELSE m.value[s]
        BY <1>3, <1>6, <1>10, <2>1
    <2> QED BY <1>3, <1>6, <1>10, <2>2
<1>12. ASSUME NEW s \in m.marked
       PROVE  s \in n.marked /\ n.value[s] = m.value[s]
    <2>1. s \in Undated /\ s \in Settings /\ s \notin take /\ \A d \in Dates : s \notin Meta!Dated[d]
        BY <1>6, <1>7, DatedIs DEF Metas
    <2> QED BY <1>3, <1>6, <1>10, <2>1
<1> QED BY <1>6, <1>8, <1>10, <1>11, <1>12

LEMMA PullStep ==
    ASSUME MaxClock \in Nat, MetaInv, NEW c \in Twins, Meta!Pull(c)
    PROVE  MetaInv'
<1>1. PICK m \in Metas : m = meta[c]
    BY DEF MetaInv, MetaTypes
<1>2. UNCHANGED <<server, clock, wrote, mine, gone>> /\ clock \in Nat /\ server \in Metas
    BY DEF Meta!Pull, MetaInv, MetaTypes
<1>3. PICK n \in Metas :
        /\ n = Meta!Merge(m, server)
        /\ \A d \in Dates :
              \/ n.changed[d] = server.changed[d] /\ \A s \in Meta!Dated[d] : n.value[s] = server.value[s]
              \/ n.changed[d] = m.changed[d] /\ \A s \in Meta!Dated[d] : n.value[s] = m.value[s]
        /\ \A s \in m.marked : s \in n.marked /\ n.value[s] = m.value[s]
        /\ m.dead \subseteq n.dead /\ \A k \in m.dead : m.item[k] = 0 => n.item[k] = 0
    BY <1>2, MergedIs
<1>4. Turns(c, n)
    BY <1>1, <1>3, TurnsTo DEF Meta!Pull, MetaInv
<1>5. Together(m) /\ Together(server) /\ Unpushed(m, mine[c]) /\ Removed(m, gone[c])
    BY <1>1 DEF MetaInv
<1>6. Together(n)
    <2>1. \A d \in Dates : \/ n.changed[d] = server.changed[d] /\ Meta!Part(n, d) = Meta!Part(server, d)
                           \/ n.changed[d] = m.changed[d] /\ Meta!Part(n, d) = Meta!Part(m, d)
        BY <1>3, PartSame
    <2> QED BY <1>5, <2>1 DEF Together
<1>7. \A x : Together(x) => Together(x)'
    BY <1>2 DEF Together, Meta!Part
<1>8. Together(server)'
    BY <1>2, <1>5 DEF Together, Meta!Part
<1>9. Unpushed(n, mine'[c]) /\ Removed(n, gone'[c])
    BY <1>2, <1>3, <1>5 DEF Unpushed, Removed
<1>10. MetaTypes'
    BY <1>2, <1>4 DEF MetaInv, MetaTypes, Turns
<1> QED BY <1>2, <1>4, <1>6, <1>7, <1>8, <1>9, <1>10, OtherClients

LEMMA PushStep ==
    ASSUME MaxClock \in Nat, MetaInv, NEW c \in Twins, Meta!Push(c)
    PROVE  MetaInv'
<1>1. PICK m \in Metas : m = meta[c]
    BY DEF MetaInv, MetaTypes
<1>2. UNCHANGED <<clock, wrote, gone>> /\ mine' = [mine EXCEPT ![c] = [s \in Undated |-> None]]
    BY DEF Meta!Push, Undated
<1>3. PICK n : n = [m EXCEPT !.marked = {}]
    OBVIOUS
<1>4. n \in Metas /\ n.value = m.value /\ n.changed = m.changed /\ n.dead = m.dead /\ n.item = m.item
    BY <1>3 DEF Metas
<1>5. server' = n /\ meta' = [meta EXCEPT ![c] = n]
    BY <1>1, <1>3 DEF Meta!Push
<1>6. Turns(c, n)
    BY <1>4, <1>5, TurnsTo DEF MetaInv
<1>7. Together(m) /\ Removed(m, gone[c]) /\ mine \in [Twins -> [Undated -> Values \cup {None}]]
    BY <1>1 DEF MetaInv, MetaTypes
<1>8. Together(n)
    BY <1>4, <1>7 DEF Together, Meta!Part
<1>9. \A x : Together(x) => Together(x)'
    BY <1>2 DEF Together, Meta!Part
<1>10. Together(server)'
    BY <1>2, <1>5, <1>8 DEF Together, Meta!Part
<1>11. /\ mine' \in [Twins -> [Undated -> Values \cup {None}]] /\ mine'[c] = [s \in Undated |-> None]
       /\ \A o \in Twins \ {c} : mine'[o] = mine[o]
    BY <1>2, <1>7
<1>12. Unpushed(n, mine'[c]) /\ Removed(n, gone'[c])
    BY <1>2, <1>4, <1>7, <1>11 DEF Unpushed, Removed
<1>13. MetaTypes'
    BY <1>2, <1>4, <1>5, <1>6, <1>11 DEF MetaInv, MetaTypes, Turns
<1> QED BY <1>2, <1>4, <1>6, <1>8, <1>9, <1>10, <1>11, <1>12, <1>13, OtherClients

LEMMA MetaGoesOn ==
    ASSUME MaxClock \in Nat, MetaInv, [Meta!Next]_Meta!vars
    PROVE  MetaInv'
<1>1. ASSUME UNCHANGED Meta!vars
      PROVE  MetaInv'
    <2>1. UNCHANGED <<meta, server, clock, wrote, mine, gone>>
        BY <1>1 DEF Meta!vars
    <2>2. MetaTypes'
        BY <2>1 DEF MetaInv, MetaTypes
    <2>3. \A x : Together(x) => Together(x)'
        BY <2>1 DEF Together, Meta!Part
    <2> QED BY <2>1, <2>2, <2>3 DEF MetaInv, Together, Meta!Part, Unpushed, Removed
<1>2. ASSUME NEW c \in Twins,
             \/ \E s \in Settings, v \in Values : Meta!ChangeSetting(c, s, v)
             \/ \E k \in Keys : Meta!ChangeItem(c, k) \/ Meta!RemoveItem(c, k)
             \/ Meta!Pull(c) \/ Meta!Push(c)
      PROVE  MetaInv'
    BY <1>2, ChangeSettingStep, ItemStep, PullStep, PushStep
<1> QED BY <1>1, <1>2 DEF Meta!Next, Settings

\* Settings that share a date stay together, an undated one that was changed here lasts until it
\* is pushed, and what was removed here does not come back: for any clients, values and icons, in
\* whatever order they change, merge and push.
THEOREM LibraryKeepsSettings ==
    ASSUME MaxClock \in Nat \ {0}
    PROVE  LibrarySpec => []SettingsKept
<1> DEFINE Inv == subject = "MetaMerge" => MetaInv
<1>1. LibraryInit => Inv
    BY LibraryBegin, MetaBegins
<1>2. Inv /\ [LibraryNext]_<<subject, vars, shared>> => Inv'
    BY LibraryStep, MetaGoesOn
<1>3. Inv => SettingsKept
    BY DEF MetaInv, Together, Unpushed, Removed, SettingsKept, Meta!SettingsKept, Dates, Undated
<1> QED BY <1>1, <1>2, <1>3, PTL DEF LibrarySpec

-----------------------------------------------------------------------------
(* EntryEdits: references.                                                 *)

\* A set of naturals that is not empty has a least element.
LEMMA LeastOf ==
    ASSUME NEW S \in SUBSET Nat, S # {}
    PROVE  \E n \in S : \A k \in S : n <= k
<1>1. IsWellFoundedOn(OpToRel(<, Nat), Nat)
    BY NatLessThanWellFounded
<1>2. PICK x \in S : \A y \in S : ~(<<y, x>> \in OpToRel(<, Nat))
    BY <1>1, WFMin
<1>3. \A y \in S : ~(y < x)
    BY <1>2 DEF OpToRel
<1>4. \A y \in S : x <= y
    BY <1>3
<1> QED BY <1>4

\* One reference followed.
Followed(w, f) == IF w.ref \in Edits!Live THEN v1[w.ref].fields[f] ELSE w
Follows(g, n, v, f) == g = [d \in 0..n |-> IF d = 0 THEN v ELSE Followed(g[d - 1], f)]

\* References can be followed any number of times.
LEMMA SomeFollows ==
    ASSUME NEW v, NEW f, NEW n \in Nat
    PROVE  \E g : Follows(g, n, v, f)
<1> DEFINE S == {k \in Nat : ~\E g : Follows(g, k, v, f)}
<1> SUFFICES ASSUME S # {} PROVE FALSE
    OBVIOUS
<1>1. PICK k \in S : \A x \in S : k <= x
    BY LeastOf
<1>2. k \in Nat /\ ~\E g : Follows(g, k, v, f)
    OBVIOUS
<1>3. CASE k = 0
    <2>1. PICK g : g = [d \in 0..0 |-> v]
        OBVIOUS
    <2>2. Follows(g, 0, v, f)
        BY <2>1 DEF Follows
    <2> QED BY <1>2, <1>3, <2>2
<1>4. CASE k # 0
    <2>1. k - 1 \in Nat /\ k - 1 \notin S
        BY <1>1, <1>2, <1>4
    <2>2. PICK g : Follows(g, k - 1, v, f)
        BY <2>1
    <2>3. PICK h : h = [d \in 0..k |-> IF d = 0 THEN v ELSE Followed(g[d - 1], f)]
        OBVIOUS
    <2>4. \A d \in 0..k - 1 : h[d] = g[d]
        <3>1. \A d \in 0..k - 1 : h[d] = IF d = 0 THEN v ELSE Followed(g[d - 1], f)
            BY <1>2, <2>3
        <3>2. \A d \in 0..k - 1 : g[d] = IF d = 0 THEN v ELSE Followed(g[d - 1], f)
            BY <2>2, Zenon DEF Follows
        <3> QED BY <3>1, <3>2
    <2>5. \A d \in 0..k : d # 0 => d - 1 \in 0..k - 1
        BY <1>2
    <2>6. \A d \in 0..k : (IF d = 0 THEN v ELSE Followed(g[d - 1], f)) = (IF d = 0 THEN v ELSE Followed(h[d - 1], f))
        BY <2>4, <2>5
    <2>7. Follows(h, k, v, f)
        BY <2>3, <2>6 DEF Follows
    <2> QED BY <1>2, <2>7
<1> QED BY <1>3, <1>4

LEMMA ResolvedFollows ==
    ASSUME MaxDepth \in Nat, NEW v, NEW f, NEW F, F = Edits!ResolvedFrom(v, f)
    PROVE  F[0] = v /\ \A d \in 1..MaxDepth : F[d] = Followed(F[d - 1], f)
<1>1. F = CHOOSE g : Follows(g, MaxDepth + 1, v, f)
    BY DEF Edits!ResolvedFrom, Follows, Followed
<1>2. \E g : Follows(g, MaxDepth + 1, v, f)
    BY SomeFollows
<1>3. Follows(F, MaxDepth + 1, v, f)
    BY <1>1, <1>2
<1>4. \A d \in 0..MaxDepth + 1 : F[d] = IF d = 0 THEN v ELSE Followed(F[d - 1], f)
    BY <1>3, Zenon DEF Follows
<1> QED BY <1>4

\* A chain of references leads to the value at its end.
LEMMA ChainsResolve ==
    ASSUME MaxDepth \in Nat, NEW n \in 1..MaxDepth + 1, NEW path \in [1..n -> Entries], NEW f,
           \A i \in 1..n - 1 : v1[path[i]].fields[f].ref = path[i + 1] /\ path[i + 1] \in Edits!Live,
           NEW end, end = v1[path[n]].fields[f], end.ref = None \/ n = MaxDepth + 1
    PROVE  Edits!Resolved(path[1], f) = end
<1>1. PICK F : F = Edits!ResolvedFrom(v1[path[1]].fields[f], f)
    OBVIOUS
<1>2. F[0] = v1[path[1]].fields[f] /\ \A d \in 1..MaxDepth : F[d] = Followed(F[d - 1], f)
    BY <1>1, ResolvedFollows
<1>3. ASSUME NEW i \in 0..n - 1
      PROVE  F[i] = v1[path[i + 1]].fields[f]
    <2> DEFINE S == {k \in 0..n - 1 : F[k] # v1[path[k + 1]].fields[f]}
    <2> SUFFICES ASSUME S # {} PROVE FALSE
        BY <1>3
    <2>1. PICK k \in S : \A x \in S : k <= x
        <3>1. S \in SUBSET Nat
            OBVIOUS
        <3> QED BY <3>1, LeastOf
    <2>2. k \in 1..n - 1 /\ k - 1 \in 0..n - 1 /\ k - 1 \notin S /\ k \in 1..MaxDepth
        BY <1>2, <2>1
    <2>3. F[k - 1] = v1[path[k]].fields[f]
        BY <2>2
    <2>4. F[k] = v1[path[k + 1]].fields[f]
        BY <1>2, <2>2, <2>3 DEF Followed
    <2> QED BY <2>1, <2>4
<1>4. F[n - 1] = end
    BY <1>3
<1>5. CASE n = MaxDepth + 1
    BY <1>1, <1>4, <1>5 DEF Edits!Resolved
<1>6. CASE n # MaxDepth + 1 /\ end.ref = None
    <2>1. end.ref \notin Edits!Live
        BY <1>6, TreeAssumption DEF Edits!Live, Objects
    <2> DEFINE S == {k \in n..MaxDepth : F[k] # end}
    <2>2. S = {}
        <3> SUFFICES ASSUME S # {} PROVE FALSE
            OBVIOUS
        <3>1. PICK k \in S : \A x \in S : k <= x
            <4>1. S \in SUBSET Nat
                OBVIOUS
            <4> QED BY <4>1, LeastOf
        <3>2. k \in 1..MaxDepth /\ k - 1 \notin S /\ k - 1 \in Nat /\ (k - 1 \in n..MaxDepth \/ k - 1 = n - 1)
            BY <3>1
        <3>3. F[k - 1] = end
            BY <1>4, <3>2
        <3>4. F[k] = end
            BY <1>2, <2>1, <3>2, <3>3 DEF Followed
        <3> QED BY <3>1, <3>4
    <2>3. MaxDepth \in n..MaxDepth
        BY <1>6
    <2>4. F[MaxDepth] = end
        BY <2>2, <2>3
    <2> QED BY <1>1, <2>4 DEF Edits!Resolved
<1> QED BY <1>5, <1>6

LEMMA ClonesDoFollow == MaxDepth \in Nat => Edits!ClonesFollow
<1> SUFFICES ASSUME MaxDepth \in Nat, NEW path \in Edits!Chains, NEW f \in Edits!Logins,
                    Edits!Leads(path[1], f, path),
                    v1[path[Len(path)]].fields[f].ref = None \/ Len(path) = MaxDepth + 1
             PROVE  Edits!Resolved(path[1], f) = v1[path[Len(path)]].fields[f]
    BY DEF Edits!ClonesFollow
<1>1. PICK n \in 1..MaxDepth + 1 : path \in [1..n -> Entries]
    BY DEF Edits!Chains
<1>2. path \in Seq(Entries) /\ Len(path) = n
    BY <1>1
<1> QED BY <1>1, <1>2, ChainsResolve DEF Edits!Leads

-----------------------------------------------------------------------------
(* EntryEdits: what an operation does to an entry.                         *)

entry == v1
dropped == v2
job == v3
steps == v4
raced == v5
merging == v6
USE DEF entry, dropped, job, steps, raced, merging

Held == Twins \cup Foreign
FieldValues == [text : Nat, ref : Entries \cup {None}] \cup {None}
FieldSets == [Edits!Fields -> FieldValues]
FileSets == [Edits!Files -> {0, 1}]
XcFields == [key : Foreign, at : Nat] \cup {None}
Copies == [fields : FieldSets, files : FileSets, index : SUBSET Twins, xc : XcFields]
EntryRecords == [fields : FieldSets, files : FileSets, index : SUBSET Twins, xc : XcFields, hist : Seq(Copies)]
Mergings == [in : Entries, rec : Records, keepB : BOOLEAN, copied : Nat, at : Nat]

EditsTypes ==
    /\ entry \in [Entries -> EntryRecords]
    /\ job \in [Held -> [pc : {"none", "create", "sign"}, in : Entries \cup {None}, index : SUBSET Twins]]
    /\ \A p \in Held : job[p].pc # "none" => job[p].in \in Entries
    /\ \A p \in Held : job[p].pc = "create" => p \in Twins
    /\ steps \in Nat
    /\ merging # None => merging \in Mergings /\ merging.copied \in DOMAIN merging.rec.files

\* The files and the list of passkeys of x are those of y.
SameKeys(x, y) == x.files = y.files /\ x.index = y.index
\* The fields of x, and the passkey in KeePassXC's, are those of y, or y is in its history.
Logged(x, y) ==
    \/ x.fields = y.fields /\ x.xc = y.xc
    \/ x.hist = Append(y.hist, Edits!Copy(y))

LEMMA PushedIs ==
    ASSUME NEW y \in EntryRecords, NEW x, x = Edits!Pushed(y)
    PROVE  /\ x \in EntryRecords /\ SameKeys(x, y) /\ x.fields = y.fields /\ x.xc = y.xc
           /\ x.hist = Append(y.hist, Edits!Copy(y))
<1>1. Edits!Copy(y) \in Copies
    BY DEF EntryRecords, Copies, Edits!Copy
<1>2. PICK h \in Seq(Copies) : h = Append(y.hist, Edits!Copy(y))
    BY <1>1, AppendProperties DEF EntryRecords
<1>3. x = [y EXCEPT !.hist = h]
    BY <1>2 DEF Edits!Pushed
<1> QED BY <1>2, <1>3 DEF EntryRecords, SameKeys

LEMMA FieldsSet ==
    ASSUME NEW y \in EntryRecords, NEW F \in FieldSets, NEW x, x = [y EXCEPT !.fields = F]
    PROVE  x \in EntryRecords /\ SameKeys(x, y) /\ x.hist = y.hist /\ x.xc = y.xc /\ x.fields = F
BY DEF EntryRecords, SameKeys

\* An entry is pushed and its fields are replaced.
LEMMA PushedAndSet ==
    ASSUME NEW y \in EntryRecords, NEW F \in FieldSets, NEW x, x = [Edits!Pushed(y) EXCEPT !.fields = F]
    PROVE  x \in EntryRecords /\ SameKeys(x, y) /\ Logged(x, y)
<1>1. PICK z : z = Edits!Pushed(y)
    OBVIOUS
<1>2. z \in EntryRecords /\ SameKeys(z, y) /\ z.hist = Append(y.hist, Edits!Copy(y))
    BY <1>1, PushedIs
<1>3. x \in EntryRecords /\ SameKeys(x, z) /\ x.hist = z.hist
    BY <1>1, <1>2, FieldsSet
<1> QED BY <1>2, <1>3 DEF SameKeys, Logged

LEMMA ValuesAre ==
    /\ \A n \in Nat : Edits!Text(n) \in FieldValues
    /\ \A e \in Entries : Edits!Reference(e) \in FieldValues
    /\ Edits!Empty \in FieldValues /\ None \in FieldValues
BY DEF FieldValues, Edits!Text, Edits!Reference, Edits!Empty

LEMMA AppliedIs ==
    ASSUME NEW y \in EntryRecords, NEW S, NEW n \in Nat, NEW x, x = Edits!Applied(y, S, n)
    PROVE  /\ x \in EntryRecords /\ SameKeys(x, y) /\ x.hist = y.hist /\ x.xc = y.xc
           /\ \A f \in Edits!Fields : f \notin S => x.fields[f] = y.fields[f]
<1>1. PICK F : F = [f \in Edits!Fields |-> IF f \in S THEN Edits!Text(n) ELSE y.fields[f]]
    OBVIOUS
<1>2. x = [y EXCEPT !.fields = F]
    BY <1>1 DEF Edits!Applied
<1>3. F \in FieldSets
    BY <1>1, ValuesAre DEF FieldSets, EntryRecords
<1>4. x.fields = F /\ x \in EntryRecords /\ SameKeys(x, y) /\ x.hist = y.hist /\ x.xc = y.xc
    BY <1>2, <1>3, FieldsSet
<1> QED BY <1>1, <1>4

LEMMA PushedAndApplied ==
    ASSUME NEW y \in EntryRecords, NEW S, NEW n \in Nat, NEW x, x = Edits!Applied(Edits!Pushed(y), S, n)
    PROVE  x \in EntryRecords /\ SameKeys(x, y) /\ Logged(x, y)
<1>1. PICK z : z = Edits!Pushed(y)
    OBVIOUS
<1>2. z \in EntryRecords /\ SameKeys(z, y) /\ z.hist = Append(y.hist, Edits!Copy(y))
    BY <1>1, PushedIs
<1>3. x = Edits!Applied(z, S, n)
    BY <1>1
<1>4. x \in EntryRecords /\ SameKeys(x, z) /\ x.hist = z.hist
    BY <1>2, <1>3, AppliedIs
<1> QED BY <1>2, <1>4 DEF SameKeys, Logged

LEMMA WithoutIs ==
    ASSUME NEW y \in EntryRecords, NEW S, NEW x, x = Edits!Without(Edits!Pushed(y), S)
    PROVE  x \in EntryRecords /\ SameKeys(x, y) /\ x.hist = Append(y.hist, Edits!Copy(y))
<1>0. PICK z : z = Edits!Pushed(y)
    OBVIOUS
<1>1. PICK F : F = [f \in Edits!Fields |-> IF f \in S THEN None ELSE z.fields[f]]
    OBVIOUS
<1>2. x = [z EXCEPT !.fields = F]
    BY <1>0, <1>1 DEF Edits!Without
<1>3. z \in EntryRecords /\ SameKeys(z, y) /\ z.hist = Append(y.hist, Edits!Copy(y))
    BY <1>0, PushedIs
<1>4. F \in FieldSets
    BY <1>1, <1>3, ValuesAre DEF FieldSets, EntryRecords
<1>5. x \in EntryRecords /\ SameKeys(x, z) /\ x.hist = z.hist
    BY <1>2, <1>3, <1>4, FieldsSet
<1> QED BY <1>3, <1>5 DEF SameKeys

\* Entry e becomes x, and the others stay.
Replaces(e, x) ==
    /\ x \in EntryRecords
    /\ entry' \in [Entries -> EntryRecords]
    /\ entry'[e] = x
    /\ \A o \in Entries \ {e} : entry'[o] = entry[o]

LEMMA PutReplaces ==
    ASSUME EditsTypes, NEW e \in Entries, NEW x \in EntryRecords, Edits!Put(e, x)
    PROVE  Replaces(e, x)
BY DEF EditsTypes, Edits!Put, Replaces

\* The operations that keep the passkeys of an entry.
LEMMA EditKeepsKeys ==
    ASSUME EditsTypes, NEW e \in Entries, NEW x \in EntryRecords, SameKeys(x, entry[e]), Logged(x, entry[e]),
           Edits!Edit(e, x)
    PROVE  /\ Replaces(e, x) /\ SameKeys(x, entry[e]) /\ Logged(x, entry[e])
           /\ job' = job /\ raced' = raced /\ merging' = merging /\ steps' \in Nat
<1>1. Replaces(e, x)
    BY PutReplaces DEF Edits!Edit
<1> QED BY <1>1 DEF Edits!Edit, Edits!Tick, Edits!Now, EditsTypes

\* What follows of a step for the types, the passkeys and the fields.
EditsConstants ==
    /\ MaxDepth \in Nat /\ Doc \notin Twins /\ Foreign \cap Twins = {}
    /\ None \notin Twins /\ None \notin Mergings
Listed(e, p) == p \in entry[e].index \/ (merging # None /\ merging.in = e /\ p \in merging.rec.index)
ListedIn(e, p) ==
    /\ entry[e].files[p] # 0 => Listed(e, p)
    /\ job[p].pc = "sign" /\ job[p].in = e => Listed(e, p)
EditsInv == EditsTypes /\ \A e \in Entries, p \in Twins \ raced : ListedIn(e, p)
AllLogged == \A e \in Entries : Logged(entry'[e], entry[e])
OldIsKept(e) ==
    \/ /\ \A f \in Edits!Fields :
            entry'[e].fields[f] # entry[e].fields[f] =>
                Edits!IsEmpty(entry[e], f) \/ <<f, entry[e].fields[f]>> \in Edits!OldValues(entry'[e])
       /\ entry'[e].xc # entry[e].xc =>
                entry[e].xc = None \/ entry[e].xc \in Edits!OldPasskeys(entry'[e]) \/ Edits!SignsIn(e)
    \/ Edits!TakesOver(e)

\* A logged change of an entry has the old fields in its history.
LEMMA LoggedIsKept ==
    ASSUME EditsTypes, NEW e \in Entries, Logged(entry'[e], entry[e])
    PROVE  OldIsKept(e)
<1>0. entry[e] \in EntryRecords
    BY DEF EditsTypes
<1>1. CASE entry'[e].fields = entry[e].fields /\ entry'[e].xc = entry[e].xc
    BY <1>1 DEF OldIsKept
<1>2. CASE entry'[e].hist = Append(entry[e].hist, Edits!Copy(entry[e]))
    <2>1. PICK c : c = Edits!Copy(entry[e])
        OBVIOUS
    <2>2. c \in Copies /\ c.fields = entry[e].fields /\ c.xc = entry[e].xc
        BY <1>0, <2>1 DEF EntryRecords, Copies, Edits!Copy
    <2>3. PICK s \in Seq(Copies) : s = entry[e].hist
        BY <1>0 DEF EntryRecords
    <2>4. entry'[e].hist = Append(s, c)
        BY <1>2, <2>1, <2>3
    <2>5. Append(s, c)[Len(s) + 1] = c /\ Len(s) + 1 \in DOMAIN Append(s, c)
        BY <2>2, AppendProperties
    <2>6. \A f \in Edits!Fields : <<f, entry[e].fields[f]>> \in Edits!OldValues(entry'[e])
        BY <2>2, <2>4, <2>5 DEF Edits!OldValues
    <2>7. entry[e].xc \in Edits!OldPasskeys(entry'[e])
        BY <2>2, <2>4, <2>5 DEF Edits!OldPasskeys
    <2> QED BY <2>6, <2>7 DEF OldIsKept
<1> QED BY <1>1, <1>2 DEF Logged

LEMMA AllIsKept ==
    ASSUME EditsTypes, \A e \in Entries : OldIsKept(e)
    PROVE  Edits!EditStep
BY DEF OldIsKept, Edits!EditStep

LEMMA KeepingKeys ==
    ASSUME EditsInv, NEW e \in Entries, NEW x, Replaces(e, x), SameKeys(x, entry[e]), Logged(x, entry[e]),
           job' = job, raced' = raced, merging' = merging, steps' \in Nat
    PROVE  EditsInv' /\ AllLogged
<1>1. \A o \in Entries : SameKeys(entry'[o], entry[o])
    BY DEF Replaces, SameKeys
<1>2. EditsTypes'
    BY DEF EditsInv, EditsTypes, Replaces
<1>3. \A o \in Entries, p \in Twins \ raced : ListedIn(o, p)'
    BY <1>1 DEF EditsInv, ListedIn, Listed, SameKeys
<1>4. AllLogged
    BY DEF Replaces, AllLogged, Logged
<1> QED BY <1>2, <1>3, <1>4 DEF EditsInv

LEMMA FieldOperation ==
    ASSUME EditsInv, NEW e \in Entries,
           \/ \E S \in SUBSET Edits!Logins : Edits!UpdateEntry(e, S)
           \/ Edits!SetTotp(e) \/ Edits!RemoveTotp(e) \/ Edits!ClearClone(e) \/ Edits!RefuseClone(e)
           \/ \E f \in Twins : \/ Edits!SetCustomField(e, f) \/ Edits!RemoveCustomField(e, f)
                               \/ \E g \in Twins : Edits!RenameCustomField(e, f, g)
           \/ \E s \in Entries : Edits!SetClone(e, s)
    PROVE  EditsInv' /\ AllLogged
<1> DEFINE y == entry[e]
           Good(x) == x \in EntryRecords /\ SameKeys(x, y) /\ Logged(x, y)
<1>0. y \in EntryRecords /\ Edits!Now \in Nat /\ y.fields \in FieldSets /\ EditsTypes
    BY DEF EditsInv, EditsTypes, Edits!Now, EntryRecords
<1>1. ASSUME NEW x, Good(x), Edits!Edit(e, x)
      PROVE  EditsInv' /\ AllLogged
    BY <1>0, <1>1, EditKeepsKeys, KeepingKeys
<1> HIDE DEF Good
<1>2. \A S : Good(Edits!Applied(Edits!Pushed(y), S, Edits!Now))
    BY <1>0, PushedAndApplied DEF Good
<1>3. \A S : Good(Edits!Without(Edits!Pushed(y), S))
    BY <1>0, WithoutIs DEF Good, Logged
<1>4. Good(Edits!Pushed(y))
    BY <1>0, PushedIs DEF Good, Logged
<1>5. ASSUME NEW s \in Entries, Edits!SetClone(e, s)
      PROVE  EditsInv' /\ AllLogged
    <2>1. PICK F : F = [f \in Edits!Fields |-> IF f \in Edits!Logins THEN Edits!Reference(s)
                                               ELSE Edits!Pushed(y).fields[f]]
        OBVIOUS
    <2>2. Edits!Pushed(y).fields \in FieldSets
        BY <1>0, PushedIs DEF EntryRecords
    <2>3. F \in FieldSets
        BY <2>1, <2>2, ValuesAre DEF FieldSets
    <2>4. PICK x : x = [Edits!Pushed(y) EXCEPT !.fields = F]
        OBVIOUS
    <2>5. Edits!Edit(e, x)
        BY <1>5, <2>1, <2>4 DEF Edits!SetClone
    <2> QED BY <1>0, <1>1, <2>3, <2>4, <2>5, PushedAndSet DEF Good
<1>6. CASE Edits!ClearClone(e)
    <2>1. PICK F : F = [f \in Edits!Fields |-> IF f \in Edits!Logins THEN Edits!Empty
                                               ELSE Edits!Pushed(y).fields[f]]
        OBVIOUS
    <2>2. Edits!Pushed(y).fields \in FieldSets
        BY <1>0, PushedIs DEF EntryRecords
    <2>3. F \in FieldSets
        BY <2>1, <2>2, ValuesAre DEF FieldSets
    <2>4. PICK x : x = [Edits!Pushed(y) EXCEPT !.fields = F]
        OBVIOUS
    <2>5. Edits!Edit(e, x)
        BY <1>6, <2>1, <2>4 DEF Edits!ClearClone
    <2> QED BY <1>0, <1>1, <2>3, <2>4, <2>5, PushedAndSet DEF Good
<1>7. ASSUME NEW f \in Twins, NEW g \in Twins, Edits!RenameCustomField(e, f, g)
      PROVE  EditsInv' /\ AllLogged
    <2>1. PICK z : z = Edits!Without(Edits!Pushed(y), {f})
        OBVIOUS
    <2>2. z \in EntryRecords /\ SameKeys(z, y) /\ z.hist = Append(y.hist, Edits!Copy(y))
        BY <1>0, <2>1, WithoutIs
    <2>3. f \in Edits!Fields /\ g \in Edits!Fields /\ y.fields[f] \in FieldValues
        BY <1>0 DEF Edits!Fields, FieldSets
    <2>4. PICK F : F = [z.fields EXCEPT ![g] = y.fields[f]]
        OBVIOUS
    <2>5. F \in FieldSets
        BY <2>2, <2>3, <2>4 DEF FieldSets, EntryRecords
    <2>6. PICK x : x = [z EXCEPT !.fields = F]
        OBVIOUS
    <2>7. Good(x)
        BY <2>2, <2>5, <2>6, FieldsSet DEF Good, SameKeys, Logged
    <2>8. Edits!Edit(e, x)
        BY <1>7, <2>1, <2>4, <2>6 DEF Edits!RenameCustomField
    <2> QED BY <1>1, <2>7, <2>8
<1> HIDE DEF y
<1>8. ASSUME NEW S \in SUBSET Edits!Logins, Edits!UpdateEntry(e, S)
      PROVE  EditsInv' /\ AllLogged
    BY <1>1, <1>2, <1>8 DEF Edits!UpdateEntry, y
<1>9. CASE Edits!SetTotp(e)
    BY <1>1, <1>2, <1>9 DEF Edits!SetTotp, y
<1>10. CASE Edits!RemoveTotp(e)
    BY <1>1, <1>3, <1>10 DEF Edits!RemoveTotp, y
<1>11. CASE Edits!RefuseClone(e)
    BY <1>1, <1>4, <1>11 DEF Edits!RefuseClone, y
<1>12. ASSUME NEW f \in Twins, Edits!SetCustomField(e, f) \/ Edits!RemoveCustomField(e, f)
       PROVE  EditsInv' /\ AllLogged
    BY <1>1, <1>2, <1>3, <1>12 DEF Edits!SetCustomField, Edits!RemoveCustomField, y
<1> QED BY <1>5, <1>6, <1>7, <1>8, <1>9, <1>10, <1>11, <1>12

LEMMA DropStep ==
    ASSUME EditsInv, NEW e \in Entries, Edits!Drop(e)
    PROVE  EditsInv' /\ AllLogged
<1>1. entry' = entry /\ job' = job /\ raced' = raced /\ merging' = merging /\ steps' \in Nat
    BY DEF Edits!Drop, Edits!Tick, Edits!Now, EditsInv, EditsTypes
<1> QED BY <1>1 DEF EditsInv, EditsTypes, ListedIn, Listed, AllLogged, Logged

\* A change is logged when that of the entry which is replaced is.
LEMMA ReplacedIsLogged ==
    ASSUME NEW e \in Entries, NEW x, Replaces(e, x), Logged(x, entry[e])
    PROVE  AllLogged
BY DEF Replaces, AllLogged, Logged

LEMMA AttachmentStep ==
    ASSUME EditsConstants, EditsInv, NEW e \in Entries,
           Edits!AddAttachment(e) \/ \E n \in Edits!Files : Edits!RemoveAttachment(e, n)
    PROVE  EditsInv' /\ AllLogged
<1> DEFINE y == entry[e]
<1>0. y \in EntryRecords /\ Edits!Now \in Nat /\ EditsTypes
    BY DEF EditsInv, EditsTypes, Edits!Now
<1>1. PICK n \in Edits!Files, v \in {0, 1} :
            /\ n = Doc \/ v = 0
            /\ Edits!Edit(e, [y EXCEPT !.files[n] = v])
    BY <1>0 DEF Edits!AddAttachment, Edits!RemoveAttachment, Edits!Files
<1>2. PICK G : G = [y.files EXCEPT ![n] = v]
    OBVIOUS
<1>3. G \in FileSets /\ \A p \in Twins : G[p] # 0 => y.files[p] # 0
    BY <1>0, <1>1, <1>2 DEF EntryRecords, FileSets, Edits!Files, EditsConstants
<1>4. PICK x : x = [y EXCEPT !.files = G]
    OBVIOUS
<1>5. x \in EntryRecords /\ x.files = G /\ x.index = y.index /\ Logged(x, y)
    BY <1>0, <1>3, <1>4 DEF EntryRecords, Logged
<1>6. Edits!Edit(e, x)
    BY <1>1, <1>2, <1>4
<1>7. Replaces(e, x) /\ job' = job /\ raced' = raced /\ merging' = merging /\ steps' \in Nat
    BY <1>0, <1>5, <1>6, PutReplaces DEF Edits!Edit, Edits!Tick
<1>8. EditsTypes'
    BY <1>0, <1>7 DEF EditsTypes, Replaces
<1>9. ASSUME NEW o \in Entries, NEW p \in Twins \ raced
      PROVE  ListedIn(o, p)'
    <2>1. ListedIn(o, p)
        BY <1>9 DEF EditsInv
    <2>2. CASE o = e
        BY <1>3, <1>5, <1>7, <2>1, <2>2 DEF ListedIn, Listed, Replaces
    <2>3. CASE o # e
        BY <1>7, <2>1, <2>3 DEF ListedIn, Listed, Replaces
    <2> QED BY <2>2, <2>3
<1>10. AllLogged
    BY <1>5, <1>7, ReplacedIsLogged
<1> QED BY <1>7, <1>8, <1>9, <1>10 DEF EditsInv

LEMMA StartPasskeyStep ==
    ASSUME EditsConstants, EditsInv, NEW e \in Entries, NEW p \in Held, Edits!StartPasskey(p, e)
    PROVE  EditsInv' /\ AllLogged
<1> DEFINE y == entry[e]
<1>0. y \in EntryRecords /\ Edits!Now \in Nat /\ EditsTypes
    BY DEF EditsInv, EditsTypes, Edits!Now
<1>1. PICK x : x = Edits!Pushed(y)
    OBVIOUS
<1>2. x \in EntryRecords /\ SameKeys(x, y) /\ Logged(x, y)
    BY <1>0, <1>1, PushedIs DEF Logged
<1>3. Replaces(e, x) /\ raced' = raced /\ merging' = merging /\ steps' \in Nat /\ p \in Twins
    BY <1>0, <1>1, <1>2, PutReplaces DEF Edits!StartPasskey, Edits!Tick
<1>4. PICK j : j = [pc |-> "create", in |-> e, index |-> y.index]
    OBVIOUS
<1>5. job' = [job EXCEPT ![p] = j] /\ j.pc = "create" /\ j.in = e
      /\ j \in [pc : {"none", "create", "sign"}, in : Entries \cup {None}, index : SUBSET Twins]
    BY <1>0, <1>4 DEF Edits!StartPasskey, EntryRecords
<1>6. EditsTypes'
    BY <1>0, <1>3, <1>5 DEF EditsTypes, Replaces
<1>7. ASSUME NEW o \in Entries, NEW q \in Twins \ raced
      PROVE  ListedIn(o, q)'
    <2>1. ListedIn(o, q) /\ SameKeys(entry'[o], entry[o])
        BY <1>2, <1>3 DEF EditsInv, Replaces, SameKeys
    <2>2. job'[q] = job[q] \/ job'[q].pc = "create"
        BY <1>0, <1>5 DEF EditsTypes, Held
    <2> QED BY <1>3, <2>1, <2>2 DEF ListedIn, Listed, SameKeys
<1>8. AllLogged
    BY <1>2, <1>3, ReplacedIsLogged
<1> QED BY <1>3, <1>6, <1>7, <1>8 DEF EditsInv

LEMMA StartSigningStep ==
    ASSUME EditsConstants, EditsInv, NEW e \in Entries, NEW p \in Held, Edits!StartSigning(p, e)
    PROVE  EditsInv' /\ AllLogged
<1>0. entry[e] \in EntryRecords /\ EditsTypes
    BY DEF EditsInv, EditsTypes
<1>1. entry' = entry /\ raced' = raced /\ merging' = merging /\ steps' = steps /\ Edits!Held(e, p)
    BY DEF Edits!StartSigning
<1>2. PICK j : j = [pc |-> "sign", in |-> e, index |-> {}]
    OBVIOUS
<1>3. job' = [job EXCEPT ![p] = j] /\ j.pc = "sign" /\ j.in = e
      /\ j \in [pc : {"none", "create", "sign"}, in : Entries \cup {None}, index : SUBSET Twins]
    BY <1>2 DEF Edits!StartSigning
<1>4. EditsTypes'
    BY <1>0, <1>1, <1>3 DEF EditsTypes
<1>5. ASSUME NEW o \in Entries, NEW q \in Twins \ raced
      PROVE  ListedIn(o, q)'
    <2>1. ListedIn(o, q)
        BY <1>5 DEF EditsInv
    <2>2. CASE q = p /\ o = e
        <3>1. entry[e].xc # None => entry[e].xc.key # p
            BY <1>0, <2>2 DEF EntryRecords, XcFields, EditsConstants
        <3>2. entry[e].files[p] # 0
            BY <1>1, <3>1 DEF Edits!Held
        <3> QED BY <1>1, <2>1, <2>2, <3>2 DEF ListedIn, Listed
    <2>3. CASE q # p \/ o # e
        <3>1. job'[q] = job[q] \/ job'[q].in # o
            BY <1>0, <1>3, <2>3 DEF EditsTypes, Held
        <3> QED BY <1>1, <2>1, <3>1 DEF ListedIn, Listed
    <2> QED BY <2>2, <2>3
<1>6. AllLogged
    BY <1>1 DEF AllLogged, Logged
<1> QED BY <1>1, <1>4, <1>5, <1>6 DEF EditsInv

LEMMA StoredIs ==
    ASSUME NEW p \in Foreign \cup {None}, NEW n \in Nat
    PROVE  Edits!StoredByXc(p, n) \in XcFields
BY DEF Edits!StoredByXc, XcFields

\* The job of p ends, and nothing else is begun.
Finishes(p) ==
    /\ job' \in [Held -> [pc : {"none", "create", "sign"}, in : Entries \cup {None}, index : SUBSET Twins]]
    /\ job'[p].pc = "none"
    /\ \A q \in Held \ {p} : job'[q] = job[q]

LEMMA FinishesIs ==
    ASSUME EditsTypes, NEW p \in Held, job' = [job EXCEPT ![p] = Edits!NoJob]
    PROVE  Finishes(p)
<1>1. PICK j : j = Edits!NoJob
    OBVIOUS
<1>2. j.pc = "none" /\ j \in [pc : {"none", "create", "sign"}, in : Entries \cup {None}, index : SUBSET Twins]
    BY <1>1 DEF Edits!NoJob
<1> QED BY <1>1, <1>2 DEF EditsTypes, Finishes

LEMMA AttachStep ==
    ASSUME EditsConstants, EditsInv, NEW p \in Held, Edits!AttachPasskey(p)
    PROVE  EditsInv' /\ AllLogged
<1> DEFINE e == job[p].in
           y == entry[e]
<1>0. e \in Entries /\ p \in Twins /\ y \in EntryRecords /\ Edits!Now \in Nat /\ EditsTypes
    BY DEF EditsInv, EditsTypes, Edits!Now, Edits!AttachPasskey
<1>1. PICK G : G = [y.files EXCEPT ![p] = 1]
    OBVIOUS
<1>2. PICK I : I = y.index \cup {p}
    OBVIOUS
<1>3. PICK x : x = [y EXCEPT !.files = G, !.index = I]
    OBVIOUS
<1>4. G \in FileSets /\ (\A q \in Twins \ {p} : G[q] = y.files[q]) /\ I \in SUBSET Twins
    BY <1>0, <1>1, <1>2 DEF EntryRecords, FileSets, Edits!Files
<1>5. x \in EntryRecords /\ x.files = G /\ x.index = I /\ Logged(x, y)
    BY <1>0, <1>3, <1>4 DEF EntryRecords, Logged
<1>6. Edits!Put(e, x)
    BY <1>1, <1>2, <1>3 DEF Edits!AttachPasskey, Edits!Indexed
<1>7. Replaces(e, x) /\ raced' = raced /\ merging' = merging /\ steps' \in Nat /\ Finishes(p)
    BY <1>0, <1>5, <1>6, PutReplaces, FinishesIs DEF Edits!AttachPasskey, EditsTypes
<1>8. EditsTypes'
    BY <1>0, <1>7 DEF EditsTypes, Replaces, Finishes
<1> HIDE DEF e
<1>9. ASSUME NEW o \in Entries, NEW q \in Twins \ raced
      PROVE  ListedIn(o, q)'
    <2>1. ListedIn(o, q) /\ q \in Held
        BY <1>9 DEF EditsInv, Held
    <2>2. o # e => entry'[o] = entry[o]
        BY <1>7 DEF Replaces
    <2>3. entry[o].index \subseteq entry'[o].index
        BY <1>2, <1>5, <1>7, <2>2 DEF Replaces
    <2>4. entry'[o].files[q] # 0 => entry[o].files[q] # 0 \/ q \in entry'[o].index
        BY <1>2, <1>4, <1>5, <1>7, <2>2 DEF Replaces
    <2>5. job'[q].pc = "sign" => job'[q] = job[q]
        BY <1>7, <2>1 DEF Finishes
    <2> QED BY <1>7, <2>1, <2>3, <2>4, <2>5 DEF ListedIn, Listed
<1>10. AllLogged
    BY <1>0, <1>5, <1>7, ReplacedIsLogged DEF e
<1> QED BY <1>7, <1>8, <1>9, <1>10 DEF EditsInv

LEMMA WriteCounterStep ==
    ASSUME EditsConstants, EditsInv, NEW p \in Held, Edits!WriteCounter(p)
    PROVE  EditsInv' /\ Edits!EditStep
<1> DEFINE e == job[p].in
           y == entry[e]
<1>0. e \in Entries /\ y \in EntryRecords /\ Edits!Now \in Nat /\ EditsTypes /\ job[p].pc = "sign"
    BY DEF EditsInv, EditsTypes, Edits!Now, Edits!WriteCounter
<1>1. PICK x : x = IF p \in Twins THEN [y EXCEPT !.files[p] = 1]
                   ELSE [y EXCEPT !.xc = Edits!StoredByXc(p, Edits!Now)]
    OBVIOUS
<1>2. /\ x \in EntryRecords /\ x.fields = y.fields /\ x.index = y.index
      /\ \A q \in Twins \ {p} : x.files[q] = y.files[q]
      /\ p \in Twins => x.xc = y.xc
    <2>1. CASE p \in Twins
        <3>1. PICK G : G = [y.files EXCEPT ![p] = 1]
            OBVIOUS
        <3>2. G \in FileSets /\ (\A q \in Twins \ {p} : G[q] = y.files[q])
            BY <1>0, <2>1, <3>1 DEF EntryRecords, FileSets, Edits!Files
        <3>3. x = [y EXCEPT !.files = G]
            BY <1>1, <2>1, <3>1
        <3> QED BY <1>0, <3>2, <3>3 DEF EntryRecords
    <2>2. CASE p \notin Twins
        <3>1. PICK c \in XcFields : c = Edits!StoredByXc(p, Edits!Now)
            BY <1>0, <2>2, StoredIs DEF Held
        <3>2. x = [y EXCEPT !.xc = c]
            BY <1>1, <2>2, <3>1
        <3> QED BY <1>0, <2>2, <3>2 DEF EntryRecords
    <2> QED BY <2>1, <2>2
<1>3. Edits!Put(e, x)
    BY <1>1 DEF Edits!WriteCounter
<1>4. Replaces(e, x) /\ raced' = raced /\ merging' = merging /\ steps' \in Nat /\ Finishes(p)
    BY <1>0, <1>2, <1>3, PutReplaces, FinishesIs DEF Edits!WriteCounter, Edits!Tick
<1>5. EditsTypes'
    BY <1>0, <1>4 DEF EditsTypes, Replaces, Finishes
<1>6. ASSUME NEW o \in Entries, NEW q \in Twins \ raced
      PROVE  ListedIn(o, q)'
    <2>1. ListedIn(o, q) /\ q \in Held /\ (q = p => Listed(e, p))
        BY <1>0, <1>6 DEF EditsInv, Held, ListedIn
    <2> HIDE DEF e
    <2>2. o # e => entry'[o] = entry[o]
        BY <1>4 DEF Replaces
    <2>3. entry[o].index = entry'[o].index
        BY <1>2, <1>4, <2>2 DEF Replaces
    <2>4. entry'[o].files[q] # 0 => entry[o].files[q] # 0 \/ Listed(o, q)
        BY <1>2, <1>4, <2>1, <2>2 DEF Replaces
    <2>5. job'[q].pc = "sign" => job'[q] = job[q]
        BY <1>4, <2>1 DEF Finishes
    <2> QED BY <1>4, <2>1, <2>3, <2>4, <2>5 DEF ListedIn, Listed
<1>7. ASSUME NEW o \in Entries
      PROVE  OldIsKept(o)
    <2>1. CASE o = e /\ p \notin Twins
        <3>1. Edits!SignsIn(e)
            BY <2>1 DEF Edits!SignsIn, Held
        <3> QED BY <1>2, <1>4, <2>1, <3>1 DEF OldIsKept, Replaces
    <2>2. CASE o # e \/ p \in Twins
        <3>1. Logged(entry'[o], entry[o])
            BY <1>2, <1>4, <2>2 DEF Logged, Replaces
        <3> QED BY <1>0, <3>1, LoggedIsKept
    <2> QED BY <2>1, <2>2
<1> QED BY <1>0, <1>4, <1>5, <1>6, <1>7, AllIsKept DEF EditsInv

LEMMA RemovePasskeyStep ==
    ASSUME EditsConstants, EditsInv, NEW e \in Entries, NEW p \in Held, Edits!RemovePasskey(e, p)
    PROVE  EditsInv' /\ AllLogged
<1> DEFINE y == entry[e]
<1>0. y \in EntryRecords /\ EditsTypes
    BY DEF EditsInv, EditsTypes
<1>1. PICK z : z = Edits!Pushed(y)
    OBVIOUS
<1>2. z \in EntryRecords /\ SameKeys(z, y) /\ z.hist = Append(y.hist, Edits!Copy(y))
    BY <1>0, <1>1, PushedIs
<1>3. PICK x : x = IF p \in Twins THEN [z EXCEPT !.files[p] = 0, !.index = @ \ {p}] ELSE [z EXCEPT !.xc = None]
    OBVIOUS
<1>4. /\ x \in EntryRecords /\ Logged(x, y)
      /\ \A q \in Twins \ {p} : x.files[q] = y.files[q] /\ (q \in x.index <=> q \in y.index)
      /\ p \in Twins => x.files[p] = 0
    <2>1. CASE p \in Twins
        <3>1. PICK G : G = [z.files EXCEPT ![p] = 0]
            OBVIOUS
        <3>2. PICK I : I = z.index \ {p}
            OBVIOUS
        <3>3. G \in FileSets /\ (\A q \in Twins \ {p} : G[q] = z.files[q]) /\ I \in SUBSET Twins /\ G[p] = 0
            BY <1>2, <2>1, <3>1, <3>2 DEF EntryRecords, FileSets, Edits!Files
        <3>4. x = [z EXCEPT !.files = G, !.index = I]
            BY <1>3, <2>1, <3>1, <3>2
        <3>5. x \in EntryRecords /\ x.hist = z.hist /\ x.files = G /\ x.index = I
            BY <1>2, <3>3, <3>4 DEF EntryRecords
        <3> QED BY <1>2, <3>2, <3>3, <3>5 DEF SameKeys, Logged
    <2>2. CASE p \notin Twins
        <3>1. x = [z EXCEPT !.xc = None]
            BY <1>3, <2>2
        <3>2. x \in EntryRecords /\ x.hist = z.hist /\ x.files = z.files /\ x.index = z.index
            BY <1>2, <3>1 DEF EntryRecords, XcFields
        <3> QED BY <1>2, <2>2, <3>2 DEF SameKeys, Logged
    <2> QED BY <2>1, <2>2
<1>5. Edits!Put(e, x)
    BY <1>1, <1>3 DEF Edits!RemovePasskey
<1>6. Replaces(e, x) /\ job' = job /\ merging' = merging /\ steps' \in Nat
    BY <1>0, <1>4, <1>5, PutReplaces DEF Edits!RemovePasskey, Edits!Tick, Edits!Now, EditsTypes
<1>7. raced \subseteq raced' /\ (p \in raced' \/ job[p].pc = "none")
    BY DEF Edits!RemovePasskey, Edits!NoJob
<1>8. EditsTypes'
    BY <1>0, <1>6 DEF EditsTypes, Replaces
<1>9. ASSUME NEW o \in Entries, NEW q \in Twins \ raced'
      PROVE  ListedIn(o, q)'
    <2>1. ListedIn(o, q)
        BY <1>7, <1>9 DEF EditsInv
    <2>2. CASE o # e
        BY <1>6, <2>1, <2>2 DEF Replaces, ListedIn, Listed
    <2>3. CASE o = e /\ q # p
        BY <1>4, <1>6, <2>1, <2>3 DEF Replaces, ListedIn, Listed
    <2>4. CASE o = e /\ q = p
        BY <1>4, <1>6, <1>7, <2>4 DEF Replaces, ListedIn, Listed
    <2> QED BY <2>2, <2>3, <2>4
<1>10. AllLogged
    BY <1>4, <1>6, ReplacedIsLogged
<1> QED BY <1>8, <1>9, <1>10 DEF EditsInv

-----------------------------------------------------------------------------
(* EntryEdits: what a merge of a second vault's entry does to ours.        *)

LEMMA RecordsAre ==
    ASSUME EditsConstants, NEW r \in Records
    PROVE  /\ r.index \subseteq Twins /\ r.xc \in Foreign /\ DOMAIN r.files \subseteq Nat
           /\ \A i \in DOMAIN r.files :
                r.files[i] \in Edits!Files /\ (r.files[i] \in Twins => r.files[i] \in r.index)
<1>1. PICK t \in Twins, f \in Foreign :
          r = [fields |-> {"Password", "otp", t}, files |-> <<t, Doc>>, index |-> {t}, xc |-> f]
    BY DEF Records
<1>2. r.files = <<t, Doc>> /\ r.index = {t} /\ r.xc = f
    BY <1>1
<1>3. DOMAIN r.files = 1..2 /\ r.files[1] = t /\ r.files[2] = Doc
    BY <1>2
<1> QED BY <1>2, <1>3 DEF EditsConstants, Edits!Files

\* What of x is not as in y was empty there.
Fills(x, y) ==
    /\ \A f \in Edits!Fields : x.fields[f] # y.fields[f] => Edits!IsEmpty(y, f)
    /\ x.xc # y.xc => y.xc = None

LEMMA FieldsMerged ==
    ASSUME NEW y \in EntryRecords, NEW S, NEW m, NEW x, x = Edits!MergedFields(y, S, m), m.at \in Nat
    PROVE  /\ x \in EntryRecords /\ SameKeys(x, y) /\ x.hist = y.hist /\ x.xc = y.xc
           /\ \A f \in Edits!Fields : f \notin S => x.fields[f] = y.fields[f]
           /\ ~m.keepB => Fills(x, y)
<1> DEFINE T == {f \in S \cap m.rec.fields : m.keepB \/ Edits!IsEmpty(y, f)}
<1>1. T \subseteq S /\ (~m.keepB => \A f \in T : Edits!IsEmpty(y, f))
    OBVIOUS
<1>2. x = Edits!Applied(y, T, m.at)
    BY DEF Edits!MergedFields
<1> HIDE DEF T
<1>3. /\ x \in EntryRecords /\ SameKeys(x, y) /\ x.hist = y.hist /\ x.xc = y.xc
      /\ \A f \in Edits!Fields : f \notin T => x.fields[f] = y.fields[f]
    BY <1>2, AppliedIs
<1> QED BY <1>1, <1>3 DEF Fills

LEMMA RestIs ==
    ASSUME EditsConstants, NEW y \in EntryRecords, NEW m \in Mergings, NEW x, x = Edits!WithRest(y, m)
    PROVE  /\ x \in EntryRecords /\ x.files = y.files /\ x.index = y.index \cup m.rec.index
           /\ x.hist = y.hist /\ (~m.keepB => Fills(x, y))
<1>1. PICK z : z = Edits!MergedFields(y, Twins, m)
    OBVIOUS
<1>2. z \in EntryRecords /\ SameKeys(z, y) /\ z.hist = y.hist /\ z.xc = y.xc /\ (~m.keepB => Fills(z, y))
    BY <1>1, FieldsMerged DEF Mergings
<1>3. m.at \in Nat /\ m.rec \in Records /\ m.rec.index \subseteq Twins /\ m.rec.xc \in Foreign
    BY RecordsAre DEF Mergings
<1>4. PICK I \in SUBSET Twins : I = z.index \cup m.rec.index
    BY <1>2, <1>3 DEF EntryRecords
<1>5. PICK s \in XcFields : s = Edits!StoredByXc(m.rec.xc, m.at)
    BY <1>3, StoredIs
<1>6. PICK c \in XcFields :
          /\ c = IF m.rec.xc # None /\ (z.xc = None \/ m.keepB) THEN s ELSE z.xc
          /\ c # z.xc /\ ~m.keepB => z.xc = None
    BY <1>2 DEF EntryRecords
<1>7. x = [z EXCEPT !.index = I, !.xc = c]
    BY <1>1, <1>4, <1>5, <1>6 DEF Edits!WithRest
<1>8. x \in EntryRecords /\ x.index = I /\ x.xc = c /\ x.files = z.files /\ x.hist = z.hist /\ x.fields = z.fields
    BY <1>2, <1>7 DEF EntryRecords
<1> QED BY <1>2, <1>4, <1>6, <1>8 DEF SameKeys, Fills

\* What is filled in twice was empty, if the second time no one-time code is.
LEMMA FillsFills ==
    ASSUME NEW x, NEW y, NEW z, Fills(x, y), Fills(z, x), x.fields["TOTP Seed"] = y.fields["TOTP Seed"]
    PROVE  Fills(z, y)
<1>1. \A f \in Edits!Fields : x.fields[f] = y.fields[f] /\ Edits!IsEmpty(x, f) => Edits!IsEmpty(y, f)
    BY DEF Edits!IsEmpty
<1> QED BY <1>1 DEF Fills

\* The next attachment that is waited for is one of the record's.
LEMMA ToCopyIs ==
    ASSUME EditsConstants, NEW m \in Mergings, NEW x, Edits!ToCopy(x, m) # {},
           merging' = [m EXCEPT !.copied = CHOOSE i \in Edits!ToCopy(x, m) : \A j \in Edits!ToCopy(x, m) : i <= j]
    PROVE  /\ merging' # None /\ merging' \in Mergings /\ merging'.copied \in DOMAIN merging'.rec.files
           /\ merging'.in = m.in /\ merging'.rec = m.rec
<1> DEFINE S == Edits!ToCopy(x, m)
<1>1. m.rec \in Records /\ DOMAIN m.rec.files \subseteq Nat
    BY RecordsAre DEF Mergings
<1>2. S \subseteq DOMAIN m.rec.files
    BY DEF Edits!ToCopy
<1> HIDE DEF S
<1>3. \E i \in S : \A j \in S : i <= j
    BY <1>1, <1>2, LeastOf DEF S
<1>4. PICK k \in S : merging' = [m EXCEPT !.copied = k]
    BY <1>3 DEF S
<1>5. merging' \in Mergings /\ merging'.copied = k /\ merging'.in = m.in /\ merging'.rec = m.rec
    BY <1>1, <1>2, <1>4 DEF Mergings
<1> QED BY <1>2, <1>5 DEF EditsConstants

\* A merge that goes on: what it has put in the entry is listed, there or by the merge.
LEMMA ContinueStep ==
    ASSUME EditsConstants, EditsInv, NEW m \in Mergings, NEW x \in EntryRecords,
           x.index = entry[m.in].index,
           \A p \in Twins : x.files[p] # 0 => entry[m.in].files[p] # 0 \/ p \in m.rec.index,
           merging # None => merging.in = m.in /\ merging.rec = m.rec,
           Edits!Continue(x, m), job' = job, raced' = raced, steps' \in Nat
    PROVE  EditsInv' /\ \E z \in {x, Edits!WithRest(x, m)} : Replaces(m.in, z)
<1> DEFINE e == m.in
<1>0. e \in Entries /\ EditsTypes /\ steps \in Nat /\ steps' \in Nat
    BY DEF Mergings, EditsInv, EditsTypes
<1>1. PICK z \in {x, Edits!WithRest(x, m)} :
          /\ Edits!Put(e, z) /\ z \in EntryRecords /\ z.files = x.files /\ x.index \subseteq z.index
          /\ \/ merging' = None /\ m.rec.index \subseteq z.index
             \/ merging' # None /\ merging'.in = e /\ merging'.rec = m.rec
          /\ merging' # None => merging' \in Mergings /\ merging'.copied \in DOMAIN merging'.rec.files
    <2>1. CASE Edits!ToCopy(x, m) = {}
        <3>1. PICK z : z = Edits!WithRest(x, m)
            OBVIOUS
        <3>2. z \in EntryRecords /\ z.files = x.files /\ z.index = x.index \cup m.rec.index
            BY <1>0, <3>1, RestIs
        <3>3. Edits!Put(e, z) /\ merging' = None
            BY <2>1, <3>1 DEF Edits!Continue
        <3> QED BY <3>1, <3>2, <3>3
    <2>2. CASE Edits!ToCopy(x, m) # {}
        <3>1. Edits!Put(e, x)
            BY <2>2 DEF Edits!Continue
        <3>2. merging' = [m EXCEPT !.copied =
                            CHOOSE i \in Edits!ToCopy(x, m) : \A j \in Edits!ToCopy(x, m) : i <= j]
            BY <2>2 DEF Edits!Continue
        <3> QED BY <2>2, <3>1, <3>2, ToCopyIs
    <2> QED BY <2>1, <2>2
<1>2. Replaces(e, z)
    BY <1>0, <1>1, PutReplaces
<1>3. EditsTypes'
    BY <1>0, <1>1, <1>2 DEF EditsTypes, Replaces
<1>4. ASSUME NEW o \in Entries, NEW p \in Twins \ raced
      PROVE  ListedIn(o, p)'
    <2>1. ListedIn(o, p)
        BY <1>4 DEF EditsInv
    <2>2. entry[o].index \subseteq entry'[o].index /\ (o = e /\ p \in m.rec.index => Listed(e, p)')
        BY <1>1, <1>2 DEF Replaces, Listed
    <2>3. Listed(o, p) => Listed(o, p)'
        BY <2>2 DEF Listed
    <2>4. entry'[o].files[p] # 0 => entry[o].files[p] # 0 \/ (o = e /\ p \in m.rec.index)
        BY <1>1, <1>2 DEF Replaces
    <2> QED BY <2>1, <2>2, <2>3, <2>4 DEF ListedIn
<1>5. EditsInv'
    BY <1>3, <1>4 DEF EditsInv
<1> QED BY <1>1, <1>2, <1>5

\* Of the other entries nothing changes.
LEMMA OthersAreKept ==
    ASSUME EditsTypes, NEW e \in Entries, NEW z, Replaces(e, z), NEW o \in Entries, o # e
    PROVE  OldIsKept(o)
<1>1. Logged(entry'[o], entry[o])
    BY DEF Replaces, Logged
<1> QED BY <1>1, LoggedIsKept

LEMMA FilledIsKept ==
    ASSUME NEW e \in Entries, NEW z, Replaces(e, z), Fills(z, entry[e])
    PROVE  OldIsKept(e)
BY DEF Replaces, Fills, OldIsKept

LEMMA BeginMergeStep ==
    ASSUME EditsConstants, EditsInv, NEW e \in Entries, NEW r \in Records, NEW b \in BOOLEAN,
           Edits!BeginMerge(e, r, b)
    PROVE  EditsInv' /\ Edits!EditStep
<1> DEFINE y == entry[e]
<1>0. y \in EntryRecords /\ EditsTypes /\ steps \in Nat
    BY DEF EditsInv, EditsTypes
<1>1. PICK m : m = [in |-> e, rec |-> r, keepB |-> b, copied |-> 0, at |-> Edits!Now]
    OBVIOUS
<1>2. m \in Mergings /\ m.in = e /\ m.keepB = b /\ m.at \in Nat
    BY <1>0, <1>1 DEF Mergings, Edits!Now
<1>3. PICK x : x = Edits!MergedFields(y, Edits!Logins \cup {"otp"}, m)
    OBVIOUS
<1>4. /\ x \in EntryRecords /\ SameKeys(x, y) /\ (~b => Fills(x, y))
      /\ \A f \in Edits!Fields : f \notin Edits!Logins \cup {"otp"} => x.fields[f] = y.fields[f]
    BY <1>0, <1>2, <1>3, FieldsMerged
<1>5. x.fields["TOTP Seed"] = y.fields["TOTP Seed"]
    BY <1>4 DEF Edits!Logins, Edits!Fields
<1>6. Edits!Continue(x, m) /\ job' = job /\ raced' = raced /\ steps' \in Nat /\ merging = None
    BY <1>0, <1>1, <1>3 DEF Edits!BeginMerge, Edits!Tick, Edits!Now
<1>7. PICK z \in {x, Edits!WithRest(x, m)} : EditsInv' /\ Replaces(e, z)
    BY <1>2, <1>4, <1>6, ContinueStep DEF SameKeys
<1>8. CASE b
    <2>1. Edits!TakesOver(e)
        BY <1>8 DEF Edits!TakesOver
    <2> QED BY <1>0, <1>7, <2>1, OthersAreKept, AllIsKept DEF OldIsKept
<1>9. CASE ~b
    <2>1. Fills(z, y)
        <3>1. CASE z = x
            BY <1>4, <1>9, <3>1
        <3>2. CASE z = Edits!WithRest(x, m)
            BY <1>0, <1>2, <1>4, <1>5, <1>9, <3>2, RestIs, FillsFills
        <3> QED BY <3>1, <3>2
    <2> QED BY <1>0, <1>7, <2>1, OthersAreKept, FilledIsKept, AllIsKept
<1> QED BY <1>7, <1>8, <1>9

LEMMA StoreAttachmentStep ==
    ASSUME EditsConstants, EditsInv, Edits!StoreAttachment
    PROVE  EditsInv' /\ Edits!EditStep
<1> DEFINE m == merging
           e == m.in
           y == entry[e]
           n == m.rec.files[m.copied]
<1>0. /\ m # None /\ m \in Mergings /\ e \in Entries /\ y \in EntryRecords /\ EditsTypes /\ steps \in Nat
      /\ m.rec \in Records /\ m.copied \in DOMAIN m.rec.files
    BY DEF EditsInv, EditsTypes, Mergings, Edits!StoreAttachment
<1>1. n \in Edits!Files /\ (n \in Twins => n \in m.rec.index)
    BY <1>0, RecordsAre
<1>2. PICK x : x = [y EXCEPT !.files[n] = 1]
    OBVIOUS
<1>3. PICK G : G = [y.files EXCEPT ![n] = 1]
    OBVIOUS
<1>4. x = [y EXCEPT !.files = G]
    BY <1>2, <1>3
<1>5. G \in FileSets /\ \A p \in Twins : G[p] # y.files[p] => p = n
    BY <1>0, <1>1, <1>3 DEF EntryRecords, FileSets, Edits!Files
<1>6. x \in EntryRecords /\ x.files = G /\ x.index = y.index /\ x.fields = y.fields /\ x.xc = y.xc
    BY <1>0, <1>4, <1>5 DEF EntryRecords
<1>7. Edits!Continue(x, m) /\ job' = job /\ raced' = raced /\ steps' \in Nat
    BY <1>0, <1>2 DEF Edits!StoreAttachment
<1>8. \A p \in Twins : x.files[p] # 0 => y.files[p] # 0 \/ p \in m.rec.index
    BY <1>1, <1>6, <1>5
<1>9. PICK z \in {x, Edits!WithRest(x, m)} : EditsInv' /\ Replaces(e, z)
    <2> HIDE DEF n
    <2> QED BY <1>0, <1>6, <1>7, <1>8, ContinueStep
<1>10. CASE m.keepB
    <2>1. Edits!TakesOver(e)
        BY <1>10 DEF Edits!TakesOver
    <2> QED BY <1>0, <1>9, <2>1, OthersAreKept, AllIsKept DEF OldIsKept
<1>11. CASE ~m.keepB
    <2>1. Fills(x, y)
        BY <1>6 DEF Fills
    <2>2. Fills(z, y)
        <3>1. CASE z = x
            BY <2>1, <3>1
        <3>2. CASE z = Edits!WithRest(x, m)
            <4>1. Fills(z, x)
                BY <1>0, <1>6, <1>11, <3>2, RestIs
            <4> QED BY <1>6, <2>1, <4>1, FillsFills
        <3> QED BY <3>1, <3>2
    <2> QED BY <1>0, <1>9, <2>2, OthersAreKept, FilledIsKept, AllIsKept
<1> QED BY <1>9, <1>10, <1>11

-----------------------------------------------------------------------------
(* EntryEdits: the invariant of the entries.                               *)

LEMMA EditsGoOn ==
    ASSUME EditsConstants, EditsInv, [Edits!Next]_Edits!vars
    PROVE  EditsInv' /\ Edits!EditStep
<1>0. EditsTypes /\ (AllLogged => Edits!EditStep)
    BY LoggedIsKept, AllIsKept DEF EditsInv, AllLogged
<1>1. CASE UNCHANGED Edits!vars
    BY <1>0, <1>1 DEF Edits!vars, EditsInv, EditsTypes, ListedIn, Listed, AllLogged, Logged
<1>2. CASE \E e \in Entries : Edits!Drop(e)
    BY <1>0, <1>2, DropStep
<1>3. CASE \E e \in Entries : Edits!AddAttachment(e) \/ \E n \in Edits!Files : Edits!RemoveAttachment(e, n)
    BY <1>0, <1>3, AttachmentStep
<1>4. CASE \E e \in Entries, p \in Held :
               Edits!StartPasskey(p, e) \/ Edits!StartSigning(p, e) \/ Edits!RemovePasskey(e, p)
    BY <1>0, <1>4, StartPasskeyStep, StartSigningStep, RemovePasskeyStep
<1>5. CASE \E p \in Held : Edits!AttachPasskey(p) \/ Edits!WriteCounter(p)
    BY <1>0, <1>5, AttachStep, WriteCounterStep
<1>6. CASE \E e \in Entries :
               \/ \E S \in SUBSET Edits!Logins : Edits!UpdateEntry(e, S)
               \/ Edits!SetTotp(e) \/ Edits!RemoveTotp(e) \/ Edits!ClearClone(e) \/ Edits!RefuseClone(e)
               \/ \E f \in Twins : \/ Edits!SetCustomField(e, f) \/ Edits!RemoveCustomField(e, f)
                                   \/ \E g \in Twins : Edits!RenameCustomField(e, f, g)
               \/ \E s \in Entries : Edits!SetClone(e, s)
    BY <1>0, <1>6, FieldOperation
<1>7. CASE (\E e \in Entries, r \in Records, b \in BOOLEAN : Edits!BeginMerge(e, r, b)) \/ Edits!StoreAttachment
    BY <1>7, BeginMergeStep, StoreAttachmentStep
<1> QED BY <1>1, <1>2, <1>3, <1>4, <1>5, <1>6, <1>7, Zenon DEF Edits!Next, Held

LEMMA EditsBegin == Edits!Init => EditsInv
<1> SUFFICES ASSUME Edits!Init PROVE EditsInv
    OBVIOUS
<1>1. PICK e \in Entries, p \in Foreign \cup {None} :
          entry = [x \in Entries |-> IF x = e THEN [Edits!Blank EXCEPT !.xc = Edits!StoredByXc(p, 0)]
                                     ELSE Edits!Blank]
    BY DEF Edits!Init
<1>2. PICK b : b = Edits!Blank
    OBVIOUS
<1>3. b \in EntryRecords /\ \A q \in Twins : b.files[q] = 0
    BY <1>2, ValuesAre DEF Edits!Blank, EntryRecords, FieldSets, FileSets, Copies, XcFields, Edits!Files
<1>4. PICK s \in XcFields : s = Edits!StoredByXc(p, 0)
    BY StoredIs
<1>5. PICK c : c = [b EXCEPT !.xc = s]
    OBVIOUS
<1>6. c \in EntryRecords /\ c.files = b.files
    BY <1>3, <1>5 DEF EntryRecords
<1>7. entry \in [Entries -> EntryRecords] /\ \A o \in Entries : entry[o].files = b.files
    BY <1>1, <1>2, <1>3, <1>4, <1>5, <1>6
<1>8. PICK j : j = Edits!NoJob
    OBVIOUS
<1>9. j.pc = "none" /\ j \in [pc : {"none", "create", "sign"}, in : Entries \cup {None}, index : SUBSET Twins]
    BY <1>8 DEF Edits!NoJob
<1>10. job = [q \in Held |-> j] /\ steps = 0 /\ merging = None
    BY <1>8 DEF Edits!Init, Held
<1> QED BY <1>3, <1>7, <1>9, <1>10 DEF EditsInv, EditsTypes, ListedIn, Held

LEMMA EditsInLibrary ==
    ASSUME EditsConstants
    PROVE  LibrarySpec => [](subject = "EntryEdits" => EditsInv)
<1> DEFINE Inv == subject = "EntryEdits" => EditsInv
<1>1. LibraryInit => Inv
    BY LibraryBegin, EditsBegin
<1>2. Inv /\ [LibraryNext]_<<subject, vars, shared>> => Inv'
    BY LibraryStep, EditsGoOn
<1> QED BY <1>1, <1>2, PTL DEF LibrarySpec

\* A clone shows the login at the end of the references it follows, and the key of a
\* passkey is only in an entry that lists it, or that a merge under way will, for any
\* entries, passkeys and depth (setEntryClone, resolveFieldValue, createPasskey,
\* signPasskeyAssertion, mergeNativePasskeyIndex).
THEOREM LibraryFollowsLinks ==
    ASSUME EditsConstants
    PROVE  LibrarySpec => []LinksFollowed
<1>1. (subject = "EntryEdits" => EditsInv) => LinksFollowed
    BY ClonesDoFollow DEF LinksFollowed, EditsConstants, EditsInv, ListedIn, Listed, Edits!PasskeysListed
<1> QED BY <1>1, EditsInLibrary, PTL

\* The value of a field, or the passkey in KeePassXC's fields, that an operation of the
\* session replaces or removes is in the entry's history, for any entries and any number
\* of operations; but for a merge of a second vault's entry that was answered with keep-b
\* and a sign-in, which write over it, and a merge with keep-a, which fills in what is
\* empty (mergeRecordIntoEntry, signPasskeyAssertion).
THEOREM LibraryKeepsFields ==
    ASSUME EditsConstants
    PROVE  LibrarySpec => FieldsInHistory
<1> DEFINE Inv == subject = "EntryEdits" => EditsInv
<1>1. Inv /\ Inv' /\ [LibraryNext]_<<subject, vars, shared>>
          => [subject = "EntryEdits" => Edits!EditStep]_<<subject, shared>>
    <2> SUFFICES ASSUME Inv, Inv', [LibraryNext]_<<subject, vars, shared>>, subject = "EntryEdits"
                 PROVE  Edits!EditStep
        OBVIOUS
    <2>1. EditsInv /\ [Edits!Next]_Edits!vars
        BY LibraryStep
    <2> QED BY <2>1, EditsGoOn
<1> QED BY <1>1, EditsInLibrary, PTL DEF LibrarySpec, FieldsInHistory

-----------------------------------------------------------------------------
(* KdbxMerge: what is below an object.                                     *)

replica == v1
upstream == v2
ticks == v3
born == v4
known == v5
missed == v6
walk == v7
USE DEF replica, upstream, ticks, born, known, missed, walk

Nodes == Merge!Objects
KidSets == [ReplicaGroups -> SUBSET Nodes]
Items == [mod : Nat, loc : Nat, hist : SUBSET Nat, added : SUBSET Nat, gone : SUBSET Nat]
Databases == [kids : KidSets, item : [Nodes -> Items], dead : SUBSET Nodes, name : Nat]
Walks == [site : Twins, kids : KidSets, item : [Nodes -> Items], path : Seq(ReplicaGroups), met : SUBSET Nodes]
MergeConstants ==
    /\ IsFiniteSet(ReplicaGroups) /\ Root \in ReplicaGroups /\ ReplicaGroups \cap ReplicaEntries = {}
    /\ FirstObjects \subseteq Nodes \ {Root}
    /\ MaxTicks \in Nat /\ HistoryMax \in Nat
    /\ None \notin Walks

LEMMA SameCardinality ==
    ASSUME NEW S
    PROVE  Merge!Cardinality(S) = Cardinality(S)
BY DEF Merge!Cardinality, Cardinality

Levels(F, n, kids, x) == F = [d \in 0..n |-> IF d = 0 THEN {x} ELSE Merge!Down(kids, F[d - 1])]

LEMMA SomeLevels ==
    ASSUME NEW kids, NEW x, NEW n \in Nat
    PROVE  \E F : Levels(F, n, kids, x)
<1> DEFINE S == {k \in Nat : ~\E F : Levels(F, k, kids, x)}
<1> SUFFICES ASSUME S # {} PROVE FALSE
    OBVIOUS
<1>1. PICK k \in S : \A y \in S : k <= y
    BY LeastOf
<1>2. k \in Nat /\ ~\E F : Levels(F, k, kids, x)
    OBVIOUS
<1>3. CASE k = 0
    <2>1. PICK F : F = [d \in 0..0 |-> {x}]
        OBVIOUS
    <2>2. Levels(F, 0, kids, x)
        BY <2>1 DEF Levels
    <2> QED BY <1>2, <1>3, <2>2
<1>4. CASE k # 0
    <2>1. k - 1 \in Nat /\ k - 1 \notin S
        BY <1>1, <1>2, <1>4
    <2>2. PICK F : Levels(F, k - 1, kids, x)
        BY <2>1
    <2>3. PICK H : H = [d \in 0..k |-> IF d = 0 THEN {x} ELSE Merge!Down(kids, F[d - 1])]
        OBVIOUS
    <2>4. \A d \in 0..k - 1 : H[d] = F[d]
        <3>1. \A d \in 0..k - 1 : H[d] = IF d = 0 THEN {x} ELSE Merge!Down(kids, F[d - 1])
            BY <1>2, <2>3
        <3>2. \A d \in 0..k - 1 : F[d] = IF d = 0 THEN {x} ELSE Merge!Down(kids, F[d - 1])
            BY <2>2, Zenon DEF Levels
        <3> QED BY <3>1, <3>2
    <2>5. \A d \in 0..k : d # 0 => d - 1 \in 0..k - 1
        BY <1>2
    <2>6. \A d \in 0..k : (IF d = 0 THEN {x} ELSE Merge!Down(kids, F[d - 1]))
                          = (IF d = 0 THEN {x} ELSE Merge!Down(kids, H[d - 1]))
        BY <2>4, <2>5
    <2>7. Levels(H, k, kids, x)
        BY <2>3, <2>6 DEF Levels
    <2> QED BY <1>2, <2>7
<1> QED BY <1>3, <1>4

LEMMA LevelsAre ==
    ASSUME MergeConstants, NEW kids, NEW x, NEW size, size = Cardinality(ReplicaGroups)
    PROVE  /\ size \in Nat \ {0}
           /\ \E F : /\ F[0] = {x} /\ F[size] = Merge!Below(kids, x)
                     /\ \A n \in 1..size : F[n] = Merge!Down(kids, F[n - 1])
<1>1. size \in Nat \ {0}
    BY FS_CardinalityType, FS_EmptySet DEF MergeConstants
<1>2. PICK F : F = CHOOSE G : Levels(G, Cardinality(ReplicaGroups), kids, x)
    OBVIOUS
<1>3. Levels(F, size, kids, x)
    BY <1>1, <1>2, SomeLevels
<1>4. Merge!Below(kids, x) = F[Cardinality(ReplicaGroups)]
    BY <1>2, SameCardinality DEF Merge!Below, Levels
<1>5. \A d \in 0..size : F[d] = IF d = 0 THEN {x} ELSE Merge!Down(kids, F[d - 1])
    BY <1>3, Zenon DEF Levels
<1> QED BY <1>1, <1>4, <1>5

\* What holds at the first level and is kept from each level to the next holds at all.
LEMMA LeastBelow ==
    ASSUME MergeConstants, NEW kids, NEW x, NEW S, x \in S, \A g \in S \cap ReplicaGroups : kids[g] \subseteq S
    PROVE  Merge!Below(kids, x) \subseteq S
<1>1. PICK size : size = Cardinality(ReplicaGroups)
    OBVIOUS
<1>2. size \in Nat \ {0}
    BY <1>1, LevelsAre
<1>3. PICK F : /\ F[0] = {x} /\ F[size] = Merge!Below(kids, x)
               /\ \A n \in 1..size : F[n] = Merge!Down(kids, F[n - 1])
    BY <1>1, LevelsAre
<1> DEFINE Bad == {n \in 0..size : ~(F[n] \subseteq S)}
<1>4. Bad = {}
    <2> SUFFICES ASSUME Bad # {} PROVE FALSE
        OBVIOUS
    <2>1. PICK n \in Bad : \A k \in Bad : n <= k
        <3>1. Bad \in SUBSET Nat
            OBVIOUS
        <3> QED BY <3>1, LeastOf
    <2>2. n # 0 /\ n \in 1..size /\ n - 1 \in 0..size /\ n - 1 \notin Bad
        BY <1>2, <1>3, <2>1
    <2>3. F[n - 1] \subseteq S
        BY <2>2
    <2>4. F[n] \subseteq S
        BY <1>3, <2>2, <2>3 DEF Merge!Down
    <2> QED BY <2>1, <2>4
<1> QED BY <1>2, <1>3, <1>4

\* Below has its own object, and with a group what the group holds: one level of the
\* recursion for each group is enough, as a level that adds no group is the last.
LEMMA BelowIs ==
    ASSUME MergeConstants, NEW kids \in KidSets, NEW x \in Nodes
    PROVE  /\ x \in Merge!Below(kids, x) /\ Merge!Below(kids, x) \subseteq Nodes
           /\ \A g \in Merge!Below(kids, x) \cap ReplicaGroups : kids[g] \subseteq Merge!Below(kids, x)
<1>1. PICK size : size = Cardinality(ReplicaGroups)
    OBVIOUS
<1>2. size \in Nat \ {0} /\ IsFiniteSet(ReplicaGroups)
    BY <1>1, LevelsAre DEF MergeConstants
<1>3. PICK F : /\ F[0] = {x} /\ F[size] = Merge!Below(kids, x)
               /\ \A n \in 1..size : F[n] = Merge!Down(kids, F[n - 1])
    BY <1>1, LevelsAre
<1> DEFINE Full(S) == \A g \in S \cap ReplicaGroups : kids[g] \subseteq S
           Size(S) == Cardinality(S \cap ReplicaGroups)
           Good(n) == /\ F[n] \subseteq Nodes /\ x \in F[n]
                      /\ Full(F[n]) \/ n + 1 <= Size(F[n])
           Bad == {n \in 0..size : ~Good(n)}
<1>4. ASSUME NEW S
      PROVE  /\ Size(S) \in Nat /\ Size(S) <= size
             /\ \A T : S \subseteq T /\ S \cap ReplicaGroups # T \cap ReplicaGroups => Size(S) < Size(T)
    <2>1. \A T : Size(T) \in Nat /\ IsFiniteSet(T \cap ReplicaGroups) /\ Size(T) <= size
        BY <1>1, <1>2, FS_Subset, FS_CardinalityType
    <2>2. ASSUME NEW T, S \subseteq T, S \cap ReplicaGroups # T \cap ReplicaGroups
          PROVE  Size(S) < Size(T)
        <3>1. S \cap ReplicaGroups \subseteq T \cap ReplicaGroups
            BY <2>2
        <3>2. Size(S) <= Size(T) /\ Size(S) # Size(T)
            BY <2>1, <2>2, <3>1, FS_Subset
        <3> QED BY <2>1, <3>2
    <2> QED BY <2>1, <2>2
<1>5. Good(0)
    <2>1. CASE x \in ReplicaGroups
        <3>1. {x} \cap ReplicaGroups = {x}
            BY <2>1
        <3>2. Size({x}) = 1
            BY <3>1, FS_Singleton
        <3> QED BY <1>3, <3>2
    <2>2. CASE x \notin ReplicaGroups
        BY <1>3, <2>2
    <2> QED BY <2>1, <2>2
<1>6. Bad = {}
    <2> SUFFICES ASSUME Bad # {} PROVE FALSE
        OBVIOUS
    <2>1. PICK n \in Bad : \A k \in Bad : n <= k
        <3>1. Bad \in SUBSET Nat
            OBVIOUS
        <3> QED BY <3>1, LeastOf
    <2>2. n # 0 /\ n \in 1..size /\ n - 1 \in 0..size /\ n - 1 \notin Bad /\ (n - 1) + 1 = n
        <3> HIDE DEF Good
        <3>1. n \in 0..size /\ ~Good(n)
            BY <2>1
        <3>2. n # 0 /\ n \in 1..size /\ n - 1 \in 0..size /\ (n - 1) + 1 = n /\ n - 1 < n
            BY <1>2, <1>5, <3>1
        <3>3. n - 1 \notin Bad
            <4> HIDE DEF Bad
            <4>1. n - 1 \in Bad => n <= n - 1
                BY <2>1
            <4> QED BY <3>1, <3>2, <4>1
        <3> QED BY <3>2, <3>3
    <2>3. PICK S : S = F[n - 1]
        OBVIOUS
    <2>4. S \subseteq Nodes /\ x \in S /\ (Full(S) \/ n <= Size(S))
        BY <2>2, <2>3
    <2>5. F[n] = S \cup UNION {kids[g] : g \in S \cap ReplicaGroups}
        BY <1>3, <2>2, <2>3 DEF Merge!Down
    <2>6. F[n] \subseteq Nodes /\ x \in F[n] /\ S \subseteq F[n]
        BY <2>4, <2>5 DEF KidSets
    <2>7. CASE Full(S)
        <3>1. F[n] = S
            BY <2>5, <2>7
        <3> QED BY <2>1, <2>6, <2>7, <3>1
    <2>8. CASE ~Full(S) /\ F[n] \cap ReplicaGroups = S \cap ReplicaGroups
        <3>1. Full(F[n])
            BY <2>5, <2>8
        <3> QED BY <2>1, <2>6, <3>1
    <2>9. CASE ~Full(S) /\ F[n] \cap ReplicaGroups # S \cap ReplicaGroups
        <3>1. Size(S) \in Nat /\ Size(F[n]) \in Nat /\ Size(S) < Size(F[n])
            BY <1>4, <2>6, <2>9
        <3>2. n + 1 <= Size(F[n])
            BY <2>2, <2>4, <2>9, <3>1
        <3> QED BY <2>1, <2>6, <3>2
    <2> QED BY <2>7, <2>8, <2>9
<1>7. Good(size) /\ ~(size + 1 <= Size(F[size]))
    <2>1. size \in 0..size
        BY <1>2
    <2>2. Good(size)
        BY <1>6, <2>1
    <2>3. Size(F[size]) \in Nat /\ Size(F[size]) <= size
        BY <1>4
    <2> HIDE DEF Size
    <2> QED BY <1>2, <2>2, <2>3
<1> QED BY <1>3, <1>7

\* What is below something below x is below x.
LEMMA BelowBelow ==
    ASSUME MergeConstants, NEW kids \in KidSets, NEW x \in Nodes, NEW y \in Merge!Below(kids, x)
    PROVE  Merge!Below(kids, y) \subseteq Merge!Below(kids, x)
<1>1. y \in Nodes
    BY BelowIs
<1>2. \A g \in Merge!Below(kids, x) \cap ReplicaGroups : kids[g] \subseteq Merge!Below(kids, x)
    BY BelowIs
<1> QED BY <1>2, LeastBelow

-----------------------------------------------------------------------------
(* KdbxMerge: the tree of a database stays one that hangs from its root.   *)

Rooted(kids) == \A g \in ReplicaGroups : Root \notin kids[g] /\ (kids[g] # {} => g \in Merge!Below(kids, Root))

LEMMA AliveIsBelow ==
    ASSUME MergeConstants, NEW db, db.kids \in KidSets, Rooted(db.kids)
    PROVE  Merge!Alive(db) = Merge!Below(db.kids, Root)
<1>0. Root \in Nodes
    BY DEF MergeConstants, Nodes, Merge!Objects
<1>1. /\ Root \in Merge!Below(db.kids, Root)
      /\ \A g \in Merge!Below(db.kids, Root) \cap ReplicaGroups : db.kids[g] \subseteq Merge!Below(db.kids, Root)
    BY <1>0, BelowIs
<1>2. Merge!Alive(db) \subseteq Merge!Below(db.kids, Root)
    BY <1>1 DEF Merge!Alive, Rooted
<1>3. Merge!Below(db.kids, Root) \subseteq Merge!Alive(db)
    <2>1. Root \in Merge!Alive(db) /\ \A g \in Merge!Alive(db) \cap ReplicaGroups : db.kids[g] \subseteq Merge!Alive(db)
        BY DEF Merge!Alive
    <2> QED BY <2>1, LeastBelow
<1> QED BY <1>2, <1>3

LEMMA PutKeepsRooted ==
    ASSUME MergeConstants, NEW kids \in KidSets, Rooted(kids), NEW x \in Nodes \ {Root},
           NEW g \in ReplicaGroups, g \in Merge!Below(kids, Root), g \notin Merge!Below(kids, x),
           NEW put, put = Merge!PutIn(kids, g, x)
    PROVE  /\ put \in KidSets /\ Rooted(put)
           /\ \A h \in ReplicaGroups : put[h] \subseteq kids[h] \cup {x}
<1>1. /\ put \in KidSets
      /\ \A h \in ReplicaGroups : put[h] = IF h = g THEN (kids[h] \ {x}) \cup {x} ELSE kids[h] \ {x}
    BY DEF Merge!PutIn, Merge!Taken, KidSets
<1>2. Root \in Nodes
    BY DEF MergeConstants, Nodes, Merge!Objects
<1> DEFINE S == Merge!Below(put, Root)
           U == Merge!Below(kids, x)
<1>3. Root \in S /\ \A h \in S \cap ReplicaGroups : put[h] \subseteq S
    BY <1>1, <1>2, BelowIs
<1>4. x \in U /\ \A h \in U \cap ReplicaGroups : kids[h] \subseteq U
    BY BelowIs
<1> HIDE DEF S, U
<1>5. Merge!Below(kids, Root) \subseteq S \cup U
    <2>1. Root \in S \cup U /\ \A h \in (S \cup U) \cap ReplicaGroups : kids[h] \subseteq S \cup U
        BY <1>1, <1>3, <1>4
    <2> QED BY <2>1, LeastBelow
<1>6. g \in S /\ x \in S
    BY <1>1, <1>3, <1>5 DEF U
<1>7. U \subseteq S
    <2>1. \A h \in S \cap ReplicaGroups : kids[h] \subseteq S
        BY <1>1, <1>3, <1>6
    <2> QED BY <1>6, <2>1, LeastBelow DEF U
<1>8. Rooted(put)
    BY <1>1, <1>5, <1>6, <1>7 DEF Rooted, S
<1> QED BY <1>1, <1>8

LEMMA CutKeepsRooted ==
    ASSUME MergeConstants, NEW kids \in KidSets, Rooted(kids), NEW x \in Nodes,
           NEW cut, cut = [g \in ReplicaGroups |-> IF g \in Merge!Below(kids, x) THEN {} ELSE kids[g] \ {x}]
    PROVE  /\ cut \in KidSets /\ Rooted(cut)
           /\ \A h \in ReplicaGroups : cut[h] \subseteq kids[h]
<1> DEFINE S == Merge!Below(cut, Root)
           U == Merge!Below(kids, x)
<1>1. cut \in KidSets /\ \A h \in ReplicaGroups : cut[h] = IF h \in U THEN {} ELSE kids[h] \ {x}
    BY DEF KidSets
<1>2. Root \in Nodes
    BY DEF MergeConstants, Nodes, Merge!Objects
<1>3. Root \in S /\ \A h \in S \cap ReplicaGroups : cut[h] \subseteq S
    BY <1>1, <1>2, BelowIs
<1>4. x \in U /\ \A h \in U \cap ReplicaGroups : kids[h] \subseteq U
    BY BelowIs
<1> HIDE DEF S, U
<1>5. Merge!Below(kids, Root) \subseteq S \cup U
    <2>1. Root \in S \cup U /\ \A h \in (S \cup U) \cap ReplicaGroups : kids[h] \subseteq S \cup U
        BY <1>1, <1>3, <1>4
    <2> QED BY <2>1, LeastBelow
<1>6. Rooted(cut)
    BY <1>1, <1>5 DEF Rooted, S
<1> QED BY <1>1, <1>6

-----------------------------------------------------------------------------
(* KdbxMerge: the walk of a merge.                                         *)

\* What mergeCollection may not take away from the children of group g: what both have
\* there, and what one side has there and the other has nowhere.
Sure(l, r, g) ==
    {y \in Nodes \ (l.dead \cup r.dead) :
        \/ y \in l.kids[g] /\ y \in r.kids[g]
        \/ y \in l.kids[g] /\ y \notin Merge!Alive(r)
        \/ y \in r.kids[g] /\ y \notin Merge!Alive(l)}
\* What an entry begins its merge with.
Start(l, r, x) == {l.item[x]} \cup (IF x \in Merge!Alive(l) THEN {} ELSE {Merge!Copied(r.item[x])})
EntryInWalk(l, r, w, x) ==
    \E i \in Start(l, r, x) : w.item[x] = IF x \in w.met THEN Merge!MergeEntry(i, r.item[x]) ELSE i
OnWay(w, g) == \E n \in 1..Len(w.path) : w.path[n] = g
Done(r, w, g) == w.kids[g] \cap Merge!Alive(r) \subseteq w.met

\* A walk that has met what w.met says: the groups not met are as they were, those met
\* have all that is sure, what it met it found below, and in the groups it has left it met
\* all that the remote database has too.
Walking(l, r, w) ==
    /\ w \in Walks
    /\ w.met \subseteq Merge!Alive(r)
    /\ \A g \in ReplicaGroups : /\ w.kids[g] \subseteq l.kids[g] \cup r.kids[g]
                                /\ g \notin w.met => w.kids[g] = l.kids[g]
                                /\ g \in w.met => Sure(l, r, g) \subseteq w.kids[g]
                                /\ OnWay(w, g) => g \in w.met
                                /\ g \in w.met => OnWay(w, g) \/ Done(r, w, g)
    /\ \A x \in w.met : x = Root \/ \E g \in w.met \cap ReplicaGroups : x \in w.kids[g]
    /\ \A x \in ReplicaEntries : EntryInWalk(l, r, w, x)

LEMMA CopiedIs ==
    ASSUME NEW j \in Items
    PROVE  /\ Merge!Copied(j) \in Items /\ Merge!Copied(j).mod = j.mod /\ Merge!Copied(j).loc = j.loc
           /\ Merge!Copied(j).hist = {} /\ Merge!Copied(j).gone = {} /\ Merge!Copied(j).added = {}
BY DEF Merge!Copied, Merge!Fresh, Items

LEMMA MergeEntryIs ==
    ASSUME NEW i \in Items, NEW j \in Items, NEW e, e = Merge!MergeEntry(i, j)
    PROVE  /\ e \in Items
           /\ e.mod = IF i.mod < j.mod THEN j.mod ELSE i.mod
           /\ e.loc = i.loc \/ e.loc = j.loc
           /\ LET hist == IF i.mod < j.mod THEN i.hist \cup {i.mod} ELSE i.hist
                  added == IF i.mod < j.mod THEN i.added \cup {i.mod} ELSE i.added
                  theirs == IF i.mod > j.mod /\ j.mod \notin i.hist THEN j.hist \cup {j.mod} ELSE j.hist
              IN  e.hist = (hist \cap theirs) \cup {t \in theirs \ hist : t \notin i.gone}
                           \cup {t \in hist \ theirs : t \in added \/ t > j.mod}
<1>1. PICK own : own = IF i.mod < j.mod THEN [Merge!Pushed(i) EXCEPT !.mod = j.mod, !.loc = j.loc] ELSE i
    OBVIOUS
<1>2. /\ own \in Items
      /\ own.mod = IF i.mod < j.mod THEN j.mod ELSE i.mod
      /\ own.loc = i.loc \/ own.loc = j.loc
      /\ own.hist = IF i.mod < j.mod THEN i.hist \cup {i.mod} ELSE i.hist
      /\ own.added = IF i.mod < j.mod THEN i.added \cup {i.mod} ELSE i.added
      /\ own.gone = i.gone
    BY <1>1 DEF Merge!Pushed, Items
<1>3. PICK theirs : theirs = IF i.mod > j.mod /\ j.mod \notin i.hist THEN j.hist \cup {j.mod} ELSE j.hist
    OBVIOUS
<1>4. theirs \subseteq Nat
    BY <1>3 DEF Items
<1>5. PICK all : all = Merge!MergeHistory(own, theirs, j.mod)
    OBVIOUS
<1>6. all = (own.hist \cap theirs) \cup {t \in theirs \ own.hist : t \notin own.gone}
            \cup {t \in own.hist \ theirs : t \in own.added \/ t > j.mod}
    BY <1>5 DEF Merge!MergeHistory
<1>7. all \subseteq Nat
    BY <1>2, <1>4, <1>6 DEF Items
<1>8. e = [own EXCEPT !.hist = all]
    BY <1>1, <1>3, <1>5 DEF Merge!MergeEntry
<1>9. e \in Items /\ e.mod = own.mod /\ e.loc = own.loc /\ e.hist = all
    BY <1>2, <1>7, <1>8 DEF Items
<1> QED BY <1>2, <1>3, <1>6, <1>9

LEMMA OneHolder ==
    ASSUME MergeConstants, NEW db, Merge!Sound(db), NEW x \in Nodes,
           NEW g \in ReplicaGroups, NEW h \in ReplicaGroups, x \in db.kids[g], x \in db.kids[h]
    PROVE  g = h
<1>1. PICK H : H = Merge!Holders(db, x)
    OBVIOUS
<1>2. H \subseteq ReplicaGroups /\ g \in H /\ h \in H
    BY <1>1 DEF Merge!Holders
<1>3. IsFiniteSet(H) /\ Cardinality(H) \in Nat
    BY <1>2, FS_Subset, FS_CardinalityType DEF MergeConstants
<1>4. Cardinality(H) <= 1
    <2>1. Merge!Cardinality(H) <= 1
        BY <1>1 DEF Merge!Sound, Nodes
    <2> QED BY <2>1, SameCardinality
<1>5. {g, h} \subseteq H
    BY <1>2
<1>6. SUFFICES ASSUME g # h PROVE FALSE
    OBVIOUS
<1>7. Cardinality({g, h}) = 2
    <2>1. IsFiniteSet({g}) /\ Cardinality({g}) = 1
        BY FS_Singleton
    <2>2. {g} \cup {h} = {g, h}
        OBVIOUS
    <2>3. Cardinality({g} \cup {h}) = 2
        <3>1. h \notin {g}
            BY <1>6
        <3>2. PICK S : S = {g}
            OBVIOUS
        <3>3. IsFiniteSet(S) /\ Cardinality(S) = 1 /\ h \notin S
            BY <2>1, <3>1, <3>2
        <3>4. Cardinality(S \cup {h}) = Cardinality(S) + 1
            BY <3>3, FS_AddElement
        <3>5. Cardinality(S \cup {h}) = 2
            BY <3>3, <3>4
        <3> QED BY <3>2, <3>5
    <2> QED BY <2>2, <2>3
<1>8. Cardinality({g, h}) <= Cardinality(H)
    BY <1>3, <1>5, FS_Subset
<1> QED BY <1>3, <1>4, <1>7, <1>8

LEMMA HoldersAre ==
    ASSUME NEW db, NEW x, NEW g \in ReplicaGroups
    PROVE  g \in Merge!Holders(db, x) <=> x \in db.kids[g]
BY DEF Merge!Holders

LEMMA CollectionIs ==
    ASSUME NEW l \in Databases, NEW r \in Databases, NEW w \in Walks, NEW g \in ReplicaGroups,
           w.kids[g] = l.kids[g], NEW kids, kids = Merge!MergeCollection(l, r, w, g)
    PROVE  kids \subseteq l.kids[g] \cup r.kids[g] /\ kids \subseteq Nodes /\ Sure(l, r, g) \subseteq kids
<1>1. /\ kids \subseteq l.kids[g] \cup r.kids[g]
      /\ l.kids[g] \subseteq Nodes /\ r.kids[g] \subseteq Nodes
    BY DEF Merge!MergeCollection, Databases, KidSets
<1>2. ASSUME NEW y \in Sure(l, r, g)
      PROVE  y \in kids
    <2>1. y \in Nodes
        BY DEF Sure
    <2>2. w.item[y].loc \in Nat /\ r.item[y].loc \in Nat
        BY <2>1 DEF Databases, Walks, Items
    <2>3. Merge!StaysHere(w.item[y], r.item[y]) \/ Merge!ComesHere(w.item[y], r.item[y])
        BY <2>2 DEF Merge!StaysHere, Merge!ComesHere
    <2> QED BY <2>3 DEF Merge!MergeCollection, Sure
<1> QED BY <1>1, <1>2

LEMMA WalkIs ==
    ASSUME NEW site \in Twins, NEW kids \in KidSets, NEW item \in [Nodes -> Items],
           NEW path \in Seq(ReplicaGroups), NEW met \in SUBSET Nodes,
           NEW w, w = [site |-> site, kids |-> kids, item |-> item, path |-> path, met |-> met]
    PROVE  /\ w \in Walks /\ w.site = site /\ w.kids = kids /\ w.item = item /\ w.path = path
           /\ w.met = met
BY DEF Walks

LEMMA IntoIs ==
    ASSUME NEW l \in Databases, NEW r \in Databases, NEW w \in Walks, NEW g \in ReplicaGroups,
           w.kids[g] = l.kids[g], NEW v, v = Merge!MergeInto(l, r, w, g)
    PROVE  /\ v \in Walks /\ v.site = w.site /\ v.met = w.met \cup {g} /\ v.path = Append(w.path, g)
           /\ \A h \in ReplicaGroups \ {g} : v.kids[h] = w.kids[h]
           /\ v.kids[g] \subseteq l.kids[g] \cup r.kids[g] /\ Sure(l, r, g) \subseteq v.kids[g]
           /\ \A x \in Nodes : v.item[x] = IF x = g THEN Merge!MergeGroup(w.item[x], r.item[x])
                                           ELSE IF x \in v.kids[g] \ Merge!Alive(l) THEN Merge!Copied(r.item[x])
                                           ELSE w.item[x]
<1>1. PICK kids : kids = Merge!MergeCollection(l, r, w, g)
    OBVIOUS
<1>2. kids \subseteq l.kids[g] \cup r.kids[g] /\ kids \subseteq Nodes /\ Sure(l, r, g) \subseteq kids
    BY <1>1, CollectionIs
<1>3. PICK item : item = [x \in Nodes |-> IF x = g THEN Merge!MergeGroup(w.item[x], r.item[x])
                                          ELSE IF x \in kids \ Merge!Alive(l) THEN Merge!Copied(r.item[x])
                                          ELSE w.item[x]]
    OBVIOUS
<1>4. item \in [Nodes -> Items]
    <2>1. ASSUME NEW x \in Nodes
          PROVE  item[x] \in Items
        <3>1. w.item[x] \in Items /\ r.item[x] \in Items
            BY DEF Walks, Databases
        <3>2. Merge!MergeGroup(w.item[x], r.item[x]) \in Items
            BY <3>1 DEF Merge!MergeGroup, Items
        <3>3. Merge!Copied(r.item[x]) \in Items
            BY <3>1, CopiedIs
        <3> QED BY <1>3, <3>1, <3>2, <3>3
    <2> QED BY <1>3, <2>1
<1>5. v = [w EXCEPT !.kids[g] = kids, !.item = item, !.path = Append(w.path, g), !.met = w.met \cup {g}]
    BY <1>1, <1>3, Zenon DEF Merge!MergeInto, Nodes
<1>6. g \in Nodes
    BY DEF Nodes, Merge!Objects
<1>7. Append(w.path, g) \in Seq(ReplicaGroups)
    BY DEF Walks
<1>8. PICK all : all = [w.kids EXCEPT ![g] = kids]
    OBVIOUS
<1>9. all \in KidSets /\ all[g] = kids /\ \A h \in ReplicaGroups \ {g} : all[h] = w.kids[h]
    BY <1>2, <1>8 DEF Walks, KidSets
<1>10. /\ v \in Walks /\ v.site = w.site /\ v.met = w.met \cup {g} /\ v.path = Append(w.path, g)
       /\ v.kids = all /\ v.item = item
    <2>1. PICK site \in Twins, path \in Seq(ReplicaGroups), met \in SUBSET Nodes :
                site = w.site /\ path = Append(w.path, g) /\ met = w.met \cup {g}
        BY <1>6, <1>7 DEF Walks
    <2>2. v = [site |-> site, kids |-> all, item |-> item, path |-> path, met |-> met]
        BY <1>1, <1>5, <1>8, <2>1 DEF Walks
    <2>3. /\ v \in Walks /\ v.site = site /\ v.kids = all /\ v.item = item /\ v.path = path
          /\ v.met = met
        BY <1>4, <1>9, <2>2, WalkIs
    <2> QED BY <2>1, <2>3
<1> QED BY <1>2, <1>3, <1>9, <1>10

\* A group is met.
LEMMA IntoWalks ==
    ASSUME MergeConstants, NEW l \in Databases, NEW r \in Databases, Merge!Sound(r),
           NEW w, Walking(l, r, w), NEW g \in ReplicaGroups \cap Merge!Alive(r), g \notin w.met,
           g = Root \/ \E h \in w.met \cap ReplicaGroups : g \in w.kids[h],
           NEW v, v = Merge!MergeInto(l, r, w, g)
    PROVE  Walking(l, r, v) /\ v.site = w.site /\ v.met = w.met \cup {g}
<1>1. w \in Walks /\ w.kids[g] = l.kids[g]
    BY DEF Walking
<1>2. /\ v \in Walks /\ v.site = w.site /\ v.met = w.met \cup {g} /\ v.path = Append(w.path, g)
      /\ \A h \in ReplicaGroups \ {g} : v.kids[h] = w.kids[h]
      /\ v.kids[g] \subseteq l.kids[g] \cup r.kids[g] /\ Sure(l, r, g) \subseteq v.kids[g]
      /\ \A x \in Nodes : v.item[x] = IF x = g THEN Merge!MergeGroup(w.item[x], r.item[x])
                                      ELSE IF x \in v.kids[g] \ Merge!Alive(l) THEN Merge!Copied(r.item[x])
                                      ELSE w.item[x]
    BY <1>1, IntoIs
<1>3. /\ v.met \subseteq Merge!Alive(r)
      /\ \A h \in ReplicaGroups : /\ v.kids[h] \subseteq l.kids[h] \cup r.kids[h]
                                  /\ h \notin v.met => v.kids[h] = l.kids[h]
                                  /\ h \in v.met => Sure(l, r, h) \subseteq v.kids[h]
    BY <1>2 DEF Walking
<1>4. ASSUME NEW h \in ReplicaGroups
      PROVE  OnWay(v, h) <=> OnWay(w, h) \/ h = g
    <2>1. PICK p \in Seq(ReplicaGroups) : p = w.path
        BY <1>1 DEF Walks
    <2>2. /\ Len(Append(p, g)) = Len(p) + 1 /\ Append(p, g)[Len(p) + 1] = g /\ Len(p) \in Nat
          /\ \A n \in 1..Len(p) : Append(p, g)[n] = p[n]
        BY <2>1
    <2>3. OnWay(v, h) <=> \E n \in 1..(Len(p) + 1) : Append(p, g)[n] = h
        BY <1>2, <2>1, <2>2 DEF OnWay
    <2>4. OnWay(w, h) <=> \E n \in 1..Len(p) : p[n] = h
        BY <2>1 DEF OnWay
    <2> QED BY <2>2, <2>3, <2>4
<1>5. \A h \in ReplicaGroups : /\ OnWay(v, h) => h \in v.met
                               /\ h \in v.met => OnWay(v, h) \/ Done(r, v, h)
    <2>1. \A h \in ReplicaGroups \ {g} : Done(r, w, h) => Done(r, v, h)
        BY <1>2 DEF Done
    <2> QED BY <1>2, <1>4, <2>1 DEF Walking
<1>6. \A x \in v.met : x = Root \/ \E h \in v.met \cap ReplicaGroups : x \in v.kids[h]
    BY <1>2 DEF Walking
<1>7. ASSUME NEW x \in ReplicaEntries
      PROVE  EntryInWalk(l, r, v, x)
    <2>1. x \in Nodes /\ x # g /\ (x \in v.met <=> x \in w.met)
        BY <1>2 DEF Nodes, Merge!Objects, MergeConstants
    <2>2. PICK i \in Start(l, r, x) :
                w.item[x] = IF x \in w.met THEN Merge!MergeEntry(i, r.item[x]) ELSE i
        BY DEF Walking, EntryInWalk
    <2>3. CASE x \in v.kids[g] \ Merge!Alive(l)
        <3>1. x \in r.kids[g]
            BY <1>2, <2>3 DEF Merge!Alive
        <3>2. x \notin w.met
            <4> SUFFICES ASSUME x \in w.met PROVE FALSE
                OBVIOUS
            <4>1. Root \in ReplicaGroups /\ x # Root
                BY DEF MergeConstants
            <4>2. PICK h \in w.met \cap ReplicaGroups : x \in w.kids[h]
                BY <4>1 DEF Walking
            <4>3. x \in r.kids[h]
                BY <2>3, <4>2 DEF Walking, Merge!Alive
            <4>4. h = g
                BY <2>1, <3>1, <4>3, OneHolder
            <4> QED BY <4>2, <4>4
        <3>3. v.item[x] = Merge!Copied(r.item[x]) /\ Merge!Copied(r.item[x]) \in Start(l, r, x)
            BY <1>2, <2>1, <2>3 DEF Start
        <3> QED BY <2>1, <3>2, <3>3 DEF EntryInWalk
    <2>4. CASE x \notin v.kids[g] \ Merge!Alive(l)
        <3>1. v.item[x] = w.item[x]
            BY <1>2, <2>1, <2>4
        <3> QED BY <2>1, <2>2, <3>1 DEF EntryInWalk
    <2> QED BY <2>3, <2>4
<1> QED BY <1>2, <1>3, <1>5, <1>6, <1>7 DEF Walking

\* The group the walk is at has been met.
LEMMA LastIsMet ==
    ASSUME NEW l, NEW r, NEW w, Walking(l, r, w), w.path # <<>>, NEW here, here = w.path[Len(w.path)]
    PROVE  here \in ReplicaGroups /\ here \in w.met
<1>1. PICK p \in Seq(ReplicaGroups) : p = w.path
    BY DEF Walking, Walks
<1>2. Len(p) \in 1..Len(p) /\ p[Len(p)] \in ReplicaGroups
    BY <1>1
<1>3. OnWay(w, here)
    BY <1>1, <1>2 DEF OnWay
<1> QED BY <1>1, <1>2, <1>3 DEF Walking

\* The entries of the group the walk is at are merged, and it goes back up.
EntriesMet(r, w, S) ==
    [w EXCEPT !.item = [x \in Nodes |-> IF x \in S THEN Merge!MergeEntry(w.item[x], r.item[x]) ELSE w.item[x]],
              !.path = SubSeq(w.path, 1, Len(w.path) - 1), !.met = w.met \cup S]

LEMMA EntriesWalk ==
    ASSUME MergeConstants, NEW l \in Databases, NEW r \in Databases, NEW w, Walking(l, r, w), w.path # <<>>,
           NEW here, here = w.path[Len(w.path)],
           (w.kids[here] \cap ReplicaGroups \cap Merge!Alive(r)) \ w.met = {},
           NEW S, S = (w.kids[here] \cap ReplicaEntries \cap Merge!Alive(r)) \ w.met,
           NEW v, v = EntriesMet(r, w, S)
    PROVE  Walking(l, r, v) /\ v.site = w.site /\ w.met \subseteq v.met
<1>1. w \in Walks
    BY DEF Walking
<1>2. PICK p \in Seq(ReplicaGroups) : p = w.path
    BY <1>1 DEF Walks
<1>3. PICK n \in Nat : n = Len(p) /\ n # 0
    BY <1>2
<1>4. PICK q \in Seq(ReplicaGroups) : /\ q = SubSeq(p, 1, n - 1) /\ Len(q) = n - 1
                                      /\ \A k \in 1..(n - 1) : q[k] = p[k]
    <2>1. n - 1 \in Int /\ \A k \in 1..(n - 1) : p[k] \in ReplicaGroups
        BY <1>3
    <2>2. PICK q : q = SubSeq(p, 1, n - 1)
        OBVIOUS
    <2>3. /\ q \in Seq(ReplicaGroups) /\ Len(q) = IF 1 <= n - 1 THEN (n - 1) - 1 + 1 ELSE 0
          /\ \A k \in 1..((n - 1) - 1 + 1) : q[k] = p[1 + k - 1]
        BY <2>1, <2>2, SubSeqProperties
    <2>4. Len(q) = n - 1 /\ \A k \in 1..(n - 1) : q[k] = p[k]
        BY <1>3, <2>3
    <2> QED BY <2>2, <2>3, <2>4
<1>5. PICK item : item = [x \in Nodes |-> IF x \in S THEN Merge!MergeEntry(w.item[x], r.item[x]) ELSE w.item[x]]
    OBVIOUS
<1>6. item \in [Nodes -> Items]
    <2>1. ASSUME NEW x \in Nodes
          PROVE  item[x] \in Items
        <3>1. w.item[x] \in Items /\ r.item[x] \in Items
            BY <1>1 DEF Walks, Databases
        <3>2. Merge!MergeEntry(w.item[x], r.item[x]) \in Items
            BY <3>1, MergeEntryIs
        <3> QED BY <1>5, <3>1, <3>2
    <2> QED BY <1>5, <2>1
<1>7. S \subseteq ReplicaEntries \cap Nodes \cap Merge!Alive(r) /\ S \cap w.met = {}
    BY DEF Nodes, Merge!Objects
<1>8. /\ v \in Walks /\ v.site = w.site /\ v.kids = w.kids /\ v.item = item /\ v.path = q
      /\ v.met = w.met \cup S
    <2>1. v = [w EXCEPT !.item = item, !.path = q, !.met = w.met \cup S]
        BY <1>2, <1>3, <1>4, <1>5 DEF EntriesMet
    <2>2. PICK site \in Twins, kids \in KidSets, met \in SUBSET Nodes :
                site = w.site /\ kids = w.kids /\ met = w.met \cup S
        BY <1>1, <1>7 DEF Walks
    <2>3. v = [site |-> site, kids |-> kids, item |-> item, path |-> q, met |-> met]
        BY <1>1, <2>1, <2>2 DEF Walks
    <2>4. PICK f \in [Nodes -> Items], path \in Seq(ReplicaGroups) : f = item /\ path = q
        BY <1>4, <1>6
    <2>5. v = [site |-> site, kids |-> kids, item |-> f, path |-> path, met |-> met]
        BY <2>3, <2>4
    <2>6. /\ v \in Walks /\ v.site = site /\ v.kids = kids /\ v.item = f /\ v.path = path
          /\ v.met = met
        BY <2>5, WalkIs
    <2> QED BY <2>2, <2>4, <2>6
<1>9. here \in ReplicaGroups /\ p[n] = here /\ here \in w.met
    <2>1. here \in ReplicaGroups /\ here \in w.met
        BY LastIsMet
    <2> QED BY <1>2, <1>3, <2>1
<1>10. \A g \in ReplicaGroups : g \in v.met <=> g \in w.met
    BY <1>7, <1>8 DEF MergeConstants
<1>11. v.met \subseteq Merge!Alive(r)
    BY <1>7, <1>8 DEF Walking
<1>12. Done(r, v, here)
    <2>1. w.kids[here] \subseteq ReplicaGroups \cup ReplicaEntries
        BY <1>1, <1>9 DEF Walks, KidSets, Nodes, Merge!Objects
    <2> QED BY <1>8, <2>1 DEF Done
<1>13. ASSUME NEW g \in ReplicaGroups
       PROVE  /\ OnWay(v, g) => g \in v.met
              /\ g \in v.met => OnWay(v, g) \/ Done(r, v, g)
    <2>1. OnWay(v, g) <=> \E k \in 1..(n - 1) : p[k] = g
        BY <1>4, <1>8 DEF OnWay
    <2>2. OnWay(w, g) <=> \E k \in 1..n : p[k] = g
        BY <1>2, <1>3 DEF OnWay
    <2>3. \A k \in 1..n : k \in 1..(n - 1) \/ k = n
        BY <1>3
    <2>4. 1..(n - 1) \subseteq 1..n
        BY <1>3
    <2>5. OnWay(v, g) => OnWay(w, g)
        BY <2>1, <2>2, <2>4
    <2>6. OnWay(w, g) => OnWay(v, g) \/ g = here
        BY <1>9, <2>1, <2>2, <2>3
    <2>7. Done(r, w, g) => Done(r, v, g)
        BY <1>8 DEF Done
    <2> QED BY <1>10, <1>12, <2>5, <2>6, <2>7 DEF Walking
<1>14. \A x \in v.met : x = Root \/ \E h \in v.met \cap ReplicaGroups : x \in v.kids[h]
    BY <1>8, <1>9, <1>10 DEF Walking
<1>15. ASSUME NEW x \in ReplicaEntries
       PROVE  EntryInWalk(l, r, v, x)
    <2>1. x \in Nodes
        BY DEF Nodes, Merge!Objects
    <2>2. PICK i \in Start(l, r, x) :
                w.item[x] = IF x \in w.met THEN Merge!MergeEntry(i, r.item[x]) ELSE i
        BY DEF Walking, EntryInWalk
    <2>3. item[x] = IF x \in S THEN Merge!MergeEntry(w.item[x], r.item[x]) ELSE w.item[x]
        BY <1>5, <2>1
    <2>4. v.item[x] = IF x \in v.met THEN Merge!MergeEntry(i, r.item[x]) ELSE i
        BY <1>7, <1>8, <2>2, <2>3
    <2> QED BY <2>4 DEF EntryInWalk
<1>16. \A g \in ReplicaGroups : /\ v.kids[g] \subseteq l.kids[g] \cup r.kids[g]
                                /\ g \notin v.met => v.kids[g] = l.kids[g]
                                /\ g \in v.met => Sure(l, r, g) \subseteq v.kids[g]
    BY <1>8, <1>10 DEF Walking
<1> QED BY <1>8, <1>11, <1>13, <1>14, <1>15, <1>16 DEF Walking

\* The walk begins at the root.
LEMMA WalkBegins ==
    ASSUME MergeConstants, NEW s \in Twins, NEW l \in Databases, NEW r \in Databases, Merge!Sound(r),
           NEW v, v = Merge!MergeInto(l, r, [site |-> s, kids |-> l.kids, item |-> l.item,
                                             path |-> <<>>, met |-> {}], Root)
    PROVE  Walking(l, r, v) /\ v.site = s /\ Root \in v.met
<1>1. PICK w : w = [site |-> s, kids |-> l.kids, item |-> l.item, path |-> <<>>, met |-> {}]
    OBVIOUS
<1>2. w \in Walks /\ w.site = s /\ w.kids = l.kids /\ w.item = l.item /\ w.met = {} /\ w.path = <<>>
    BY <1>1 DEF Walks, Databases
<1>3. \A g : ~OnWay(w, g)
    BY <1>2 DEF OnWay
<1>4. \A x \in ReplicaEntries : EntryInWalk(l, r, w, x)
    BY <1>2 DEF EntryInWalk, Start
<1>5. Walking(l, r, w)
    BY <1>2, <1>3, <1>4 DEF Walking
<1>6. Root \in ReplicaGroups \cap Merge!Alive(r)
    BY DEF MergeConstants, Merge!Alive
<1>7. v = Merge!MergeInto(l, r, w, Root) /\ Root \notin w.met
    BY <1>1, <1>2
<1> QED BY <1>2, <1>5, <1>6, <1>7, IntoWalks

-----------------------------------------------------------------------------
(* KdbxMerge: what the merge of two databases leaves.                      *)

Left(w) == Merge!Below(w.kids, Root)
ItemLeft(w, x) == IF x \in Left(w) THEN Merge!Trimmed(w.item[x]) ELSE Merge!Fresh

LEMMA MergeIs ==
    ASSUME NEW l, NEW r, NEW w
    PROVE  Merge!Merge(l, r, w)
           = [kids |-> [g \in ReplicaGroups |-> IF g \in Left(w) THEN w.kids[g] ELSE {}],
              item |-> [x \in Nodes |-> ItemLeft(w, x)],
              dead |-> l.dead \cup r.dead,
              name |-> IF r.name > l.name THEN r.name ELSE l.name]
BY Zenon DEF Merge!Merge, Left, ItemLeft, Nodes

Cleared(i) == [i EXCEPT !.added = {}, !.gone = {}]

LEMMA SettledIs ==
    ASSUME NEW db \in Databases, NEW d, d = Merge!Settled(db)
    PROVE  /\ d.kids = db.kids /\ d.dead = db.dead /\ d \in Databases
           /\ \A x \in Nodes : d.item[x] = Cleared(db.item[x])
<1>1. PICK f : f = [x \in Nodes |-> [db.item[x] EXCEPT !.added = {}, !.gone = {}]]
    OBVIOUS
<1>2. d = [db EXCEPT !.item = f]
    BY <1>1 DEF Merge!Settled, Nodes
<1>3. f \in [Nodes -> Items]
    BY <1>1 DEF Databases, Items
<1> QED BY <1>1, <1>2, <1>3 DEF Databases, Cleared

\* The items of a merge are items.
LEMMA TrimmedIs ==
    ASSUME NEW i \in Items
    PROVE  /\ Merge!Trimmed(i) \in Items /\ Merge!Trimmed(i).mod = i.mod /\ Merge!Trimmed(i).loc = i.loc
           /\ Merge!Trimmed(i).added = i.added /\ Merge!Trimmed(i).hist \subseteq i.hist
           /\ Merge!Trimmed(i).hist = {t \in i.hist : ~(Cardinality({u \in i.hist : u > t}) >= HistoryMax)}
<1>1. PICK over : over = {t \in i.hist : Cardinality({u \in i.hist : u > t}) >= HistoryMax}
    OBVIOUS
<1>2. Merge!Trimmed(i) = [i EXCEPT !.hist = i.hist \ over, !.gone = i.gone \cup over]
    BY <1>1, SameCardinality DEF Merge!Trimmed
<1>3. over \subseteq i.hist
    BY <1>1
<1> QED BY <1>1, <1>2, <1>3 DEF Items

LEMMA LeftItem ==
    ASSUME NEW w \in Walks, NEW x \in Nodes
    PROVE  ItemLeft(w, x) \in Items
<1>1. w.item[x] \in Items
    BY DEF Walks
<1>2. Merge!Fresh \in Items
    BY DEF Merge!Fresh, Items
<1> QED BY <1>1, <1>2, TrimmedIs DEF ItemLeft

LEMMA LeftIs ==
    ASSUME MergeConstants, NEW w \in Walks
    PROVE  /\ w.kids \in KidSets /\ Left(w) \subseteq Nodes /\ Root \in Left(w)
           /\ \A g \in Left(w) \cap ReplicaGroups : w.kids[g] \subseteq Left(w)
<1>1. Root \in Nodes /\ w.kids \in KidSets
    BY DEF MergeConstants, Nodes, Merge!Objects, Walks
<1> QED BY <1>1, BelowIs DEF Left

\* A walk that is back from the root, and what is made of it.
Walked(l, r, w) ==
    /\ l \in Databases /\ r \in Databases /\ Rooted(l.kids) /\ Rooted(r.kids)
    /\ Merge!Sound(l) /\ Merge!Sound(r)
    /\ Walking(l, r, w) /\ Root \in w.met /\ w.path = <<>>
MergesTo(l, r, w, m) == Walked(l, r, w) /\ m = Merge!Settled(Merge!Merge(l, r, w))

LEMMA MergeKeepsRooted ==
    ASSUME MergeConstants, NEW l, NEW r, NEW w, NEW m, MergesTo(l, r, w, m)
    PROVE  /\ m \in Databases /\ Rooted(m.kids)
           /\ Merge!Alive(m) = Left(w) /\ Left(w) \subseteq Merge!Alive(l) \cup Merge!Alive(r)
           /\ \A g \in ReplicaGroups : m.kids[g] = IF g \in Left(w) THEN w.kids[g] ELSE {}
           /\ \A x \in Nodes : m.item[x] = Cleared(ItemLeft(w, x))
<1>0. /\ l \in Databases /\ r \in Databases /\ Rooted(l.kids) /\ Rooted(r.kids)
      /\ w \in Walks /\ \A g \in ReplicaGroups : w.kids[g] \subseteq l.kids[g] \cup r.kids[g]
      /\ m = Merge!Settled(Merge!Merge(l, r, w))
    BY DEF MergesTo, Walked, Walking
<1>1. PICK kids : kids = [g \in ReplicaGroups |-> IF g \in Left(w) THEN w.kids[g] ELSE {}]
    OBVIOUS
<1>2. PICK item : item = [x \in Nodes |-> ItemLeft(w, x)]
    OBVIOUS
<1>3. PICK d : d = Merge!Merge(l, r, w)
    OBVIOUS
<1>4. d = [kids |-> kids, item |-> item, dead |-> l.dead \cup r.dead,
           name |-> IF r.name > l.name THEN r.name ELSE l.name]
    BY <1>1, <1>2, <1>3, MergeIs
<1>5. kids \in KidSets
    BY <1>0, <1>1, LeftIs DEF KidSets
<1>6. item \in [Nodes -> Items]
    BY <1>0, <1>2, LeftItem
<1>7. d \in Databases
    BY <1>0, <1>4, <1>5, <1>6 DEF Databases
<1>8. /\ m.kids = d.kids /\ m \in Databases
      /\ \A x \in Nodes : m.item[x] = Cleared(d.item[x])
    <2>1. m = Merge!Settled(d)
        BY <1>0, <1>3
    <2> QED BY <1>7, <2>1, SettledIs
<1>8a. m.kids = kids /\ d.item = item
    BY <1>4, <1>8
<1>9. \A x \in Nodes : m.item[x] = Cleared(ItemLeft(w, x))
    BY <1>2, <1>8, <1>8a
<1> DEFINE T == Merge!Below(kids, Root)
<1>10. /\ T \subseteq Nodes /\ Root \in T
       /\ \A g \in T \cap ReplicaGroups : kids[g] \subseteq T
    <2>1. Root \in Nodes
        BY DEF MergeConstants, Nodes, Merge!Objects
    <2> QED BY <1>5, <2>1, BelowIs
<1> HIDE DEF T
<1>11. Left(w) \subseteq T
    <2>1. Root \in T \cap Left(w)
        BY <1>0, <1>10, LeftIs
    <2>2. ASSUME NEW g \in (T \cap Left(w)) \cap ReplicaGroups
          PROVE  w.kids[g] \subseteq T \cap Left(w)
        <3>1. kids[g] = w.kids[g]
            BY <1>1
        <3> QED BY <1>0, <1>10, <3>1, LeftIs
    <2>3. Left(w) \subseteq T \cap Left(w)
        BY <2>1, <2>2, LeastBelow DEF Left
    <2> QED BY <2>3
<1>12. T \subseteq Left(w)
    <2>1. \A g \in Left(w) \cap ReplicaGroups : kids[g] \subseteq Left(w)
        BY <1>0, <1>1, LeftIs
    <2>2. Root \in Left(w)
        BY <1>0, LeftIs
    <2> QED BY <2>1, <2>2, LeastBelow DEF T
<1>13. Rooted(kids)
    <2>1. \A g \in ReplicaGroups : kids[g] \subseteq l.kids[g] \cup r.kids[g]
        BY <1>0, <1>1
    <2>2. \A g \in ReplicaGroups : Root \notin kids[g]
        BY <1>0, <2>1 DEF Rooted
    <2>3. \A g \in ReplicaGroups : kids[g] # {} => g \in T
        BY <1>1, <1>11
    <2> QED BY <2>2, <2>3 DEF Rooted, T
<1>14. Merge!Alive(m) = Left(w)
    <2>1. m.kids \in KidSets /\ Rooted(m.kids)
        BY <1>5, <1>13, <1>8a
    <2>2. Merge!Alive(m) = Merge!Below(m.kids, Root)
        BY <2>1, AliveIsBelow
    <2> QED BY <1>11, <1>12, <1>8a, <2>2 DEF T
<1>15. Merge!Alive(m) \subseteq Merge!Alive(l) \cup Merge!Alive(r)
    <2>1. \A g \in ReplicaGroups : m.kids[g] \subseteq l.kids[g] \cup r.kids[g]
        BY <1>0, <1>1, <1>8a
    <2> QED BY <2>1 DEF Merge!Alive
<1> QED BY <1>1, <1>8, <1>9, <1>13, <1>14, <1>15, <1>8a

-----------------------------------------------------------------------------
(* KdbxMerge: what both agree on stays where it is.                        *)

LEMMA AliveKids ==
    ASSUME NEW db, NEW g \in ReplicaGroups
    PROVE  db.kids[g] \subseteq Merge!Alive(db)
BY DEF Merge!Alive

\* No other group has it, in the merge as on both sides.
LEMMA HeldHere ==
    ASSUME MergeConstants, NEW l \in Databases, NEW r \in Databases, NEW m,
           \A h \in ReplicaGroups : m.kids[h] \subseteq l.kids[h] \cup r.kids[h],
           NEW g \in ReplicaGroups, NEW y \in m.kids[g],
           \A h \in ReplicaGroups : y \in l.kids[h] \cup r.kids[h] => h = g
    PROVE  Merge!Holders(m, y) = {g}
BY DEF Merge!Holders

\* A child of a group keeps its place when neither side has deleted it and both, or the
\* only side that has it, have it there, if the group is met or was here before.
LEMMA SureStays ==
    ASSUME NEW l, NEW r, NEW w, NEW m, MergesTo(l, r, w, m), NEW g \in ReplicaGroups, NEW y \in Nodes,
           y \notin l.dead \cup r.dead,
           \/ y \in l.kids[g] /\ (y \in r.kids[g] \/ y \notin Merge!Alive(r))
           \/ g \in w.met /\ y \in r.kids[g] /\ (y \in l.kids[g] \/ y \notin Merge!Alive(l))
    PROVE  y \in w.kids[g]
<1>1. /\ g \notin w.met => w.kids[g] = l.kids[g]
      /\ g \in w.met => Sure(l, r, g) \subseteq w.kids[g]
    BY DEF MergesTo, Walked, Walking
<1> QED BY <1>1 DEF Sure

\* What is in a group that is met, and what the remote database has too, is met.
LEMMA MetBelow ==
    ASSUME NEW l, NEW r, NEW w, NEW m, MergesTo(l, r, w, m), NEW g \in w.met \cap ReplicaGroups,
           NEW y \in w.kids[g] \cap Merge!Alive(r)
    PROVE  y \in w.met
<1>1. ~OnWay(w, g)
    BY DEF MergesTo, Walked, OnWay
<1> QED BY <1>1 DEF MergesTo, Walked, Walking, Done

LEMMA MergeKeepsLocal ==
    ASSUME MergeConstants, NEW l, NEW r, NEW w, NEW m, MergesTo(l, r, w, m), NEW x \in Merge!Alive(l)
    PROVE  Merge!Kept(l, r, m, x)
<1> SUFFICES ASSUME Merge!Agreed(l, r, x)
             PROVE  x \in Merge!Alive(m) /\ Merge!Holders(m, x) = Merge!Holders(l, x)
    BY DEF Merge!Kept
<1>0. /\ l \in Databases /\ r \in Databases /\ Rooted(l.kids) /\ Rooted(r.kids)
      /\ Merge!Sound(l) /\ Merge!Sound(r) /\ l.kids \in KidSets /\ Root \in Nodes
      /\ w \in Walks /\ Root \in w.met
    BY DEF MergesTo, Walked, Walking, Databases, MergeConstants, Nodes, Merge!Objects
<1>1. /\ Merge!Alive(m) = Left(w)
      /\ \A g \in ReplicaGroups : m.kids[g] = IF g \in Left(w) THEN w.kids[g] ELSE {}
    BY MergeKeepsRooted
<1>2. \A g \in ReplicaGroups : m.kids[g] \subseteq l.kids[g] \cup r.kids[g]
    BY <1>1 DEF MergesTo, Walked, Walking
<1> DEFINE OnPath(y) == y \in Merge!Alive(l) /\ x \in Merge!Below(l.kids, y)
           P(y) == /\ y \in Left(w) /\ Merge!Holders(m, y) = Merge!Holders(l, y)
                   /\ y \in Merge!Alive(r) => y \in w.met
           S == {y \in Nodes : OnPath(y) => P(y)}
<1>3. \A y : OnPath(y) => /\ y \notin l.dead \cup r.dead
                          /\ y \in Merge!Alive(r) => Merge!Holders(r, y) = Merge!Holders(l, y)
    BY DEF Merge!Agreed
<1>4. Root \in S
    <2>1. Root \in Left(w) /\ Root \in w.met
        BY <1>0, LeftIs
    <2>2. \A g \in ReplicaGroups : Root \notin l.kids[g] /\ Root \notin r.kids[g]
        BY <1>0 DEF Rooted
    <2>3. Merge!Holders(m, Root) = {} /\ Merge!Holders(l, Root) = {}
        BY <1>2, <2>2 DEF Merge!Holders
    <2> QED BY <1>0, <2>1, <2>3
<1>5. ASSUME NEW g \in S \cap ReplicaGroups, NEW y \in l.kids[g]
      PROVE  y \in S
    <2>1. g \in Nodes /\ y \in Nodes /\ y \in Merge!Alive(l)
        BY <1>0, AliveKids DEF KidSets, Nodes, Merge!Objects
    <2> SUFFICES ASSUME OnPath(y) PROVE P(y)
        BY <2>1
    <2>2. y \notin l.dead \cup r.dead /\ (y \in Merge!Alive(r) => Merge!Holders(r, y) = Merge!Holders(l, y))
        BY <1>3
    <2>3. P(g)
        <3>1. g \in Merge!Alive(l)
            BY <1>0, AliveIsBelow DEF Rooted
        <3>2. y \in Merge!Below(l.kids, g)
            BY <1>0, <2>1, BelowIs
        <3>3. x \in Merge!Below(l.kids, g)
            BY <1>0, <2>1, <3>2, BelowBelow
        <3> QED BY <3>1, <3>3
    <2>4. \A h \in ReplicaGroups : y \in l.kids[h] => h = g
        BY <1>0, <2>1, OneHolder
    <2>5. CASE y \notin Merge!Alive(r)
        <3>1. y \in w.kids[g]
            BY <2>1, <2>2, <2>5, SureStays
        <3>2. y \in m.kids[g]
            BY <1>1, <2>3, <3>1
        <3>3. y \in Left(w)
            BY <1>0, <2>3, <3>1, LeftIs
        <3>4. \A h \in ReplicaGroups : y \in l.kids[h] \cup r.kids[h] => h = g
            BY <2>4, <2>5, AliveKids
        <3>5. Merge!Holders(m, y) = {g}
            BY <1>0, <1>2, <3>2, <3>4, HeldHere
        <3>6. Merge!Holders(l, y) = {g}
            BY <2>4 DEF Merge!Holders
        <3> QED BY <2>5, <3>3, <3>5, <3>6
    <2>6. CASE y \in Merge!Alive(r)
        <3>1. \A h \in ReplicaGroups : y \in r.kids[h] <=> y \in l.kids[h]
            BY <2>2, <2>6, HoldersAre
        <3>2. y \in r.kids[g]
            BY <3>1
        <3>3. g \in Merge!Alive(r)
            BY <1>0, <3>2, AliveIsBelow DEF Rooted, Databases
        <3>4. g \in w.met
            BY <2>3, <3>3
        <3>5. y \in w.kids[g]
            BY <2>1, <2>2, <3>2, SureStays
        <3>6. y \in w.met
            BY <2>6, <3>4, <3>5, MetBelow
        <3>7. y \in m.kids[g]
            BY <1>1, <2>3, <3>5
        <3>8. y \in Left(w)
            BY <1>0, <2>3, <3>5, LeftIs
        <3>9. \A h \in ReplicaGroups : y \in l.kids[h] \cup r.kids[h] => h = g
            BY <2>4, <3>1
        <3>10. Merge!Holders(m, y) = {g}
            BY <1>0, <1>2, <3>7, <3>9, HeldHere
        <3>11. Merge!Holders(l, y) = {g}
            BY <2>4 DEF Merge!Holders
        <3> QED BY <3>6, <3>8, <3>10, <3>11
    <2> QED BY <2>5, <2>6
<1>6. Merge!Below(l.kids, Root) \subseteq S
    <2>1. \A g \in S \cap ReplicaGroups : l.kids[g] \subseteq S
        BY <1>5
    <2> HIDE DEF S
    <2> QED BY <1>4, <2>1, LeastBelow
<1>7. x \in S
    BY <1>0, <1>6, AliveIsBelow
<1>8. OnPath(x)
    BY <1>0, <1>7, BelowIs
<1> QED BY <1>1, <1>7, <1>8

LEMMA MergeKeepsRemote ==
    ASSUME MergeConstants, NEW l, NEW r, NEW w, NEW m, MergesTo(l, r, w, m), NEW x \in Merge!Alive(r)
    PROVE  Merge!Kept(r, l, m, x)
<1> SUFFICES ASSUME Merge!Agreed(r, l, x)
             PROVE  x \in Merge!Alive(m) /\ Merge!Holders(m, x) = Merge!Holders(r, x)
    BY DEF Merge!Kept
<1>0. /\ l \in Databases /\ r \in Databases /\ Rooted(l.kids) /\ Rooted(r.kids)
      /\ Merge!Sound(l) /\ Merge!Sound(r) /\ r.kids \in KidSets /\ Root \in Nodes
      /\ w \in Walks /\ Root \in w.met
    BY DEF MergesTo, Walked, Walking, Databases, MergeConstants, Nodes, Merge!Objects
<1>1. /\ Merge!Alive(m) = Left(w)
      /\ \A g \in ReplicaGroups : m.kids[g] = IF g \in Left(w) THEN w.kids[g] ELSE {}
    BY MergeKeepsRooted
<1>2. \A g \in ReplicaGroups : m.kids[g] \subseteq l.kids[g] \cup r.kids[g]
    BY <1>1 DEF MergesTo, Walked, Walking
<1> DEFINE OnPath(y) == y \in Merge!Alive(r) /\ x \in Merge!Below(r.kids, y)
           P(y) == y \in Left(w) /\ y \in w.met /\ Merge!Holders(m, y) = Merge!Holders(r, y)
           S == {y \in Nodes : OnPath(y) => P(y)}
<1>3. \A y : OnPath(y) => /\ y \notin l.dead \cup r.dead
                          /\ y \in Merge!Alive(l) => Merge!Holders(l, y) = Merge!Holders(r, y)
    BY DEF Merge!Agreed
<1>4. Root \in S
    <2>1. Root \in Left(w) /\ Root \in w.met
        BY <1>0, LeftIs
    <2>2. \A g \in ReplicaGroups : Root \notin l.kids[g] /\ Root \notin r.kids[g]
        BY <1>0 DEF Rooted
    <2>3. Merge!Holders(m, Root) = {} /\ Merge!Holders(r, Root) = {}
        BY <1>2, <2>2 DEF Merge!Holders
    <2> QED BY <1>0, <2>1, <2>3
<1>5. ASSUME NEW g \in S \cap ReplicaGroups, NEW y \in r.kids[g]
      PROVE  y \in S
    <2>1. g \in Nodes /\ y \in Nodes /\ y \in Merge!Alive(r)
        BY <1>0, AliveKids DEF KidSets, Nodes, Merge!Objects
    <2> SUFFICES ASSUME OnPath(y) PROVE P(y)
        BY <2>1
    <2>2. y \notin l.dead \cup r.dead /\ (y \in Merge!Alive(l) => Merge!Holders(l, y) = Merge!Holders(r, y))
        BY <1>3
    <2>3. g \in Merge!Alive(r)
        BY <1>0, AliveIsBelow DEF Rooted
    <2>4. P(g)
        <3>1. y \in Merge!Below(r.kids, g)
            BY <1>0, <2>1, BelowIs
        <3>2. x \in Merge!Below(r.kids, g)
            BY <1>0, <2>1, <3>1, BelowBelow
        <3> QED BY <2>3, <3>2
    <2>5. \A h \in ReplicaGroups : y \in r.kids[h] => h = g
        BY <1>0, <2>1, OneHolder
    <2>6. \A h \in ReplicaGroups : y \in l.kids[h] => y \in r.kids[h]
        BY <2>2, HoldersAre, AliveKids
    <2>7. y \in l.kids[g] \/ y \notin Merge!Alive(l)
        BY <2>2, HoldersAre
    <2>8. y \in w.kids[g]
        BY <2>1, <2>2, <2>4, <2>7, SureStays
    <2>9. y \in w.met
        BY <2>1, <2>4, <2>8, MetBelow
    <2>10. y \in m.kids[g] /\ y \in Left(w)
        BY <1>0, <1>1, <2>4, <2>8, LeftIs
    <2>11. \A h \in ReplicaGroups : y \in l.kids[h] \cup r.kids[h] => h = g
        BY <2>5, <2>6
    <2>12. Merge!Holders(m, y) = {g}
        BY <1>0, <1>2, <2>10, <2>11, HeldHere
    <2>13. Merge!Holders(r, y) = {g}
        BY <2>5 DEF Merge!Holders
    <2> QED BY <2>9, <2>10, <2>12, <2>13
<1>6. Merge!Below(r.kids, Root) \subseteq S
    <2>1. \A g \in S \cap ReplicaGroups : r.kids[g] \subseteq S
        BY <1>5
    <2> HIDE DEF S
    <2> QED BY <1>4, <2>1, LeastBelow
<1>7. x \in S
    BY <1>0, <1>6, AliveIsBelow
<1>8. OnPath(x)
    BY <1>0, <1>7, BelowIs
<1> QED BY <1>1, <1>7, <1>8

-----------------------------------------------------------------------------
(* KdbxMerge: the changes a site makes.                                    *)

MergeTyped ==
    /\ replica \in [Twins -> Databases] /\ upstream \in Databases /\ ticks \in Nat
    /\ born \subseteq Nodes /\ Root \in born /\ known \subseteq born /\ missed \subseteq known
    /\ walk # None => /\ walk.site \in Twins
                      /\ Merge!Sound(replica[walk.site]) /\ Merge!Sound(upstream)
                      /\ Walking(replica[walk.site], upstream, walk) /\ Root \in walk.met

MergeHung ==
    /\ \A s \in Twins : Rooted(replica[s].kids) /\ Merge!Alive(replica[s]) \subseteq born
    /\ Rooted(upstream.kids) /\ Merge!Alive(upstream) \subseteq known

\* What a change does to the versions of an entry.
Untouched(i, j) == j.mod = i.mod /\ j.hist = i.hist /\ j.added = i.added /\ j.gone = i.gone
NewVersion(i, j) ==
    /\ j.mod = ticks + 1 /\ j.gone = i.gone
    /\ j.hist = i.hist \cup {i.mod} /\ j.added = i.added \cup {i.mod}
NewEntry(j) == j.mod = ticks + 1 /\ j.hist = {} /\ j.gone = {}

Changed(s, db) ==
    /\ walk = None /\ Merge!Change(s, db)
    /\ db \in Databases /\ Rooted(db.kids)
    /\ born \subseteq born' /\ born' \subseteq Nodes
    /\ Merge!Alive(db) \subseteq Merge!Alive(replica[s]) \cup (born' \ born)
    /\ \A x \in ReplicaEntries : \/ Untouched(replica[s].item[x], db.item[x])
                                 \/ NewVersion(replica[s].item[x], db.item[x])
                                 \/ x \notin born /\ NewEntry(db.item[x])

LEMMA CreateChanges ==
    ASSUME MergeConstants, MergeTyped, MergeHung, NEW s \in Twins, NEW x \in Nodes, NEW g \in ReplicaGroups,
           walk = None, Merge!Create(s, x, g)
    PROVE  \E db : Changed(s, db)
<1>1. PICK l : l = replica[s]
    OBVIOUS
<1>2. l \in Databases /\ Rooted(l.kids) /\ Merge!Alive(l) \subseteq born /\ l.kids \in KidSets
    BY <1>1 DEF MergeTyped, MergeHung, Databases
<1>3. x \notin born /\ g \in Merge!Alive(l) /\ born' = born \cup {x} /\ x # Root
    BY <1>1 DEF Merge!Create, Merge!GroupsOf, MergeTyped
<1>4. PICK put : put = Merge!PutIn(l.kids, g, x)
    OBVIOUS
<1>5. PICK new : new = [Merge!Fresh EXCEPT !.mod = ticks + 1, !.loc = ticks + 1]
    OBVIOUS
<1>6. new \in Items /\ NewEntry(new)
    <2>1. ticks + 1 \in Nat
        BY DEF MergeTyped
    <2> QED BY <1>5, <2>1 DEF Merge!Fresh, Items, NewEntry
<1>7. PICK db : db = [l EXCEPT !.kids = put, !.item[x] = new]
    OBVIOUS
<1>8. Merge!Change(s, db)
    BY <1>1, <1>4, <1>5, <1>7 DEF Merge!Create, Merge!Now
<1>9. Merge!Alive(l) = Merge!Below(l.kids, Root)
    BY <1>2, AliveIsBelow
<1>10. g \notin Merge!Below(l.kids, x)
    <2>1. \A h \in {x} \cap ReplicaGroups : l.kids[h] \subseteq {x}
        BY <1>2, <1>3, <1>9 DEF Rooted
    <2>2. Merge!Below(l.kids, x) \subseteq {x}
        BY <2>1, LeastBelow
    <2> QED BY <1>2, <1>3, <2>2
<1>11. put \in KidSets /\ Rooted(put) /\ \A h \in ReplicaGroups : put[h] \subseteq l.kids[h] \cup {x}
    BY <1>2, <1>3, <1>4, <1>9, <1>10, PutKeepsRooted
<1>12. /\ db.kids = put /\ db \in Databases
       /\ \A y \in Nodes : db.item[y] = IF y = x THEN new ELSE l.item[y]
    BY <1>2, <1>6, <1>7, <1>11 DEF Databases
<1>13. Merge!Alive(db) \subseteq Merge!Alive(l) \cup {x}
    BY <1>11, <1>12 DEF Merge!Alive
<1>14. \A y \in ReplicaEntries : Untouched(l.item[y], db.item[y]) \/ (y \notin born /\ NewEntry(db.item[y]))
    BY <1>3, <1>6, <1>12 DEF Untouched, Nodes, Merge!Objects
<1> QED BY <1>1, <1>3, <1>8, <1>11, <1>12, <1>13, <1>14 DEF Changed, MergeTyped

LEMMA MoveChanges ==
    ASSUME MergeConstants, MergeTyped, MergeHung, NEW s \in Twins, NEW x \in Nodes, NEW g \in ReplicaGroups,
           walk = None, Merge!Move(s, x, g)
    PROVE  \E db : Changed(s, db)
<1>1. PICK l : l = replica[s]
    OBVIOUS
<1>2. l \in Databases /\ Rooted(l.kids) /\ l.kids \in KidSets
    BY <1>1 DEF MergeTyped, MergeHung, Databases
<1>3. x \in Merge!Alive(l) \ {Root} /\ g \in Merge!Alive(l) /\ g \notin Merge!Below(l.kids, x) /\ born' = born
    BY <1>1 DEF Merge!Move, Merge!GroupsOf
<1>4. PICK put : put = Merge!PutIn(l.kids, g, x)
    OBVIOUS
<1>5. PICK db : db = [l EXCEPT !.kids = put, !.item[x].loc = ticks + 1]
    OBVIOUS
<1>6. Merge!Change(s, db)
    BY <1>1, <1>4, <1>5 DEF Merge!Move, Merge!Now
<1>7. Merge!Alive(l) = Merge!Below(l.kids, Root)
    BY <1>2, AliveIsBelow
<1>8. put \in KidSets /\ Rooted(put) /\ \A h \in ReplicaGroups : put[h] \subseteq l.kids[h] \cup {x}
    BY <1>2, <1>3, <1>4, <1>7, PutKeepsRooted
<1>9. PICK new : new = [l.item[x] EXCEPT !.loc = ticks + 1]
    OBVIOUS
<1>10. new \in Items /\ Untouched(l.item[x], new)
    <2>1. ticks + 1 \in Nat
        BY DEF MergeTyped
    <2>2. l.item[x] \in Items
        BY <1>2 DEF Databases
    <2> QED BY <1>9, <2>1, <2>2 DEF Items, Untouched
<1>11. /\ db.kids = put /\ db \in Databases
       /\ \A y \in Nodes : db.item[y] = IF y = x THEN new ELSE l.item[y]
    BY <1>2, <1>5, <1>8, <1>9, <1>10 DEF Databases
<1>12. Merge!Alive(db) \subseteq Merge!Alive(l)
    BY <1>3, <1>8, <1>11 DEF Merge!Alive
<1>13. \A y \in ReplicaEntries : Untouched(l.item[y], db.item[y])
    BY <1>10, <1>11 DEF Untouched, Nodes, Merge!Objects
<1> QED BY <1>1, <1>3, <1>6, <1>8, <1>11, <1>12, <1>13 DEF Changed, MergeTyped

LEMMA DeleteChanges ==
    ASSUME MergeConstants, MergeTyped, MergeHung, NEW s \in Twins, NEW x \in Nodes,
           walk = None, Merge!Delete(s, x)
    PROVE  \E db : Changed(s, db)
<1>1. PICK l : l = replica[s]
    OBVIOUS
<1>2. l \in Databases /\ Rooted(l.kids) /\ l.kids \in KidSets
    BY <1>1 DEF MergeTyped, MergeHung, Databases
<1>3. PICK lost : lost = Merge!Below(l.kids, x)
    OBVIOUS
<1>4. PICK cut : cut = [g \in ReplicaGroups |-> IF g \in lost THEN {} ELSE l.kids[g] \ {x}]
    OBVIOUS
<1>5. PICK db : db = [l EXCEPT !.dead = l.dead \cup lost, !.kids = cut]
    OBVIOUS
<1>6. Merge!Change(s, db) /\ born' = born
    BY <1>1, <1>3, <1>4, <1>5 DEF Merge!Delete
<1>7. cut \in KidSets /\ Rooted(cut) /\ \A h \in ReplicaGroups : cut[h] \subseteq l.kids[h]
    BY <1>2, <1>3, <1>4, CutKeepsRooted
<1>8. lost \subseteq Nodes
    BY <1>2, <1>3, BelowIs
<1>9. db.kids = cut /\ db \in Databases /\ db.item = l.item
    BY <1>2, <1>5, <1>7, <1>8 DEF Databases
<1>10. Merge!Alive(db) \subseteq Merge!Alive(l)
    BY <1>7, <1>9 DEF Merge!Alive
<1> QED BY <1>1, <1>6, <1>7, <1>9, <1>10 DEF Changed, MergeTyped, Untouched

LEMMA EditEntryChanges ==
    ASSUME MergeConstants, MergeTyped, MergeHung, NEW s \in Twins, NEW x \in Nodes,
           walk = None, Merge!EditEntry(s, x)
    PROVE  \E db : Changed(s, db)
<1>1. PICK l : l = replica[s]
    OBVIOUS
<1>2. l \in Databases /\ Rooted(l.kids)
    BY <1>1 DEF MergeTyped, MergeHung
<1>3. PICK new : new = [Merge!Pushed(l.item[x]) EXCEPT !.mod = ticks + 1]
    OBVIOUS
<1>4. new \in Items /\ NewVersion(l.item[x], new)
    <2>1. ticks + 1 \in Nat
        BY DEF MergeTyped
    <2>2. l.item[x] \in Items
        BY <1>2 DEF Databases
    <2> QED BY <1>3, <2>1, <2>2 DEF Merge!Pushed, Items, NewVersion
<1>5. PICK db : db = [l EXCEPT !.item[x] = new]
    OBVIOUS
<1>6. Merge!Change(s, db) /\ born' = born
    BY <1>1, <1>3, <1>5 DEF Merge!EditEntry, Merge!Now
<1>7. /\ db.kids = l.kids /\ db \in Databases
      /\ \A y \in Nodes : db.item[y] = IF y = x THEN new ELSE l.item[y]
    BY <1>2, <1>4, <1>5 DEF Databases
<1>8. Merge!Alive(db) = Merge!Alive(l)
    BY <1>7 DEF Merge!Alive
<1>9. \A y \in ReplicaEntries : Untouched(l.item[y], db.item[y]) \/ NewVersion(l.item[y], db.item[y])
    BY <1>4, <1>7 DEF Untouched, Nodes, Merge!Objects
<1> QED BY <1>1, <1>2, <1>6, <1>7, <1>8, <1>9 DEF Changed, MergeTyped

LEMMA RenameGroupChanges ==
    ASSUME MergeConstants, MergeTyped, MergeHung, NEW s \in Twins, NEW x \in Nodes,
           walk = None, Merge!RenameGroup(s, x)
    PROVE  \E db : Changed(s, db)
<1>1. PICK l : l = replica[s]
    OBVIOUS
<1>2. l \in Databases /\ Rooted(l.kids)
    BY <1>1 DEF MergeTyped, MergeHung
<1>3. PICK new : new = [l.item[x] EXCEPT !.mod = ticks + 1]
    OBVIOUS
<1>4. new \in Items
    <2>1. ticks + 1 \in Nat
        BY DEF MergeTyped
    <2>2. l.item[x] \in Items
        BY <1>2 DEF Databases
    <2> QED BY <1>3, <2>1, <2>2 DEF Items
<1>5. PICK db : db = [l EXCEPT !.item[x].mod = ticks + 1]
    OBVIOUS
<1>6. Merge!Change(s, db) /\ born' = born /\ x \in ReplicaGroups
    BY <1>1, <1>5 DEF Merge!RenameGroup, Merge!Now, Merge!GroupsOf
<1>7. /\ db.kids = l.kids /\ db \in Databases
      /\ \A y \in Nodes : db.item[y] = IF y = x THEN new ELSE l.item[y]
    BY <1>2, <1>3, <1>4, <1>5 DEF Databases
<1>8. Merge!Alive(db) = Merge!Alive(l)
    BY <1>7 DEF Merge!Alive
<1>9. \A y \in ReplicaEntries : Untouched(l.item[y], db.item[y])
    BY <1>6, <1>7 DEF Untouched, Nodes, Merge!Objects, MergeConstants
<1> QED BY <1>1, <1>2, <1>6, <1>7, <1>8, <1>9 DEF Changed, MergeTyped

LEMMA RenameDatabaseChanges ==
    ASSUME MergeConstants, MergeTyped, MergeHung, NEW s \in Twins, walk = None, Merge!RenameDatabase(s)
    PROVE  \E db : Changed(s, db)
<1>1. PICK l : l = replica[s]
    OBVIOUS
<1>2. l \in Databases /\ Rooted(l.kids)
    BY <1>1 DEF MergeTyped, MergeHung
<1>3. PICK db : db = [l EXCEPT !.name = ticks + 1]
    OBVIOUS
<1>4. Merge!Change(s, db) /\ born' = born
    BY <1>1, <1>3 DEF Merge!RenameDatabase, Merge!Now
<1>5. db.kids = l.kids /\ db \in Databases /\ db.item = l.item
    BY <1>2, <1>3 DEF Databases, MergeTyped
<1>6. Merge!Alive(db) = Merge!Alive(l)
    BY <1>5 DEF Merge!Alive
<1> QED BY <1>1, <1>2, <1>4, <1>5, <1>6 DEF Changed, MergeTyped, Untouched

\* A step of a merge before its last.
WalkStep ==
    \/ \E s \in Twins : Merge!BeginMerge(s)
    \/ \E g \in ReplicaGroups : Merge!MergeSubgroup(g)
    \/ Merge!MergeEntries

LEMMA NextChanges ==
    ASSUME MergeConstants, MergeTyped, MergeHung, Merge!Next
    PROVE  WalkStep \/ Merge!EndMerge \/ \E s \in Twins : \E db : Changed(s, db)
<1>1. ASSUME NEW s \in Twins, walk = None,
             \/ \E x \in Nodes :
                 \/ Merge!EditEntry(s, x) \/ Merge!RenameGroup(s, x) \/ Merge!Delete(s, x)
                 \/ \E g \in ReplicaGroups : Merge!Create(s, x, g) \/ Merge!Move(s, x, g)
             \/ Merge!RenameDatabase(s)
      PROVE  \E db : Changed(s, db)
    BY <1>1, CreateChanges, MoveChanges, DeleteChanges, EditEntryChanges, RenameGroupChanges,
       RenameDatabaseChanges
<1> QED BY <1>1 DEF Merge!Next, Nodes, WalkStep

-----------------------------------------------------------------------------
(* KdbxMerge: the invariant of the trees, and what a merge does to them.   *)

LEMMA WalkGoesOn ==
    ASSUME MergeConstants, MergeTyped, WalkStep
    PROVE  UNCHANGED <<replica, upstream, ticks, born, known, missed>> /\ walk' \in Walks /\ MergeTyped'
<1>0. UNCHANGED <<replica, upstream, ticks, born, known, missed>>
    BY DEF WalkStep, Merge!BeginMerge, Merge!MergeSubgroup, Merge!MergeEntries
<1> DEFINE Goes(l, r) == /\ walk'.site \in Twins /\ l = replica[walk'.site] /\ r = upstream
                         /\ Merge!Sound(l) /\ Merge!Sound(r)
                         /\ Walking(l, r, walk') /\ Root \in walk'.met
<1>1. SUFFICES \E l, r : Goes(l, r)
    <2>1. PICK l, r : Goes(l, r)
        BY <1>1
    <2>2. walk' \in Walks
        BY <2>1 DEF Walking
    <2>3. /\ walk'.site \in Twins /\ Merge!Sound(replica'[walk'.site]) /\ Merge!Sound(upstream')
          /\ Walking(replica'[walk'.site], upstream', walk') /\ Root \in walk'.met
        BY <1>0, <2>1
    <2>4. MergeTyped'
        BY <1>0, <2>3 DEF MergeTyped
    <2> QED BY <1>0, <2>2, <2>4
<1>2. ASSUME NEW s \in Twins, Merge!BeginMerge(s)
      PROVE  \E l, r : Goes(l, r)
    <2>1. PICK l \in Databases, r \in Databases : l = replica[s] /\ r = upstream
        BY DEF MergeTyped
    <2>2. Merge!Sound(l) /\ Merge!Sound(r)
        BY <1>2, <2>1 DEF Merge!BeginMerge
    <2>3. walk' = Merge!MergeInto(l, r, [site |-> s, kids |-> l.kids, item |-> l.item,
                                         path |-> <<>>, met |-> {}], Root)
        BY <1>2, <2>1 DEF Merge!BeginMerge
    <2>4. Walking(l, r, walk') /\ walk'.site = s /\ Root \in walk'.met
        BY <2>2, <2>3, WalkBegins
    <2> QED BY <2>1, <2>2, <2>4
<1>3. ASSUME walk # None
      PROVE  \E l \in Databases, r \in Databases :
                /\ walk.site \in Twins /\ l = replica[walk.site] /\ r = upstream
                /\ Merge!Sound(l) /\ Merge!Sound(r) /\ Walking(l, r, walk) /\ Root \in walk.met
    BY <1>3 DEF MergeTyped
<1>4. ASSUME NEW g \in ReplicaGroups, Merge!MergeSubgroup(g)
      PROVE  \E l, r : Goes(l, r)
    <2>1. walk # None /\ walk.path # <<>> /\ g \in Merge!ToMerge(ReplicaGroups)
        BY <1>4 DEF Merge!MergeSubgroup
    <2>2. PICK l \in Databases, r \in Databases :
                /\ walk.site \in Twins /\ l = replica[walk.site] /\ r = upstream
                /\ Merge!Sound(l) /\ Merge!Sound(r) /\ Walking(l, r, walk) /\ Root \in walk.met
        BY <1>3, <2>1
    <2>3. walk' = Merge!MergeInto(l, r, walk, g)
        BY <1>4, <2>2 DEF Merge!MergeSubgroup, Merge!Local
    <2>4. PICK here : here = walk.path[Len(walk.path)]
        OBVIOUS
    <2>5. g \in walk.kids[here] /\ g \in Merge!Alive(r) /\ g \notin walk.met
        BY <2>1, <2>2, <2>4 DEF Merge!ToMerge, Merge!Here
    <2>6. here \in ReplicaGroups /\ here \in walk.met
        BY <2>1, <2>2, <2>4, LastIsMet
    <2>7. Walking(l, r, walk') /\ walk'.site = walk.site /\ walk'.met = walk.met \cup {g}
        BY <2>2, <2>3, <2>5, <2>6, IntoWalks
    <2> QED BY <2>2, <2>7
<1>5. CASE Merge!MergeEntries
    <2>1. walk # None /\ walk.path # <<>> /\ Merge!ToMerge(ReplicaGroups) = {}
        BY <1>5 DEF Merge!MergeEntries
    <2>2. PICK l \in Databases, r \in Databases :
                /\ walk.site \in Twins /\ l = replica[walk.site] /\ r = upstream
                /\ Merge!Sound(l) /\ Merge!Sound(r) /\ Walking(l, r, walk) /\ Root \in walk.met
        BY <1>3, <2>1
    <2>3. PICK here, S : /\ here = walk.path[Len(walk.path)]
                         /\ S = (walk.kids[here] \cap ReplicaEntries \cap Merge!Alive(r)) \ walk.met
        OBVIOUS
    <2>4. /\ Merge!ToMerge(ReplicaEntries) = S
          /\ (walk.kids[here] \cap ReplicaGroups \cap Merge!Alive(r)) \ walk.met = {}
        BY <2>1, <2>2, <2>3 DEF Merge!ToMerge, Merge!Here
    <2>5. walk' = EntriesMet(r, walk, S)
        <3>1. walk \in Walks
            BY <2>2 DEF Walking
        <3> QED BY <1>5, <2>2, <2>4, <3>1 DEF Merge!MergeEntries, Nodes, Walks, EntriesMet
    <2>6. Walking(l, r, walk') /\ walk'.site = walk.site /\ walk.met \subseteq walk'.met
        <3>1. PICK w, v : w = walk /\ v = walk'
            OBVIOUS
        <3>2. Walking(l, r, v) /\ v.site = w.site /\ w.met \subseteq v.met
            BY <2>1, <2>2, <2>3, <2>4, <2>5, <3>1, EntriesWalk
        <3> QED BY <3>1, <3>2
    <2> QED BY <2>2, <2>6
<1> QED BY <1>2, <1>4, <1>5 DEF WalkStep

LEMMA EndIs ==
    ASSUME MergeConstants, MergeTyped, MergeHung, Merge!EndMerge
    PROVE  /\ walk.site \in Twins
           /\ MergesTo(replica[walk.site], upstream, walk, upstream')
           /\ \A z \in Twins : replica'[z] = IF z = walk.site THEN upstream' ELSE replica[z]
           /\ replica' \in [Twins -> Databases] /\ UNCHANGED <<ticks, born>> /\ walk' = None
           /\ known' = known \cup Merge!Alive(upstream')
           /\ missed' = missed \cup (known \cap (Merge!Alive(upstream') \ walk.met))
           /\ upstream' \in Databases /\ Rooted(upstream'.kids)
           /\ Merge!Alive(upstream') \subseteq Merge!Alive(replica[walk.site]) \cup Merge!Alive(upstream)
<1>1. PICK l, r, w, m : /\ l = replica[walk.site] /\ r = upstream /\ w = walk
                        /\ m = Merge!Settled(Merge!Merge(l, r, w))
    OBVIOUS
<1>2. /\ w # None /\ w.path = <<>> /\ upstream' = m /\ UNCHANGED <<ticks, born>> /\ walk' = None
      /\ replica' = [replica EXCEPT ![w.site] = m]
      /\ known' = known \cup Merge!Alive(m)
      /\ missed' = missed \cup (known \cap (Merge!Alive(m) \ w.met))
    BY <1>1 DEF Merge!EndMerge, Merge!Local
<1>3. w.site \in Twins /\ Walked(l, r, w)
    BY <1>1, <1>2 DEF Walked, MergeTyped, MergeHung
<1>4. MergesTo(l, r, w, m)
    BY <1>1, <1>3 DEF MergesTo
<1>5. m \in Databases /\ Rooted(m.kids) /\ Merge!Alive(m) \subseteq Merge!Alive(l) \cup Merge!Alive(r)
    <2>1. /\ m \in Databases /\ Rooted(m.kids)
          /\ Merge!Alive(m) = Left(w) /\ Left(w) \subseteq Merge!Alive(l) \cup Merge!Alive(r)
        BY <1>4, MergeKeepsRooted
    <2> QED BY <2>1
<1>6. replica' \in [Twins -> Databases] /\ \A z \in Twins : replica'[z] = IF z = w.site THEN m ELSE replica[z]
    BY <1>2, <1>3, <1>5 DEF MergeTyped
<1> QED BY <1>1, <1>2, <1>3, <1>4, <1>5, <1>6

LEMMA ChangeIs ==
    ASSUME MergeTyped, NEW s \in Twins, NEW db, Changed(s, db)
    PROVE  /\ ticks' = ticks + 1 /\ UNCHANGED <<upstream, known, missed, walk>> /\ walk' = None
           /\ replica' \in [Twins -> Databases]
           /\ \A z \in Twins : replica'[z] = IF z = s THEN db ELSE replica[z]
BY DEF Changed, Merge!Change, Merge!Now, MergeTyped

LEMMA TreesGoOn ==
    ASSUME MergeConstants, MergeTyped, MergeHung, [Merge!Next]_Merge!vars
    PROVE  MergeTyped' /\ MergeHung'
<1>1. CASE Merge!EndMerge
    <2>1. /\ walk.site \in Twins
          /\ \A z \in Twins : replica'[z] = IF z = walk.site THEN upstream' ELSE replica[z]
          /\ replica' \in [Twins -> Databases] /\ UNCHANGED <<ticks, born>> /\ walk' = None
          /\ known' = known \cup Merge!Alive(upstream')
          /\ missed' = missed \cup (known \cap (Merge!Alive(upstream') \ walk.met))
          /\ upstream' \in Databases /\ Rooted(upstream'.kids)
          /\ Merge!Alive(upstream') \subseteq Merge!Alive(replica[walk.site]) \cup Merge!Alive(upstream)
        BY <1>1, EndIs
    <2>2. Merge!Alive(upstream') \subseteq born
        BY <2>1 DEF MergeTyped, MergeHung
    <2>3. MergeTyped'
        BY <2>1, <2>2 DEF MergeTyped
    <2>4. \A z \in Twins : Rooted(replica'[z].kids) /\ Merge!Alive(replica'[z]) \subseteq born'
        BY <2>1, <2>2 DEF MergeHung
    <2> QED BY <2>1, <2>3, <2>4 DEF MergeHung
<1>2. ASSUME NEW s \in Twins, NEW db, Changed(s, db)
      PROVE  MergeTyped' /\ MergeHung'
    <2>1. /\ ticks' = ticks + 1 /\ UNCHANGED <<upstream, known, missed>> /\ walk' = None
          /\ replica' \in [Twins -> Databases]
          /\ \A z \in Twins : replica'[z] = IF z = s THEN db ELSE replica[z]
        BY <1>2, ChangeIs
    <2>2. /\ Rooted(db.kids) /\ born \subseteq born' /\ born' \subseteq Nodes
          /\ Merge!Alive(db) \subseteq Merge!Alive(replica[s]) \cup (born' \ born)
        BY <1>2 DEF Changed
    <2>3. MergeTyped'
        BY <2>1, <2>2 DEF MergeTyped
    <2>4. \A z \in Twins : Rooted(replica'[z].kids) /\ Merge!Alive(replica'[z]) \subseteq born'
        BY <2>1, <2>2 DEF MergeHung
    <2> QED BY <2>1, <2>3, <2>4 DEF MergeHung
<1>3. CASE WalkStep
    BY <1>3, WalkGoesOn DEF MergeHung
<1>4. CASE UNCHANGED Merge!vars
    BY <1>4 DEF Merge!vars, MergeTyped, MergeHung
<1> QED BY <1>1, <1>2, <1>3, <1>4, NextChanges

LEMMA AncestorIs ==
    ASSUME MergeConstants
    PROVE  /\ Merge!Ancestor \in Databases /\ Rooted(Merge!Ancestor.kids)
           /\ Merge!Alive(Merge!Ancestor) \subseteq FirstObjects \cup {Root}
           /\ \A x \in Nodes : Merge!Ancestor.item[x] = Merge!Fresh
<1>1. PICK kids : kids = [g \in ReplicaGroups |-> IF g = Root THEN FirstObjects ELSE {}]
    OBVIOUS
<1>2. PICK db : db = Merge!Ancestor
    OBVIOUS
<1>3. db = [kids |-> kids, item |-> [x \in Nodes |-> Merge!Fresh], dead |-> {}, name |-> 0]
    BY <1>1, <1>2 DEF Merge!Ancestor, Nodes
<1>4. kids \in KidSets
    BY <1>1 DEF KidSets, MergeConstants
<1>5. Merge!Fresh \in Items
    BY DEF Merge!Fresh, Items
<1>6. db \in Databases /\ db.kids = kids /\ \A x \in Nodes : db.item[x] = Merge!Fresh
    BY <1>3, <1>4, <1>5 DEF Databases
<1>7. Rooted(kids)
    <2>1. Root \in Nodes
        BY DEF MergeConstants, Nodes, Merge!Objects
    <2>2. Root \in Merge!Below(kids, Root)
        BY <1>4, <2>1, BelowIs
    <2>3. \A g \in ReplicaGroups : Root \notin kids[g] /\ (kids[g] # {} => g = Root)
        BY <1>1 DEF MergeConstants
    <2> QED BY <2>2, <2>3 DEF Rooted
<1>8. Merge!Alive(db) \subseteq FirstObjects \cup {Root}
    BY <1>1, <1>6 DEF Merge!Alive
<1> QED BY <1>2, <1>6, <1>7, <1>8

LEMMA TreesBegin ==
    ASSUME MergeConstants, Merge!Init
    PROVE  MergeTyped /\ MergeHung
<1>1. /\ \A s \in Twins : replica[s] = Merge!Ancestor
      /\ replica = [s \in Twins |-> Merge!Ancestor] /\ upstream = Merge!Ancestor /\ ticks = 0
      /\ born = FirstObjects \cup {Root} /\ known = born /\ missed = {} /\ walk = None
    BY DEF Merge!Init
<1>2. born \subseteq Nodes
    BY <1>1 DEF MergeConstants, Nodes, Merge!Objects
<1>3. MergeTyped
    BY <1>1, <1>2, AncestorIs DEF MergeTyped
<1>4. MergeHung
    BY <1>1, AncestorIs DEF MergeHung
<1> QED BY <1>3, <1>4

\* Only the last step of a merge is one that ends it.
LEMMA SyncedIs ==
    ASSUME MergeConstants, MergeTyped, MergeHung, [Merge!Next]_Merge!vars,
           NEW s \in Twins, Merge!Synced(s)
    PROVE  Merge!EndMerge /\ s = walk.site /\ MergesTo(replica[s], upstream, walk, replica'[s])
<1>1. walk # None /\ walk.site = s /\ walk' = None
    BY DEF Merge!Synced
<1>2. ~WalkStep
    BY <1>1, WalkGoesOn DEF MergeConstants
<1>3. ASSUME NEW z \in Twins, NEW db, Changed(z, db)
      PROVE  FALSE
    BY <1>1, <1>3, ChangeIs
<1>4. ~UNCHANGED Merge!vars
    BY <1>1 DEF Merge!vars
<1>5. Merge!EndMerge
    BY <1>2, <1>3, <1>4, NextChanges
<1> QED BY <1>1, <1>5, EndIs

LEMMA MergesAgree ==
    ASSUME MergeConstants, MergeTyped, MergeHung, [Merge!Next]_Merge!vars
    PROVE  Merge!AgreedStep
<1> SUFFICES ASSUME NEW s \in Twins, Merge!Synced(s)
             PROVE  /\ \A x \in Merge!Alive(replica[s]) : Merge!Kept(replica[s], upstream, replica'[s], x)
                    /\ \A x \in Merge!Alive(upstream) : Merge!Kept(upstream, replica[s], replica'[s], x)
    BY DEF Merge!AgreedStep
<1>1. MergesTo(replica[s], upstream, walk, replica'[s])
    BY SyncedIs
<1> QED BY <1>1, MergeKeepsLocal, MergeKeepsRemote

\* What both replicas have or one has and nobody deleted stays in a merge, and stays
\* where it was if no one moved it, for any number of sites, groups and entries.
THEOREM LibraryMergesAgree ==
    ASSUME MergeConstants
    PROVE  LibrarySpec => AgreedStays
<1> DEFINE Inv == subject = "KdbxMerge" => MergeTyped /\ MergeHung
<1>1. LibraryInit => Inv
    BY TreesBegin, LibraryBegin
<1>2. Inv /\ [LibraryNext]_<<subject, vars, shared>> => Inv'
    BY TreesGoOn, LibraryStep
<1>3. Inv /\ [LibraryNext]_<<subject, vars, shared>>
          => [subject = "KdbxMerge" => Merge!AgreedStep]_<<subject, shared>>
    BY MergesAgree, LibraryStep
<1> QED BY <1>1, <1>2, <1>3, PTL DEF LibrarySpec, AgreedStays

-----------------------------------------------------------------------------
(* KdbxMerge: how many versions are newer than one.                        *)

Newer(S, t) == Cardinality({u \in S : u > t})

LEMMA UpToFinite ==
    ASSUME NEW n \in Nat, NEW S \in SUBSET (0..n)
    PROVE  IsFiniteSet(S)
<1>1. IsFiniteSet(0..n)
    BY FS_Interval
<1> QED BY <1>1, FS_Subset

LEMMA NewerGrows ==
    ASSUME NEW T, IsFiniteSet(T), NEW S \in SUBSET T, NEW t
    PROVE  Newer(S, t) \in Nat /\ Newer(T, t) \in Nat /\ Newer(S, t) <= Newer(T, t)
<1>1. {u \in S : u > t} \subseteq {u \in T : u > t} /\ {u \in T : u > t} \subseteq T
    OBVIOUS
<1>2. IsFiniteSet({u \in T : u > t}) /\ IsFiniteSet({u \in S : u > t})
    BY <1>1, FS_Subset
<1> QED BY <1>1, <1>2, FS_Subset, FS_CardinalityType DEF Newer

LEMMA NewerWithTop ==
    ASSUME NEW S \in SUBSET Nat, IsFiniteSet(S), NEW t \in Nat, NEW k \in Nat, k \notin S, k > t
    PROVE  Newer(S \cup {k}, t) = Newer(S, t) + 1
<1>1. {u \in S \cup {k} : u > t} = {u \in S : u > t} \cup {k}
    OBVIOUS
<1>2. IsFiniteSet({u \in S : u > t}) /\ k \notin {u \in S : u > t}
    BY FS_Subset
<1> QED BY <1>1, <1>2, FS_AddElement DEF Newer

LEMMA GreatestOf ==
    ASSUME NEW n \in Nat, NEW S \in SUBSET (0..n), S # {}
    PROVE  \E b \in S : \A u \in S : u <= b
<1> DEFINE turned == {d \in 0..n : n - d \in S}
<1>1. turned \in SUBSET Nat
    OBVIOUS
<1>2. turned # {}
    <2>1. PICK b \in S : TRUE
        OBVIOUS
    <2>2. n - b \in 0..n /\ n - (n - b) = b
        BY <2>1
    <2> QED BY <2>1, <2>2
<1>3. PICK d \in turned : \A e \in turned : d <= e
    <2> HIDE DEF turned
    <2> QED BY <1>1, <1>2, LeastOf
<1>4. ASSUME NEW u \in S
      PROVE  u <= n - d
    <2>1. n - u \in 0..n /\ n - (n - u) = u
        OBVIOUS
    <2>2. d <= n - u
        BY <1>3, <2>1
    <2> QED BY <1>3, <2>1, <2>2
<1> QED BY <1>3, <1>4

\* The oldest versions go: those that stay are the newest of those that were there.
LEMMA NewerAfterTrim ==
    ASSUME MergeConstants, NEW n \in Nat, NEW S \in SUBSET (0..n), NEW t \in Nat,
           NEW K, K = {u \in S : ~(Newer(S, u) >= HistoryMax)}, Newer(S, t) >= HistoryMax
    PROVE  Newer(K, t) >= HistoryMax
<1>1. IsFiniteSet(S) /\ K \subseteq S
    BY UpToFinite
<1>2. PICK lost : lost = {u \in S : u > t /\ u \notin K}
    OBVIOUS
<1>3. CASE lost = {}
    <2>1. {u \in S : u > t} = {u \in K : u > t}
        BY <1>1, <1>2, <1>3
    <2> QED BY <2>1 DEF Newer
<1>4. CASE lost # {}
    <2>1. PICK b \in lost : \A u \in lost : u <= b
        BY <1>2, <1>4, GreatestOf
    <2>2. b \in S /\ b > t /\ b \in Nat /\ Newer(S, b) >= HistoryMax
        BY <1>2, <2>1
    <2>3. {u \in S : u > b} = {u \in K : u > b}
        <3>1. ASSUME NEW u \in S, u > b
              PROVE  u \in K
            <4>1. u \in Nat /\ u > t /\ ~(u <= b)
                BY <2>2, <3>1
            <4> QED BY <1>2, <2>1, <3>1, <4>1
        <3> QED BY <1>1, <3>1
    <2>4. Newer(K, b) >= HistoryMax
        BY <2>2, <2>3 DEF Newer
    <2>5. {u \in K : u > b} \subseteq {u \in K : u > t}
        <3>1. ASSUME NEW u \in K, u > b
              PROVE  u > t
            <4>1. u \in Nat
                BY <1>1
            <4> QED BY <2>2, <3>1, <4>1
        <3> QED BY <3>1
    <2>6. IsFiniteSet({u \in K : u > t})
        BY <1>1, FS_Subset
    <2>7. Newer(K, b) <= Newer(K, t) /\ Newer(K, b) \in Nat /\ Newer(K, t) \in Nat
        BY <2>5, <2>6, FS_Subset, FS_CardinalityType DEF Newer
    <2> QED BY <2>4, <2>7 DEF MergeConstants
<1> QED BY <1>3, <1>4

-----------------------------------------------------------------------------
(* KdbxMerge: the versions of a merged entry.                              *)

Dated(i) == i \in Items /\ i.gone = {} /\ \A t \in i.hist : t < i.mod
VersionsOf(i) == i.hist \cup {i.mod}
\* What a site has not added itself is in the shared entry, or was and is too old for it.
Behind(i, j) == \A t \in i.hist \ i.added :
    t < j.mod /\ (t \in j.hist \/ Newer(j.hist, t) >= HistoryMax)

LEMMA VersionsFinite ==
    ASSUME NEW i \in Items, \A t \in i.hist : t < i.mod
    PROVE  /\ i.hist \in SUBSET (0..i.mod) /\ i.mod \in Nat /\ i.mod \notin i.hist
           /\ IsFiniteSet(i.hist) /\ IsFiniteSet(VersionsOf(i)) /\ VersionsOf(i) \subseteq Nat
<1>1. i.hist \in SUBSET (0..i.mod) /\ i.mod \in Nat /\ i.mod \notin i.hist
    BY DEF Items
<1>2. VersionsOf(i) \in SUBSET (0..i.mod)
    BY <1>1 DEF VersionsOf
<1>3. IsFiniteSet(i.hist) /\ IsFiniteSet(VersionsOf(i))
    BY <1>1, <1>2, UpToFinite
<1>4. VersionsOf(i) \subseteq Nat
    BY <1>1, <1>2
<1> QED BY <1>1, <1>3, <1>4

LEMMA TrimmedVersions ==
    ASSUME MergeConstants, NEW i \in Items, \A t \in i.hist : t < i.mod, NEW k, k = Merge!Trimmed(i)
    PROVE  /\ k \in Items /\ k.mod = i.mod /\ k.hist \subseteq i.hist
           /\ \A t \in VersionsOf(i) : t \in VersionsOf(k) \/ Newer(VersionsOf(i), t) > HistoryMax
           /\ \A t \in Nat : t \in i.hist \/ Newer(i.hist, t) >= HistoryMax
                             => t \in k.hist \/ Newer(k.hist, t) >= HistoryMax
<1>1. /\ k \in Items /\ k.mod = i.mod /\ k.hist \subseteq i.hist
      /\ k.hist = {u \in i.hist : ~(Newer(i.hist, u) >= HistoryMax)}
    BY TrimmedIs DEF Newer
<1>2. /\ i.hist \in SUBSET (0..i.mod) /\ i.mod \in Nat /\ i.mod \notin i.hist /\ IsFiniteSet(i.hist)
      /\ i.hist \in SUBSET Nat
    BY VersionsFinite DEF Items
<1>3. ASSUME NEW t \in VersionsOf(i), t \notin VersionsOf(k)
      PROVE  Newer(VersionsOf(i), t) > HistoryMax
    <2>1. t \in i.hist /\ t \in Nat /\ i.mod > t /\ Newer(i.hist, t) >= HistoryMax
        BY <1>1, <1>2, <1>3 DEF VersionsOf
    <2>2. Newer(i.hist \cup {i.mod}, t) = Newer(i.hist, t) + 1
        BY <1>2, <2>1, NewerWithTop
    <2>3. Newer(i.hist, t) \in Nat
        BY <1>2, NewerGrows
    <2>4. Newer(VersionsOf(i), t) = Newer(i.hist, t) + 1
        BY <2>2 DEF VersionsOf
    <2> QED BY <2>1, <2>3, <2>4 DEF MergeConstants
<1>4. ASSUME NEW t \in Nat, t \in i.hist \/ Newer(i.hist, t) >= HistoryMax
      PROVE  t \in k.hist \/ Newer(k.hist, t) >= HistoryMax
    <2>1. Newer(i.hist, t) >= HistoryMax => Newer(k.hist, t) >= HistoryMax
        BY <1>1, <1>2, NewerAfterTrim
    <2> QED BY <1>1, <1>4, <2>1
<1> QED BY <1>1, <1>3, <1>4

LEMMA EntryMerged ==
    ASSUME MergeConstants, NEW i, NEW j, Dated(i), Dated(j), NEW e, e = Merge!MergeEntry(i, j)
    PROVE  /\ e \in Items /\ \A t \in e.hist : t < e.mod
           /\ e.mod \in {i.mod, j.mod} /\ e.mod >= j.mod /\ j.hist \subseteq e.hist
           /\ Behind(i, j) =>
                /\ VersionsOf(e) \subseteq VersionsOf(i) \cup VersionsOf(j)
                /\ \A t \in VersionsOf(i) \cup VersionsOf(j) :
                      \/ t \in VersionsOf(e)
                      \/ t \in i.hist /\ t < j.mod /\ Newer(j.hist, t) >= HistoryMax
<1>1. /\ i \in Items /\ j \in Items /\ i.gone = {}
      /\ \A t \in i.hist : t < i.mod
      /\ \A t \in j.hist : t < j.mod
      /\ i.mod \in Nat /\ j.mod \in Nat /\ i.hist \subseteq Nat /\ j.hist \subseteq Nat
    BY DEF Dated, Items
<1>2. PICK hist, added, theirs :
        /\ hist = IF i.mod < j.mod THEN i.hist \cup {i.mod} ELSE i.hist
        /\ added = IF i.mod < j.mod THEN i.added \cup {i.mod} ELSE i.added
        /\ theirs = IF i.mod > j.mod /\ j.mod \notin i.hist THEN j.hist \cup {j.mod} ELSE j.hist
    OBVIOUS
<1>3. /\ e \in Items /\ e.mod = IF i.mod < j.mod THEN j.mod ELSE i.mod
      /\ e.hist = (hist \cap theirs) \cup {t \in theirs \ hist : t \notin i.gone}
                  \cup {t \in hist \ theirs : t \in added \/ t > j.mod}
    BY <1>1, <1>2, MergeEntryIs
<1>4. e.hist = theirs \cup {t \in hist : t \in added \/ t > j.mod}
    BY <1>1, <1>3
<1>5. \A t \in e.hist : t < e.mod
    BY <1>1, <1>2, <1>3, <1>4
<1>6. e.mod \in {i.mod, j.mod} /\ e.mod >= j.mod /\ j.hist \subseteq e.hist
    BY <1>1, <1>2, <1>3, <1>4
<1>7. ASSUME Behind(i, j)
      PROVE  /\ VersionsOf(e) \subseteq VersionsOf(i) \cup VersionsOf(j)
             /\ \A t \in VersionsOf(i) \cup VersionsOf(j) :
                   \/ t \in VersionsOf(e)
                   \/ t \in i.hist /\ t < j.mod /\ Newer(j.hist, t) >= HistoryMax
    <2>1. VersionsOf(e) \subseteq VersionsOf(i) \cup VersionsOf(j)
        BY <1>2, <1>4, <1>6 DEF VersionsOf
    <2>2. ASSUME NEW t \in VersionsOf(i) \cup VersionsOf(j), t \notin VersionsOf(e)
          PROVE  t \in i.hist /\ t < j.mod /\ Newer(j.hist, t) >= HistoryMax
        <3>1. t \notin j.hist
            BY <1>6, <2>2 DEF VersionsOf
        <3>2. t # j.mod
            <4> SUFFICES ASSUME t = j.mod PROVE FALSE
                OBVIOUS
            <4>1. i.mod > j.mod
                BY <1>1, <1>3, <2>2 DEF VersionsOf
            <4>2. j.mod \in i.hist /\ j.mod \notin theirs
                BY <1>2, <1>4, <2>2, <4>1 DEF VersionsOf
            <4>3. j.mod \in i.added
                BY <1>1, <1>7, <4>2 DEF Behind
            <4> QED BY <1>2, <1>4, <2>2, <4>1, <4>2, <4>3 DEF VersionsOf
        <3>3. t # i.mod
            BY <1>1, <1>2, <1>3, <1>4, <2>2 DEF VersionsOf
        <3>4. t \in i.hist
            BY <2>2, <3>1, <3>2, <3>3 DEF VersionsOf
        <3>5. t \notin i.added
            BY <1>2, <1>4, <2>2, <3>4 DEF VersionsOf
        <3> QED BY <1>7, <3>1, <3>4, <3>5 DEF Behind
    <2> QED BY <2>1, <2>2
<1> QED BY <1>3, <1>5, <1>6, <1>7

\* The newest versions of both sides are in the merged entry.
LEMMA NewestStay ==
    ASSUME MergeConstants, NEW i, NEW j, Dated(i), Dated(j), Behind(i, j),
           NEW k, k = Merge!Trimmed(Merge!MergeEntry(i, j))
    PROVE  Merge!Newest(VersionsOf(i) \cup VersionsOf(j)) \subseteq VersionsOf(k)
<1>1. PICK e : e = Merge!MergeEntry(i, j)
    OBVIOUS
<1>2. PICK V : V = VersionsOf(i) \cup VersionsOf(j)
    OBVIOUS
<1>3. /\ e \in Items /\ \A t \in e.hist : t < e.mod
      /\ VersionsOf(e) \subseteq V
      /\ \A t \in V : \/ t \in VersionsOf(e)
                      \/ t \in i.hist /\ t < j.mod /\ Newer(j.hist, t) >= HistoryMax
    BY <1>1, <1>2, EntryMerged
<1>4. \A t \in VersionsOf(e) : t \in VersionsOf(k) \/ Newer(VersionsOf(e), t) > HistoryMax
    BY <1>1, <1>3, TrimmedVersions
<1>5. /\ IsFiniteSet(VersionsOf(i)) /\ IsFiniteSet(VersionsOf(j)) /\ VersionsOf(i) \subseteq Nat
      /\ j.hist \in SUBSET Nat /\ IsFiniteSet(j.hist) /\ j.mod \in Nat /\ j.mod \notin j.hist
    BY VersionsFinite DEF Dated, Items
<1>6. IsFiniteSet(V)
    BY <1>2, <1>5, FS_Union
<1>7. ASSUME NEW t \in V, Newer(V, t) <= HistoryMax
      PROVE  t \in VersionsOf(k)
    <2>1. CASE t \in VersionsOf(e)
        <3>1. Newer(VersionsOf(e), t) <= Newer(V, t) /\ Newer(VersionsOf(e), t) \in Nat /\ Newer(V, t) \in Nat
            BY <1>3, <1>6, NewerGrows
        <3> QED BY <1>4, <1>7, <2>1, <3>1 DEF MergeConstants
    <2>2. CASE t \in i.hist /\ t < j.mod /\ Newer(j.hist, t) >= HistoryMax
        <3>1. t \in Nat /\ j.mod > t
            BY <1>5, <2>2 DEF VersionsOf
        <3>2. Newer(j.hist \cup {j.mod}, t) = Newer(j.hist, t) + 1 /\ Newer(j.hist, t) \in Nat
            BY <1>5, <3>1, NewerWithTop, NewerGrows
        <3>3. Newer(VersionsOf(j), t) <= Newer(V, t) /\ Newer(V, t) \in Nat
            BY <1>2, <1>6, NewerGrows
        <3>4. Newer(VersionsOf(j), t) = Newer(j.hist, t) + 1
            BY <3>2 DEF VersionsOf
        <3> QED BY <1>7, <2>2, <3>2, <3>3, <3>4 DEF MergeConstants
    <2> QED BY <1>3, <2>1, <2>2
<1>8. ASSUME NEW t \in Merge!Newest(V)
      PROVE  t \in V /\ Newer(V, t) <= HistoryMax
    BY SameCardinality DEF Merge!Newest, Newer
<1> QED BY <1>2, <1>7, <1>8

LEMMA SettledEntry ==
    ASSUME NEW k \in Items, \A t \in k.hist : t < k.mod, NEW d, d = Cleared(k)
    PROVE  Dated(d) /\ d.mod = k.mod /\ d.hist = k.hist /\ VersionsOf(d) = VersionsOf(k)
BY DEF Items, Dated, VersionsOf, Cleared

\* The entry a merge leaves, and what it has of the remote one.
LEMMA MergedEntry ==
    ASSUME MergeConstants, NEW l, NEW r, NEW w, NEW m, MergesTo(l, r, w, m), NEW x \in ReplicaEntries,
           NEW i, i = l.item[x], NEW j, j = r.item[x], NEW d, d = m.item[x], Dated(i), Dated(j)
    PROVE  /\ Dated(d) /\ d.mod \in {0, i.mod, j.mod}
           /\ x \in Merge!Alive(m) \cap w.met =>
                /\ x \in Merge!Alive(l) => VersionsOf(d) = VersionsOf(Merge!Trimmed(Merge!MergeEntry(i, j)))
                /\ d.mod >= j.mod
                /\ \A t \in Nat : t \in j.hist \/ Newer(j.hist, t) >= HistoryMax
                                  => t \in d.hist \/ Newer(d.hist, t) >= HistoryMax
<1>1. x \in Nodes
    BY DEF Nodes, Merge!Objects
<1>2. PICK k : k = ItemLeft(w, x)
    OBVIOUS
<1>3. d = Cleared(k) /\ Merge!Alive(m) = Left(w)
    <2>1. /\ Merge!Alive(m) = Left(w)
          /\ \A y \in Nodes : m.item[y] = Cleared(ItemLeft(w, y))
        BY MergeKeepsRooted
    <2> QED BY <1>1, <1>2, <2>1
<1>4. PICK i0 : /\ i0 \in Start(l, r, x)
                /\ w.item[x] = IF x \in w.met THEN Merge!MergeEntry(i0, j) ELSE i0
    BY DEF MergesTo, Walked, Walking, EntryInWalk
<1>5. Dated(i0) /\ i0.mod \in {i.mod, j.mod} /\ (x \in Merge!Alive(l) => i0 = i)
    <2>1. PICK c : c = Merge!Copied(j)
        OBVIOUS
    <2>2. Dated(c) /\ c.mod = j.mod
        BY <2>1, CopiedIs DEF Dated
    <2> QED BY <1>4, <2>1, <2>2 DEF Start
<1>6. PICK e : e = w.item[x]
    OBVIOUS
<1> DEFINE Has(b) == /\ b.mod >= j.mod
                     /\ \A t \in Nat : t \in j.hist \/ Newer(j.hist, t) >= HistoryMax
                                       => t \in b.hist \/ Newer(b.hist, t) >= HistoryMax
<1>7. /\ e \in Items /\ (\A t \in e.hist : t < e.mod) /\ e.mod \in {i.mod, j.mod}
      /\ x \in w.met => Has(e)
    <2>1. CASE x \notin w.met
        BY <1>4, <1>5, <1>6, <2>1 DEF Dated
    <2>2. CASE x \in w.met
        <3>1. e = Merge!MergeEntry(i0, j)
            BY <1>4, <1>6, <2>2
        <3>2. /\ e \in Items /\ \A t \in e.hist : t < e.mod
              /\ e.mod \in {i0.mod, j.mod} /\ e.mod >= j.mod /\ j.hist \subseteq e.hist
            BY <1>5, <3>1, EntryMerged
        <3>3. ASSUME NEW t \in Nat, Newer(j.hist, t) >= HistoryMax
              PROVE  Newer(e.hist, t) >= HistoryMax
            <4>1. IsFiniteSet(e.hist)
                BY <3>2, VersionsFinite
            <4>2. Newer(j.hist, t) <= Newer(e.hist, t) /\ Newer(j.hist, t) \in Nat /\ Newer(e.hist, t) \in Nat
                BY <3>2, <4>1, NewerGrows
            <4> QED BY <3>3, <4>2 DEF MergeConstants
        <3> QED BY <1>5, <3>2, <3>3
    <2> QED BY <2>1, <2>2
<1>8. PICK b : b = Merge!Trimmed(e)
    OBVIOUS
<1>9. /\ b \in Items /\ b.mod = e.mod /\ b.hist \subseteq e.hist
      /\ \A t \in Nat : t \in e.hist \/ Newer(e.hist, t) >= HistoryMax
                        => t \in b.hist \/ Newer(b.hist, t) >= HistoryMax
    BY <1>7, <1>8, TrimmedVersions
<1>10. /\ k \in Items /\ (\A t \in k.hist : t < k.mod) /\ k.mod \in {0, i.mod, j.mod}
       /\ x \in Left(w) \cap w.met => Has(k)
    <2>1. CASE x \notin Left(w)
        <3>1. k = Merge!Fresh
            BY <1>2, <2>1 DEF ItemLeft
        <3> QED BY <2>1, <3>1 DEF Merge!Fresh, Items
    <2>2. CASE x \in Left(w)
        <3>1. k = b
            BY <1>2, <1>6, <1>8, <2>2 DEF ItemLeft
        <3> QED BY <1>7, <1>9, <3>1
    <2> QED BY <2>1, <2>2
<1>11. Dated(d) /\ d.mod = k.mod /\ d.hist = k.hist /\ VersionsOf(d) = VersionsOf(k)
    BY <1>3, <1>10, SettledEntry
<1>12. x \in Left(w) \cap w.met /\ x \in Merge!Alive(l) => k = Merge!Trimmed(Merge!MergeEntry(i, j))
    BY <1>2, <1>4, <1>5 DEF ItemLeft
<1> QED BY <1>3, <1>10, <1>11, <1>12

-----------------------------------------------------------------------------
(* KdbxMerge: what the sites know of each other's versions.                *)

DatedUpTo(db, now) == \A x \in ReplicaEntries : Dated(db.item[x]) /\ db.item[x].mod <= now
AllDated == DatedUpTo(upstream, ticks) /\ \A s \in Twins : DatedUpTo(replica[s], ticks)
\* What is at two sites has been in the copy they share.
OwnUntilShared == \A s, z \in Twins : s # z => Merge!Alive(replica[s]) \cap Merge!Alive(replica[z]) \subseteq known
NoneAhead ==
    \A s \in Twins :
        \A x \in (Merge!Alive(replica[s]) \cap Merge!Alive(upstream) \cap ReplicaEntries) \ missed :
            Behind(replica[s].item[x], upstream.item[x])
MergeInv == MergeTyped /\ MergeHung /\ AllDated /\ OwnUntilShared /\ NoneAhead

LEMMA ChangeKeepsVersions ==
    ASSUME MergeConstants, MergeInv, NEW s \in Twins, NEW db, Changed(s, db)
    PROVE  (AllDated /\ OwnUntilShared /\ NoneAhead)'
<1>1. /\ ticks' = ticks + 1 /\ upstream' = upstream /\ known' = known /\ missed' = missed
      /\ \A z \in Twins : replica'[z] = IF z = s THEN db ELSE replica[z]
    BY ChangeIs DEF MergeInv
<1>2. PICK l : l = replica[s]
    OBVIOUS
<1>3. /\ Merge!Alive(db) \subseteq Merge!Alive(l) \cup (born' \ born) /\ db \in Databases
      /\ \A x \in ReplicaEntries : \/ Untouched(l.item[x], db.item[x])
                                   \/ NewVersion(l.item[x], db.item[x])
                                   \/ x \notin born /\ NewEntry(db.item[x])
    BY <1>2 DEF Changed
<1>4. ticks \in Nat /\ \A z \in Twins : Merge!Alive(replica[z]) \subseteq born
    BY DEF MergeInv, MergeTyped, MergeHung
<1>5. Merge!Alive(upstream) \subseteq born
    BY DEF MergeInv, MergeTyped, MergeHung
<1>6. ASSUME NEW x \in ReplicaEntries
      PROVE  Dated(db.item[x]) /\ db.item[x].mod <= ticks + 1
    <2>1. Dated(l.item[x]) /\ l.item[x].mod <= ticks
        BY <1>2 DEF MergeInv, AllDated, DatedUpTo
    <2>2. db.item[x] \in Items
        BY <1>3 DEF Databases, Nodes, Merge!Objects
    <2>3. CASE Untouched(l.item[x], db.item[x])
        BY <1>4, <2>1, <2>2, <2>3 DEF Untouched, Dated, Items
    <2>4. CASE NewVersion(l.item[x], db.item[x])
        BY <1>4, <2>1, <2>2, <2>4 DEF NewVersion, Dated, Items
    <2>5. CASE NewEntry(db.item[x])
        BY <1>4, <2>2, <2>5 DEF NewEntry, Dated, Items
    <2> QED BY <1>3, <2>3, <2>4, <2>5
<1>7. ASSUME NEW d, DatedUpTo(d, ticks)
      PROVE  DatedUpTo(d, ticks + 1)
    BY <1>4, <1>7 DEF DatedUpTo, Dated, Items
<1>8. AllDated'
    <2>1. DatedUpTo(upstream, ticks + 1) /\ DatedUpTo(db, ticks + 1)
        BY <1>6, <1>7 DEF MergeInv, AllDated, DatedUpTo
    <2>2. \A z \in Twins : DatedUpTo(replica'[z], ticks + 1)
        BY <1>1, <1>7, <2>1 DEF MergeInv, AllDated
    <2> QED BY <1>1, <2>1, <2>2 DEF AllDated
<1>9. OwnUntilShared'
    BY <1>1, <1>2, <1>3, <1>4 DEF MergeInv, OwnUntilShared
<1>10. ASSUME NEW x \in (Merge!Alive(db) \cap Merge!Alive(upstream) \cap ReplicaEntries) \ missed
       PROVE  Behind(db.item[x], upstream.item[x])
    <2>1. x \in born /\ x \in Merge!Alive(l)
        BY <1>3, <1>5, <1>10
    <2>2. Behind(l.item[x], upstream.item[x])
        BY <1>2, <1>10, <2>1 DEF MergeInv, NoneAhead
    <2>3. db.item[x].hist \ db.item[x].added \subseteq l.item[x].hist \ l.item[x].added
        BY <1>3, <2>1 DEF Untouched, NewVersion
    <2> QED BY <2>2, <2>3 DEF Behind
<1>11. NoneAhead'
    BY <1>1, <1>10 DEF MergeInv, NoneAhead
<1> QED BY <1>8, <1>9, <1>11

LEMMA EndKeepsVersions ==
    ASSUME MergeConstants, MergeInv, Merge!EndMerge
    PROVE  (AllDated /\ OwnUntilShared /\ NoneAhead)'
<1>1. PICK s, l, r, w, m : s = walk.site /\ l = replica[s] /\ r = upstream /\ w = walk /\ m = upstream'
    OBVIOUS
<1>2. /\ s \in Twins /\ MergesTo(l, r, w, m) /\ ticks' = ticks
      /\ known' = known \cup Merge!Alive(m)
      /\ missed' = missed \cup (known \cap (Merge!Alive(m) \ w.met))
      /\ Merge!Alive(m) \subseteq Merge!Alive(l) \cup Merge!Alive(r)
      /\ \A z \in Twins : replica'[z] = IF z = s THEN m ELSE replica[z]
    BY <1>1, EndIs DEF MergeInv
<1>3. w.met \subseteq Merge!Alive(r)
    BY <1>2 DEF MergesTo, Walked, Walking
<1>4. /\ ticks \in Nat /\ DatedUpTo(l, ticks) /\ DatedUpTo(r, ticks)
      /\ \A z \in Twins : DatedUpTo(replica[z], ticks)
      /\ Merge!Alive(r) \subseteq known
    BY <1>1, <1>2 DEF MergeInv, MergeTyped, MergeHung, AllDated
<1>5. DatedUpTo(m, ticks)
    <2>1. ASSUME NEW x \in ReplicaEntries
          PROVE  Dated(m.item[x]) /\ m.item[x].mod <= ticks
        <3>1. /\ Dated(l.item[x]) /\ l.item[x].mod <= ticks
              /\ Dated(r.item[x]) /\ r.item[x].mod <= ticks
            BY <1>4 DEF DatedUpTo
        <3>2. Dated(m.item[x]) /\ m.item[x].mod \in {0, l.item[x].mod, r.item[x].mod}
            BY <1>2, <3>1, MergedEntry
        <3> QED BY <1>4, <3>1, <3>2
    <2> QED BY <2>1 DEF DatedUpTo
<1>6. AllDated'
    BY <1>1, <1>2, <1>4, <1>5 DEF AllDated
<1>7. OwnUntilShared'
    BY <1>2 DEF MergeInv, OwnUntilShared
<1>8. ASSUME NEW z \in Twins \ {s},
             NEW x \in (Merge!Alive(replica[z]) \cap Merge!Alive(m) \cap ReplicaEntries) \ missed'
      PROVE  Behind(replica[z].item[x], m.item[x])
    <2>1. x \in known
        <3>1. x \in Merge!Alive(l) \/ x \in Merge!Alive(r)
            BY <1>2
        <3> QED BY <1>1, <1>2, <1>4, <3>1 DEF MergeInv, OwnUntilShared
    <2>2. x \in w.met
        BY <1>2, <2>1
    <2>3. PICK i, j, d : i = replica[z].item[x] /\ j = r.item[x] /\ d = m.item[x]
        OBVIOUS
    <2>4. Behind(i, j)
        <3>1. x \notin missed /\ x \in Merge!Alive(r)
            BY <1>2, <1>3, <2>2
        <3> QED BY <1>1, <2>3, <3>1 DEF MergeInv, NoneAhead
    <2>5. Dated(l.item[x]) /\ Dated(j) /\ Dated(i)
        BY <1>4, <2>3 DEF DatedUpTo
    <2>6. /\ Dated(d) /\ d.mod >= j.mod
          /\ \A t \in Nat : t \in j.hist \/ Newer(j.hist, t) >= HistoryMax
                            => t \in d.hist \/ Newer(d.hist, t) >= HistoryMax
        BY <1>2, <2>2, <2>3, <2>5, MergedEntry
    <2>7. i.hist \subseteq Nat /\ j.mod \in Nat /\ d.mod \in Nat
        BY <2>5, <2>6 DEF Dated, Items
    <2>8. Behind(i, d)
        BY <2>4, <2>6, <2>7 DEF Behind
    <2> QED BY <2>3, <2>8
<1>9. ASSUME NEW x \in ReplicaEntries
      PROVE  Behind(m.item[x], m.item[x])
    BY <1>5 DEF DatedUpTo, Dated, Behind
<1>10. NoneAhead'
    BY <1>1, <1>2, <1>8, <1>9 DEF NoneAhead
<1> QED BY <1>6, <1>7, <1>10

LEMMA VersionsGoOn ==
    ASSUME MergeConstants, MergeInv, [Merge!Next]_Merge!vars
    PROVE  MergeInv'
<1>1. MergeTyped' /\ MergeHung'
    BY TreesGoOn DEF MergeInv
<1>2. (AllDated /\ OwnUntilShared /\ NoneAhead)'
    <2>1. CASE UNCHANGED <<replica, upstream, ticks, born, known, missed>>
        BY <2>1 DEF MergeInv, AllDated, OwnUntilShared, NoneAhead
    <2>2. CASE Merge!Next
        BY <2>1, <2>2, NextChanges, ChangeKeepsVersions, EndKeepsVersions, WalkGoesOn DEF MergeInv
    <2> QED BY <2>1, <2>2 DEF Merge!vars
<1> QED BY <1>1, <1>2 DEF MergeInv

LEMMA VersionsBegin ==
    ASSUME MergeConstants, Merge!Init
    PROVE  MergeInv
<1>1. /\ \A s \in Twins : replica[s] = Merge!Ancestor
      /\ upstream = Merge!Ancestor /\ ticks = 0
      /\ born = FirstObjects \cup {Root} /\ known = born /\ missed = {}
    BY DEF Merge!Init
<1>2. ASSUME NEW x \in ReplicaEntries
      PROVE  /\ Dated(Merge!Ancestor.item[x]) /\ Merge!Ancestor.item[x].mod <= 0
             /\ Behind(Merge!Ancestor.item[x], Merge!Ancestor.item[x])
    <2>1. Merge!Ancestor.item[x] = Merge!Fresh
        BY AncestorIs DEF Nodes, Merge!Objects
    <2> QED BY <2>1 DEF Merge!Fresh, Dated, Items, Behind
<1>3. AllDated
    BY <1>1, <1>2 DEF AllDated, DatedUpTo
<1>4. OwnUntilShared
    BY <1>1, AncestorIs DEF OwnUntilShared
<1>5. NoneAhead
    BY <1>1, <1>2 DEF NoneAhead
<1> QED BY <1>3, <1>4, <1>5, TreesBegin DEF MergeInv

LEMMA VersionsStay ==
    ASSUME MergeConstants, MergeInv, [Merge!Next]_Merge!vars
    PROVE  Merge!VersionsStep
<1> SUFFICES ASSUME NEW s \in Twins, Merge!Synced(s),
                    NEW x \in (Merge!Alive(replica[s]) \cap Merge!Alive(upstream)
                               \cap Merge!Alive(replica'[s]) \cap ReplicaEntries) \ missed'
             PROVE  Merge!Newest(Merge!Versions(replica[s], x) \cup Merge!Versions(upstream, x))
                    \subseteq Merge!Versions(replica'[s], x)
    BY DEF Merge!VersionsStep
<1>1. PICK l, r, w, m : l = replica[s] /\ r = upstream /\ w = walk /\ m = replica'[s]
    OBVIOUS
<1>2. /\ Merge!Versions(replica[s], x) = VersionsOf(l.item[x])
      /\ Merge!Versions(upstream, x) = VersionsOf(r.item[x])
      /\ Merge!Versions(replica'[s], x) = VersionsOf(m.item[x])
    BY <1>1 DEF Merge!Versions, VersionsOf
<1>3. Merge!EndMerge /\ s = walk.site /\ MergesTo(l, r, w, m)
    BY <1>1, SyncedIs DEF MergeInv
<1>4. missed' = missed \cup (known \cap (Merge!Alive(m) \ w.met))
    <2>1. /\ missed' = missed \cup (known \cap (Merge!Alive(upstream') \ walk.met))
          /\ \A z \in Twins : replica'[z] = IF z = walk.site THEN upstream' ELSE replica[z]
        BY <1>3, EndIs DEF MergeInv
    <2> QED BY <1>1, <1>3, <2>1
<1>5. x \in known /\ x \notin missed /\ x \in w.met
    BY <1>1, <1>4 DEF MergeInv, MergeHung
<1>6. PICK i, j, d : i = l.item[x] /\ j = r.item[x] /\ d = m.item[x]
    OBVIOUS
<1>7. Dated(i) /\ Dated(j)
    BY <1>1, <1>6 DEF MergeInv, AllDated, DatedUpTo
<1>8. Behind(i, j)
    BY <1>1, <1>5, <1>6 DEF MergeInv, NoneAhead
<1>9. VersionsOf(d) = VersionsOf(Merge!Trimmed(Merge!MergeEntry(i, j)))
    BY <1>1, <1>3, <1>5, <1>6, <1>7, MergedEntry
<1>10. Merge!Newest(VersionsOf(i) \cup VersionsOf(j)) \subseteq VersionsOf(d)
    BY <1>7, <1>8, <1>9, NewestStay
<1> QED BY <1>2, <1>6, <1>10

\* The newest versions of both sides of an entry, as many as its history may have, are in
\* the merged entry, unless a merge has passed the entry by: for any number of sites,
\* groups, entries and changes, any limit of the history, and any order of the walk.
THEOREM LibraryKeepsVersions ==
    ASSUME MergeConstants
    PROVE  LibrarySpec => VersionsKept
<1> DEFINE Inv == subject = "KdbxMerge" => MergeInv
<1>1. LibraryInit => Inv
    BY VersionsBegin, LibraryBegin
<1>2. Inv /\ [LibraryNext]_<<subject, vars, shared>> => Inv'
    BY VersionsGoOn, LibraryStep
<1>3. Inv /\ [LibraryNext]_<<subject, vars, shared>>
          => [subject = "KdbxMerge" => Merge!VersionsStep]_<<subject, shared>>
    BY VersionsStay, LibraryStep
<1> QED BY <1>1, <1>2, <1>3, PTL DEF LibrarySpec, VersionsKept

-----------------------------------------------------------------------------
(* Combine: the passes of an application.                                  *)

vault == v1
unlocked == v2
tree == v3
second == v4
pending == v5
imported == v6
failed == v7
applies == v8
USE DEF vault, unlocked, tree, second, pending, imported, failed, applies

Columns == {"user", "pass", "host", "title", "note", "key", "doc"}
\* All the texts that fields of the two vaults hold.
Texts == UNION {{t[i].c[f] : i \in DOMAIN t, f \in Columns} : t \in Ours \cup Theirs} \cup {None}
Logins == [Columns -> Texts]
OwnEntries == [c : Logins, binned : BOOLEAN]
Incoming == [c : Logins, uuid : Nat]
CombineConstants ==
    /\ MaxEntries \in Nat /\ MaxApplies \in Nat
    /\ \A t \in Ours : t \in Seq(OwnEntries) /\ Len(t) <= MaxEntries
    /\ Theirs \subseteq Seq(Incoming)
Trees == Seq(OwnEntries)

\* Induction up to a number.
LEMMA Reaches ==
    ASSUME NEW n \in Nat, NEW S, 0 \in S, \A k \in 1..n : k - 1 \in S => k \in S
    PROVE  0..n \subseteq S
<1> DEFINE Bad == {k \in 0..n : k \notin S}
<1> SUFFICES ASSUME Bad # {} PROVE FALSE
    OBVIOUS
<1>1. PICK k \in Bad : \A x \in Bad : k <= x
    <2>1. Bad \in SUBSET Nat
        OBVIOUS
    <2> QED BY <2>1, LeastOf
<1>2. k \in 1..n /\ k - 1 \in 0..n /\ k - 1 \notin Bad
    BY <1>1
<1> QED BY <1>2

\* One entry after the other.
OneByOne(F, n, t, S) == F = [k \in 0..n |-> IF k = 0 THEN t ELSE IF k \in S THEN Combining!Import(F[k - 1], k) ELSE F[k - 1]]

LEMMA SomeOneByOne ==
    ASSUME NEW t, NEW S, NEW n \in Nat
    PROVE  \E F : OneByOne(F, n, t, S)
<1> DEFINE Good == {k \in Nat : \E F : OneByOne(F, k, t, S)}
<1>1. 0 \in Good
    <2>1. PICK F : F = [k \in 0..0 |-> t]
        OBVIOUS
    <2>2. OneByOne(F, 0, t, S)
        BY <2>1 DEF OneByOne
    <2> QED BY <2>2
<1>2. ASSUME NEW k \in 1..n, k - 1 \in Good
      PROVE  k \in Good
    <2> DEFINE Next1(u, i) == IF i \in S THEN Combining!Import(u, i) ELSE u
    <2>1. PICK F : OneByOne(F, k - 1, t, S)
        BY <1>2
    <2>2. PICK G : G = [i \in 0..k |-> IF i = 0 THEN t ELSE Next1(F[i - 1], i)]
        OBVIOUS
    <2>3. \A i \in 0..k - 1 : F[i] = IF i = 0 THEN t ELSE Next1(F[i - 1], i)
        BY <2>1, Zenon DEF OneByOne
    <2> HIDE DEF Next1
    <2>4. \A i \in 0..k - 1 : G[i] = F[i]
        <3>1. \A i \in 0..k - 1 : G[i] = IF i = 0 THEN t ELSE Next1(F[i - 1], i)
            BY <2>2
        <3> QED BY <2>3, <3>1
    <2>5. \A i \in 0..k : i # 0 => i - 1 \in 0..k - 1
        OBVIOUS
    <2>6. \A i \in 0..k : (IF i = 0 THEN t ELSE Next1(F[i - 1], i)) = (IF i = 0 THEN t ELSE Next1(G[i - 1], i))
        BY <2>4, <2>5
    <2>7. G = [i \in 0..k |-> IF i = 0 THEN t ELSE Next1(G[i - 1], i)]
        BY <2>2, <2>6
    <2>8. OneByOne(G, k, t, S)
        BY <2>7, Zenon DEF OneByOne, Next1
    <2> QED BY <2>8
<1>3. 0..n \subseteq Good
    <2> HIDE DEF Good
    <2> QED BY <1>1, <1>2, Reaches
<1> QED BY <1>3

ImportsOf(F, t, S) ==
    /\ F[0] = t /\ F[Len(second)] = Combining!ImportAll(t, S)
    /\ \A k \in 1..Len(second) : F[k] = IF k \in S THEN Combining!Import(F[k - 1], k) ELSE F[k - 1]
LEMMA ImportAllIs ==
    ASSUME NEW t, NEW S, Len(second) \in Nat
    PROVE  \E F : ImportsOf(F, t, S)
<1>1. PICK F : F = CHOOSE G : OneByOne(G, Len(second), t, S)
    OBVIOUS
<1>2. OneByOne(F, Len(second), t, S)
    BY <1>1, SomeOneByOne
<1>3. Combining!ImportAll(t, S) = F[Len(second)]
    BY <1>1 DEF Combining!ImportAll, OneByOne
<1>4. \A k \in 0..Len(second) : F[k] = IF k = 0 THEN t ELSE IF k \in S THEN Combining!Import(F[k - 1], k) ELSE F[k - 1]
    BY <1>2, Zenon DEF OneByOne
<1>5. ImportsOf(F, t, S)
    BY <1>3, <1>4 DEF ImportsOf
<1> QED BY <1>5

\* What imports keep: a set of trees that every single import stays in.
LEMMA ImportAllIn ==
    ASSUME NEW R, NEW t \in R, NEW S, Len(second) \in Nat,
           \A u \in R : \A k \in S \cap (1..Len(second)) : Combining!Import(u, k) \in R
    PROVE  Combining!ImportAll(t, S) \in R
<1>0. PICK F : ImportsOf(F, t, S)
    BY ImportAllIs
<1>1. /\ F[0] = t /\ F[Len(second)] = Combining!ImportAll(t, S)
      /\ \A k \in 1..Len(second) : F[k] = IF k \in S THEN Combining!Import(F[k - 1], k) ELSE F[k - 1]
    BY <1>0 DEF ImportsOf
<1> DEFINE In == {k \in 0..Len(second) : F[k] \in R}
<1>2. 0 \in In
    BY <1>1
<1>3. ASSUME NEW k \in 1..Len(second), k - 1 \in In
      PROVE  k \in In
    <2>1. F[k - 1] \in R
        BY <1>3
    <2>2. F[k] \in R
        BY <1>1, <2>1
    <2> QED BY <2>2
<1>4. 0..Len(second) \subseteq In
    <2> HIDE DEF In
    <2> QED BY <1>2, <1>3, Reaches
<1> QED BY <1>1, <1>4

\* What one of the imports brings about, if the others keep it.
LEMMA ImportAllDoes ==
    ASSUME NEW R, NEW Q \in SUBSET R, NEW t \in R, NEW S, Len(second) \in Nat,
           NEW j \in S \cap (1..Len(second)),
           \A u \in R : \A k \in S \cap (1..Len(second)) : Combining!Import(u, k) \in R,
           \A u \in R : Combining!Import(u, j) \in Q,
           \A u \in Q : \A k \in S \cap (1..Len(second)) : Combining!Import(u, k) \in Q
    PROVE  Combining!ImportAll(t, S) \in Q
<1>0. PICK F : ImportsOf(F, t, S)
    BY ImportAllIs
<1>1. /\ F[0] = t /\ F[Len(second)] = Combining!ImportAll(t, S)
      /\ \A k \in 1..Len(second) : F[k] = IF k \in S THEN Combining!Import(F[k - 1], k) ELSE F[k - 1]
    BY <1>0 DEF ImportsOf
<1> DEFINE In == {k \in 0..Len(second) : F[k] \in IF k < j THEN R ELSE Q}
<1>2. 0 \in In
    BY <1>1
<1>3. ASSUME NEW k \in 1..Len(second), k - 1 \in In
      PROVE  k \in In
    <2>1. F[k - 1] \in R /\ (k - 1 >= j => F[k - 1] \in Q)
        BY <1>3
    <2>2. F[k] \in R
        BY <1>1, <2>1
    <2>3. k = j => F[k] \in Q
        BY <1>1, <2>1
    <2>4. k > j => F[k] \in Q
        BY <1>1, <2>1
    <2> QED BY <2>2, <2>3, <2>4
<1>4. 0..Len(second) \subseteq In
    <2> HIDE DEF In
    <2> QED BY <1>2, <1>3, Reaches
<1>5. Len(second) \in In
    BY <1>4
<1> QED BY <1>1, <1>5

Copied(j) == [c |-> second[j].c, binned |-> FALSE]
\* Imports only add to a tree.
Beyond(u, t) == Len(u) >= Len(t) /\ \A i \in 1..Len(t) : u[i] = t[i]

LEMMA ImportIs ==
    ASSUME NEW u \in Trees, second \in Seq(Incoming), NEW k \in 1..Len(second)
    PROVE  LET w == Combining!Import(u, k)
           IN  w \in Trees /\ Len(w) = Len(u) + 1 /\ w[Len(w)] = Copied(k) /\ \A i \in 1..Len(u) : w[i] = u[i]
<1>1. second[k] \in Incoming
    OBVIOUS
<1>2. Copied(k) \in OwnEntries
    BY <1>1 DEF Copied, Incoming, OwnEntries
<1>3. Combining!Import(u, k) = Append(u, Copied(k))
    BY DEF Combining!Import, Copied
<1> QED BY <1>2, <1>3 DEF Trees

LEMMA ImportAllAdds ==
    ASSUME NEW t \in Trees, second \in Seq(Incoming), NEW S
    PROVE  LET w == Combining!ImportAll(t, S)
           IN  /\ w \in Trees /\ Beyond(w, t)
               /\ \A j \in S \cap (1..Len(second)) : \E k \in (Len(t) + 1)..Len(w) : w[k] = Copied(j)
<1> DEFINE R == {u \in Trees : Beyond(u, t)}
<1>0. Len(second) \in Nat /\ t \in R
    BY DEF Beyond, Trees
<1>1. ASSUME NEW u \in R, NEW k \in S \cap (1..Len(second))
      PROVE  Combining!Import(u, k) \in R
    <2>1. PICK w : w = Combining!Import(u, k)
        OBVIOUS
    <2>2. w \in Trees /\ Len(w) = Len(u) + 1 /\ \A i \in 1..Len(u) : w[i] = u[i]
        BY <2>1, ImportIs
    <2>3. Len(u) \in Nat /\ Len(t) \in Nat /\ Beyond(u, t)
        BY DEF Trees
    <2>4. Beyond(w, t)
        BY <2>2, <2>3 DEF Beyond
    <2> QED BY <2>1, <2>2, <2>4
<1>2. Combining!ImportAll(t, S) \in R
    <2> HIDE DEF R
    <2> QED BY <1>0, <1>1, ImportAllIn
<1>3. ASSUME NEW j \in S \cap (1..Len(second))
      PROVE  \E k \in (Len(t) + 1)..Len(Combining!ImportAll(t, S)) : Combining!ImportAll(t, S)[k] = Copied(j)
    <2> DEFINE Q == {u \in R : \E k \in (Len(t) + 1)..Len(u) : u[k] = Copied(j)}
    <2>1. ASSUME NEW u \in R
          PROVE  Combining!Import(u, j) \in Q
        <3>1. PICK w : w = Combining!Import(u, j)
            OBVIOUS
        <3>a. w \in R
            BY <1>1, <3>1
        <3>b. Len(w) = Len(u) + 1 /\ w[Len(w)] = Copied(j)
            BY <3>1, ImportIs
        <3>c. Len(u) \in Nat /\ Len(u) >= Len(t) /\ Len(t) \in Nat
            BY DEF Beyond, Trees
        <3>2. w \in R /\ Len(w) = Len(u) + 1 /\ w[Len(w)] = Copied(j) /\ Len(u) \in Nat /\ Len(u) >= Len(t) /\ Len(t) \in Nat
            BY <3>a, <3>b, <3>c
        <3>3. Len(w) \in (Len(t) + 1)..Len(w)
            BY <3>2
        <3> QED BY <3>1, <3>2, <3>3
    <2>2. ASSUME NEW u \in Q, NEW k \in S \cap (1..Len(second))
          PROVE  Combining!Import(u, k) \in Q
        <3>1. PICK w : w = Combining!Import(u, k)
            OBVIOUS
        <3>2. w \in R /\ Len(w) = Len(u) + 1 /\ (\A i \in 1..Len(u) : w[i] = u[i]) /\ Len(u) \in Nat
            <4>1. w \in R
                BY <1>1, <3>1
            <4>2. Len(w) = Len(u) + 1 /\ \A i \in 1..Len(u) : w[i] = u[i]
                BY <3>1, ImportIs
            <4>3. Len(u) \in Nat
                BY DEF Trees
            <4> QED BY <4>1, <4>2, <4>3
        <3>3. PICK i \in (Len(t) + 1)..Len(u) : u[i] = Copied(j)
            OBVIOUS
        <3>4. i \in (Len(t) + 1)..Len(w) /\ w[i] = Copied(j)
            BY <1>0, <3>2, <3>3 DEF Trees
        <3> QED BY <3>1, <3>2, <3>4
    <2>3. Combining!ImportAll(t, S) \in Q
        <3>1. Q \in SUBSET R
            OBVIOUS
        <3> HIDE DEF Q, R
        <3> QED BY <1>0, <1>1, <2>1, <2>2, <3>1, ImportAllDoes
    <2> QED BY <2>3
<1> QED BY <1>2, <1>3

\* The groups of one kind, one after the other.
TurnStep(u, n, gs, side) ==
    IF \E g \in gs : Combining!TurnOf(g) = n
    THEN LET g == CHOOSE h \in gs : Combining!TurnOf(h) = n IN Combining!ApplyGroup(u, g, side[g])
    ELSE u
InTurn(F, n, t, gs, side) == F = [k \in 0..n |-> IF k = 0 THEN t ELSE TurnStep(F[k - 1], k, gs, side)]
MergesOf(F, t, gs, side) ==
    /\ F[0] = t /\ F[Combining!Turns] = Combining!MergeGroups(t, gs, side)
    /\ \A k \in 1..Combining!Turns : F[k] = TurnStep(F[k - 1], k, gs, side)

LEMMA SomeInTurn ==
    ASSUME NEW t, NEW gs, NEW side, NEW n \in Nat
    PROVE  \E F : InTurn(F, n, t, gs, side)
<1> DEFINE Good == {k \in Nat : \E F : InTurn(F, k, t, gs, side)}
<1> DEFINE Next1(u, i) == TurnStep(u, i, gs, side)
<1>0. \A F, k : InTurn(F, k, t, gs, side) <=> F = [i \in 0..k |-> IF i = 0 THEN t ELSE Next1(F[i - 1], i)]
    BY Zenon DEF InTurn
<1> HIDE DEF Next1
<1>1. 0 \in Good
    <2>1. PICK F : F = [k \in 0..0 |-> t]
        OBVIOUS
    <2>2. F = [i \in 0..0 |-> IF i = 0 THEN t ELSE Next1(F[i - 1], i)]
        BY <2>1
    <2> QED BY <1>0, <2>2
<1>2. ASSUME NEW k \in 1..n, k - 1 \in Good
      PROVE  k \in Good
    <2>1. PICK F : InTurn(F, k - 1, t, gs, side)
        BY <1>2
    <2>2. PICK G : G = [i \in 0..k |-> IF i = 0 THEN t ELSE Next1(F[i - 1], i)]
        OBVIOUS
    <2>3. \A i \in 0..k - 1 : F[i] = IF i = 0 THEN t ELSE Next1(F[i - 1], i)
        <3>1. F = [i \in 0..k - 1 |-> IF i = 0 THEN t ELSE Next1(F[i - 1], i)]
            BY <1>0, <2>1
        <3> QED BY <3>1, Zenon
    <2>4. \A i \in 0..k - 1 : G[i] = F[i]
        <3>1. \A i \in 0..k - 1 : G[i] = IF i = 0 THEN t ELSE Next1(F[i - 1], i)
            BY <2>2
        <3> QED BY <2>3, <3>1
    <2>5. \A i \in 0..k : i # 0 => i - 1 \in 0..k - 1
        OBVIOUS
    <2>6. \A i \in 0..k : (IF i = 0 THEN t ELSE Next1(F[i - 1], i)) = (IF i = 0 THEN t ELSE Next1(G[i - 1], i))
        BY <2>4, <2>5
    <2>7. G = [i \in 0..k |-> IF i = 0 THEN t ELSE Next1(G[i - 1], i)]
        BY <2>2, <2>6
    <2>8. InTurn(G, k, t, gs, side)
        BY <1>0, <2>7
    <2> QED BY <2>8
<1>3. 0..n \subseteq Good
    <2> HIDE DEF Good
    <2> QED BY <1>1, <1>2, Reaches
<1> QED BY <1>3

LEMMA MergeGroupsIs ==
    ASSUME NEW t, NEW gs, NEW side, Combining!Turns \in Nat
    PROVE  \E F : MergesOf(F, t, gs, side)
<1>1. PICK F : F = CHOOSE G : InTurn(G, Combining!Turns, t, gs, side)
    OBVIOUS
<1>2. InTurn(F, Combining!Turns, t, gs, side)
    BY <1>1, SomeInTurn
<1>3. Combining!MergeGroups(t, gs, side) = F[Combining!Turns]
    BY <1>1 DEF Combining!MergeGroups, InTurn, TurnStep
<1>4. \A k \in 0..Combining!Turns : F[k] = IF k = 0 THEN t ELSE TurnStep(F[k - 1], k, gs, side)
    BY <1>2, Zenon DEF InTurn
<1>5. MergesOf(F, t, gs, side)
    BY <1>3, <1>4 DEF MergesOf
<1> QED BY <1>5

\* What every group keeps.
Stays(R, gs, side) == \A u \in R : \A g \in gs : Combining!ApplyGroup(u, g, side[g]) \in R
LEMMA MergeGroupsIn ==
    ASSUME NEW R, NEW t \in R, NEW gs, NEW side, Combining!Turns \in Nat, Stays(R, gs, side)
    PROVE  Combining!MergeGroups(t, gs, side) \in R
<1>0. PICK F : MergesOf(F, t, gs, side)
    BY MergeGroupsIs
<1>1. /\ F[0] = t /\ F[Combining!Turns] = Combining!MergeGroups(t, gs, side)
      /\ \A k \in 1..Combining!Turns : F[k] = TurnStep(F[k - 1], k, gs, side)
    BY <1>0 DEF MergesOf
<1> DEFINE In == {k \in 0..Combining!Turns : F[k] \in R}
<1>2. 0 \in In
    BY <1>1
<1>3. ASSUME NEW k \in 1..Combining!Turns, k - 1 \in In
      PROVE  k \in In
    <2>1. F[k - 1] \in R
        BY <1>3
    <2>2. TurnStep(F[k - 1], k, gs, side) \in R
        BY <2>1 DEF TurnStep, Stays
    <2> QED BY <1>1, <2>2
<1>4. 0..Combining!Turns \subseteq In
    <2> HIDE DEF In
    <2> QED BY <1>2, <1>3, Reaches
<1> QED BY <1>1, <1>4

\* What one of them brings about, if the others keep it.
InOrder(gs) ==
    /\ \A g \in gs : Combining!TurnOf(g) \in 1..Combining!Turns
    /\ \A g, h \in gs : Combining!TurnOf(g) = Combining!TurnOf(h) => g = h
LEMMA MergeGroupsDoes ==
    ASSUME NEW R, NEW Q \in SUBSET R, NEW t \in R, NEW gs, NEW side, Combining!Turns \in Nat, InOrder(gs),
           NEW g \in gs, Stays(R, gs, side), \A u \in R : Combining!ApplyGroup(u, g, side[g]) \in Q, Stays(Q, gs, side)
    PROVE  Combining!MergeGroups(t, gs, side) \in Q
<1>0. PICK F : MergesOf(F, t, gs, side)
    BY MergeGroupsIs
<1>1. /\ F[0] = t /\ F[Combining!Turns] = Combining!MergeGroups(t, gs, side)
      /\ \A k \in 1..Combining!Turns : F[k] = TurnStep(F[k - 1], k, gs, side)
    BY <1>0 DEF MergesOf
<1> DEFINE j == Combining!TurnOf(g)
           In == {k \in 0..Combining!Turns : F[k] \in IF k < j THEN R ELSE Q}
<1>j. j \in 1..Combining!Turns
    BY DEF InOrder
<1>2. 0 \in In
    BY <1>1, <1>j
<1>3. ASSUME NEW k \in 1..Combining!Turns, k - 1 \in In
      PROVE  k \in In
    <2>1. F[k - 1] \in R /\ (k - 1 >= j => F[k - 1] \in Q)
        BY <1>3, <1>j
    <2>2. F[k] \in R
        <3>1. TurnStep(F[k - 1], k, gs, side) \in R
            BY <2>1 DEF TurnStep, Stays
        <3> QED BY <1>1, <3>1
    <2>3. k = j => F[k] \in Q
        <3>1. k = j => TurnStep(F[k - 1], k, gs, side) = Combining!ApplyGroup(F[k - 1], g, side[g])
            BY DEF TurnStep, InOrder
        <3> QED BY <1>1, <2>1, <3>1
    <2>4. k > j => F[k] \in Q
        <3>1. F[k - 1] \in Q => TurnStep(F[k - 1], k, gs, side) \in Q
            BY DEF TurnStep, Stays
        <3> QED BY <1>1, <1>j, <2>1, <3>1
    <2> QED BY <1>j, <2>2, <2>3, <2>4
<1>4. 0..Combining!Turns \subseteq In
    <2> HIDE DEF In
    <2> QED BY <1>2, <1>3, Reaches
<1>5. Combining!Turns \in In
    BY <1>4
<1> QED BY <1>1, <1>5, <1>j

LEMMA UuidsFirstIn ==
    ASSUME NEW R, NEW t \in R, NEW gs, NEW side, Combining!Turns \in Nat, Stays(R, gs, side)
    PROVE  Combining!UuidsFirst(t, gs, side) \in R
<1>1. Stays(R, Combining!Of(gs, "uuid"), side) /\ Stays(R, Combining!Of(gs, "heuristic"), side)
    BY DEF Stays, Combining!Of
<1> QED BY <1>1, MergeGroupsIn DEF Combining!UuidsFirst

LEMMA UuidsFirstDoes ==
    ASSUME NEW R, NEW Q \in SUBSET R, NEW t \in R, NEW gs, NEW side, Combining!Turns \in Nat,
           InOrder(Combining!Of(gs, "uuid")), InOrder(Combining!Of(gs, "heuristic")),
           NEW g \in gs, g.origin \in {"uuid", "heuristic"},
           Stays(R, gs, side), \A u \in R : Combining!ApplyGroup(u, g, side[g]) \in Q, Stays(Q, gs, side)
    PROVE  Combining!UuidsFirst(t, gs, side) \in Q
<1>1. \A S \in {R, Q} : \A o \in {"uuid", "heuristic"} : Stays(S, Combining!Of(gs, o), side)
    BY DEF Stays, Combining!Of
<1>2. CASE g.origin = "uuid"
    <2>1. g \in Combining!Of(gs, "uuid")
        BY <1>2 DEF Combining!Of
    <2>2. Combining!MergeGroups(t, Combining!Of(gs, "uuid"), side) \in Q
        BY <1>1, <2>1, MergeGroupsDoes
    <2> QED BY <1>1, <2>2, MergeGroupsIn DEF Combining!UuidsFirst
<1>3. CASE g.origin = "heuristic"
    <2>1. g \in Combining!Of(gs, "heuristic")
        BY <1>3 DEF Combining!Of
    <2>2. Combining!MergeGroups(t, Combining!Of(gs, "uuid"), side) \in R
        BY <1>1, MergeGroupsIn
    <2> QED BY <1>1, <2>1, <2>2, MergeGroupsDoes DEF Combining!UuidsFirst
<1> QED BY <1>2, <1>3

-----------------------------------------------------------------------------
(* Combine: what one group does to the tree.                               *)

LEMMA LeastIs ==
    ASSUME NEW S \in SUBSET Nat, S # {}
    PROVE  Combining!Least(S) \in S /\ \A k \in S : Combining!Least(S) <= k
BY LeastOf DEF Combining!Least

LEMMA OnlyOne ==
    ASSUME NEW n \in Nat, NEW S \in SUBSET (1..n), Combining!Cardinality(S) = 1
    PROVE  S = {Combining!Least(S)} /\ Combining!Least(S) \in S
<1>1. Cardinality(S) = 1
    BY DEF Combining!Cardinality, Cardinality
<1>2. IsFiniteSet(S)
    <2>1. IsFiniteSet(1..n)
        BY FS_Interval
    <2> QED BY <2>1, FS_Subset
<1>3. PICK x : S = {x}
    BY <1>1, <1>2, FS_Singleton
<1>4. Combining!Least(S) \in S
    BY <1>3, LeastIs
<1> QED BY <1>3, <1>4

GroupTyped(g) ==
    /\ g.ours \in SUBSET (1..MaxEntries) /\ g.ours # {}
    /\ g.theirs \in SUBSET (1..Len(second)) /\ g.theirs # {}

LEMMA PairIs ==
    ASSUME CombineConstants, second \in Seq(Incoming), NEW g, GroupTyped(g), Combining!Pair(g)
    PROVE  g.ours = {Combining!Least(g.ours)} /\ g.theirs = {Combining!Least(g.theirs)}
<1>1. MaxEntries \in Nat /\ Len(second) \in Nat
    BY DEF CombineConstants
<1> QED BY <1>1, OnlyOne DEF GroupTyped, Combining!Pair

Kept(c, d) == \A f \in Columns : c[f] \in {None, d[f]}

LEMMA MergeContentIs ==
    ASSUME NEW c \in Logins, NEW d \in Logins, NEW preferSecond \in BOOLEAN
    PROVE  LET m == Combining!MergeContent(c, d, preferSecond)
           IN  /\ m \in Logins
               /\ ~preferSecond => Kept(c, m)
               /\ preferSecond /\ d.pass # None => m.pass = d.pass
<1>1. DOMAIN c = Columns
    BY DEF Logins
<1>2. Combining!MergeContent(c, d, preferSecond) = [f \in Columns |-> Combining!MergeField(c[f], d[f], preferSecond)]
    BY <1>1 DEF Combining!MergeContent
<1>3. \A f \in Columns : Combining!MergeField(c[f], d[f], preferSecond) \in {c[f], d[f]}
    BY DEF Combining!MergeField
<1>4. Combining!MergeContent(c, d, preferSecond) \in Logins
    BY <1>2, <1>3 DEF Logins
<1>5. \A f \in Columns : Combining!MergeField(c[f], d[f], FALSE) = c[f] \/ c[f] = None
    BY DEF Combining!MergeField
<1>6. "pass" \in Columns /\ (d.pass # None => Combining!MergeField(c["pass"], d["pass"], TRUE) = d.pass)
    BY DEF Combining!MergeField, Columns
<1>7. ~preferSecond => Kept(c, Combining!MergeContent(c, d, preferSecond))
    BY <1>2, <1>5 DEF Kept
<1>8. preferSecond /\ d.pass # None => Combining!MergeContent(c, d, preferSecond).pass = d.pass
    BY <1>2, <1>6
<1> QED BY <1>4, <1>7, <1>8

LEMMA MergeIntoIs ==
    ASSUME NEW u \in Trees, second \in Seq(Incoming), NEW i, NEW j \in 1..Len(second), NEW preferSecond \in BOOLEAN,
           NEW w, w = Combining!MergeInto(u, i, j, preferSecond)
    PROVE  /\ w \in Trees /\ Len(w) = Len(u)
           /\ \A k \in 1..Len(u) :
                 /\ w[k].binned = u[k].binned
                 /\ k # i \/ ~Combining!Here => w[k] = u[k]
                 /\ ~preferSecond => Kept(u[k].c, w[k].c)
                 /\ k = i /\ Combining!Here /\ preferSecond /\ second[j].c.pass # None => w[k].c.pass = second[j].c.pass
<1>1. \A k \in 1..Len(u) : Kept(u[k].c, u[k].c)
    BY DEF Kept
<1>2. CASE ~Combining!Here \/ i \notin 1..Len(u)
    <2>1. ~Combining!Here => w = u
        BY DEF Combining!MergeInto
    <2>2. DOMAIN u = 1..Len(u)
        BY DEF Trees
    <2>3. Combining!Here => w = [u EXCEPT ![i].c = Combining!MergeContent(@, second[j].c, preferSecond)]
        BY DEF Combining!MergeInto
    <2>4. w = u
        BY <1>2, <2>1, <2>2, <2>3, SMT DEF Trees
    <2> QED BY <1>1, <1>2, <2>4
<1>3. CASE Combining!Here /\ i \in 1..Len(u)
    <2>1. PICK m : m = Combining!MergeContent(u[i].c, second[j].c, preferSecond)
        OBVIOUS
    <2>2. u[i] \in OwnEntries /\ u[i].c \in Logins /\ second[j].c \in Logins
        <3>1. u[i] \in OwnEntries
            BY <1>3 DEF Trees
        <3>2. second[j] \in Incoming
            OBVIOUS
        <3> QED BY <3>1, <3>2 DEF OwnEntries, Incoming
    <2>3. m \in Logins /\ (~preferSecond => Kept(u[i].c, m)) /\ (preferSecond /\ second[j].c.pass # None => m.pass = second[j].c.pass)
        BY <2>1, <2>2, MergeContentIs
    <2>4. w = [u EXCEPT ![i] = [u[i] EXCEPT !.c = m]]
        BY <1>3, <2>1 DEF Combining!MergeInto
    <2>5. PICK e : e = [u[i] EXCEPT !.c = m]
        OBVIOUS
    <2>6. e \in OwnEntries /\ e.binned = u[i].binned /\ e.c = m
        BY <2>2, <2>3, <2>5 DEF OwnEntries
    <2>7. w = [u EXCEPT ![i] = e]
        BY <2>4, <2>5
    <2>8. w \in Trees /\ Len(w) = Len(u) /\ w[i] = e /\ \A k \in 1..Len(u) : k # i => w[k] = u[k]
        BY <1>3, <2>6, <2>7 DEF Trees
    <2>9. ASSUME NEW k \in 1..Len(u), k = i
          PROVE  /\ w[k].binned = u[k].binned
                 /\ ~preferSecond => Kept(u[k].c, w[k].c)
                 /\ preferSecond /\ second[j].c.pass # None => w[k].c.pass = second[j].c.pass
        BY <2>3, <2>6, <2>8, <2>9
    <2> QED BY <1>1, <1>3, <2>8, <2>9
<1> QED BY <1>2, <1>3

LEMMA BinnedIs ==
    ASSUME NEW u \in Trees, NEW S, NEW w, w = Combining!Binned(u, S)
    PROVE  /\ w \in Trees /\ Len(w) = Len(u)
           /\ \A k \in 1..Len(u) : k \notin S \/ ~Combining!Here => w[k] = u[k]
<1>1. DOMAIN u = 1..Len(u) /\ Len(u) \in Nat /\ \A k \in 1..Len(u) : u[k] \in OwnEntries
    BY DEF Trees
<1>2. w = [k \in 1..Len(u) |-> IF Combining!Here /\ k \in S THEN [u[k] EXCEPT !.binned = TRUE] ELSE u[k]]
    BY <1>1 DEF Combining!Binned
<1>3. \A k \in 1..Len(u) : [u[k] EXCEPT !.binned = TRUE] \in OwnEntries
    BY <1>1 DEF OwnEntries
<1>4. w \in [1..Len(u) -> OwnEntries]
    BY <1>1, <1>2, <1>3
<1>5. w \in Trees /\ Len(w) = Len(u)
    BY <1>1, <1>4 DEF Trees
<1> QED BY <1>2, <1>5

\* What becomes of the entries of the tree, and of those that are imported.
LEMMA ApplyGroupIs ==
    ASSUME CombineConstants, second \in Seq(Incoming), NEW u \in Trees, NEW g, GroupTyped(g),
           NEW side \in Combining!Sides, NEW w, w = Combining!ApplyGroup(u, g, side)
    PROVE  /\ w \in Trees /\ Len(w) >= Len(u)
           /\ \A k \in 1..Len(u) :
                 /\ k \notin g.ours \/ ~Combining!Here => w[k] = u[k]
                 /\ side # "keep-b" => w[k].binned = u[k].binned /\ Kept(u[k].c, w[k].c)
                 /\ Combining!Pair(g) => w[k].binned = u[k].binned
                 /\ Combining!Pair(g) /\ Combining!Here /\ side = "keep-b" /\ k \in g.ours
                        => \A j \in g.theirs : second[j].c.pass # None => w[k].c.pass = second[j].c.pass
           /\ side = "keep-both" \/ (side = "keep-b" /\ ~Combining!Pair(g))
                => \A j \in g.theirs : \E k \in (Len(u) + 1)..Len(w) : w[k] = Copied(j)
<1>0. Len(u) \in Nat /\ Len(second) \in Nat /\ \A k \in 1..Len(u) : Kept(u[k].c, u[k].c)
    BY DEF Trees, Kept
<1>1. CASE side = "keep-both"
    <2>1. w = Combining!ImportAll(u, g.theirs)
        BY <1>1 DEF Combining!ApplyGroup
    <2>2. w \in Trees /\ Beyond(w, u) /\ \A j \in g.theirs : \E k \in (Len(u) + 1)..Len(w) : w[k] = Copied(j)
        BY <2>1, ImportAllAdds DEF GroupTyped
    <2> QED BY <1>0, <1>1, <2>2 DEF Beyond
<1>2. CASE side # "keep-both" /\ Combining!Pair(g)
    <2>1. PICK i, j : i = Combining!Least(g.ours) /\ j = Combining!Least(g.theirs)
        OBVIOUS
    <2>2. g.ours = {i} /\ g.theirs = {j} /\ j \in 1..Len(second)
        BY <1>2, <2>1, PairIs DEF GroupTyped
    <2>3. PICK b \in BOOLEAN : b = (side = "keep-b")
        OBVIOUS
    <2>4. w = Combining!MergeInto(u, i, j, b)
        BY <1>2, <2>1, <2>3 DEF Combining!ApplyGroup
    <2>5. /\ w \in Trees /\ Len(w) = Len(u)
          /\ \A k \in 1..Len(u) :
                 /\ w[k].binned = u[k].binned
                 /\ k # i \/ ~Combining!Here => w[k] = u[k]
                 /\ ~b => Kept(u[k].c, w[k].c)
                 /\ k = i /\ Combining!Here /\ b /\ second[j].c.pass # None => w[k].c.pass = second[j].c.pass
        BY <2>2, <2>4, MergeIntoIs
    <2>6. ASSUME NEW k \in 1..Len(u)
          PROVE  /\ k \notin g.ours \/ ~Combining!Here => w[k] = u[k]
                 /\ side # "keep-b" => w[k].binned = u[k].binned /\ Kept(u[k].c, w[k].c)
                 /\ w[k].binned = u[k].binned
        BY <2>2, <2>3, <2>5
    <2>7. ASSUME NEW k \in 1..Len(u), Combining!Here, side = "keep-b", k \in g.ours, NEW l \in g.theirs, second[l].c.pass # None
          PROVE  w[k].c.pass = second[l].c.pass
        BY <2>2, <2>3, <2>5, <2>7
    <2>8. w \in Trees /\ Len(w) >= Len(u)
        BY <1>0, <2>5
    <2> QED BY <1>2, <2>6, <2>7, <2>8
<1>3. CASE side = "keep-a" /\ ~Combining!Pair(g)
    <2>1. w = u
        BY <1>3 DEF Combining!ApplyGroup
    <2> QED BY <1>0, <1>3, <2>1
<1>4. CASE side = "keep-b" /\ ~Combining!Pair(g)
    <2>1. PICK b : b = Combining!Binned(u, g.ours)
        OBVIOUS
    <2>2. w = Combining!ImportAll(b, g.theirs)
        BY <1>4, <2>1 DEF Combining!ApplyGroup
    <2>3. b \in Trees /\ Len(b) = Len(u) /\ \A k \in 1..Len(u) : k \notin g.ours \/ ~Combining!Here => b[k] = u[k]
        BY <2>1, BinnedIs
    <2>4. w \in Trees /\ Beyond(w, b) /\ \A j \in g.theirs : \E k \in (Len(b) + 1)..Len(w) : w[k] = Copied(j)
        BY <2>2, <2>3, ImportAllAdds DEF GroupTyped
    <2> QED BY <1>0, <1>4, <2>3, <2>4 DEF Beyond
<1> QED BY <1>1, <1>2, <1>3, <1>4 DEF Combining!Sides

-----------------------------------------------------------------------------
(* Combine: the invariant.                                                 *)

AllGroups(p) == p.exact \cup p.identical \cup p.divergent
\* The groups of a preview.
Matched(p) ==
    /\ \A g \in AllGroups(p) : GroupTyped(g)
    /\ \A g \in p.exact \cup p.identical : Combining!Pair(g)
    /\ \A g \in p.divergent : g.origin \in {"uuid", "heuristic"}
    /\ InOrder(Combining!Of(p.divergent, "uuid")) /\ InOrder(Combining!Of(p.divergent, "heuristic"))
    /\ p.rest \subseteq 1..Len(second)
    /\ \A j \in 1..Len(second) : j \in p.rest \/ \E g \in AllGroups(p) : j \in g.theirs
    /\ \A g \in p.divergent, h \in p.exact \cup p.identical : g.theirs \cap h.theirs = {}
\* And the entries of ours they name.
Placed(p) == p.vault = vault => \A g \in AllGroups(p) : g.ours \subseteq 1..Len(tree)
Alike(p) ==
    ~failed /\ p.vault = vault =>
        \A g \in p.exact \cup p.identical :
            \A i \in g.ours, j \in g.theirs : tree[i].c.pass = second[j].c.pass
CInv ==
    /\ vault \in 1..2 /\ unlocked \in BOOLEAN /\ failed \in BOOLEAN
    /\ tree \in Trees /\ Len(tree) <= MaxEntries
    /\ second \in Theirs \cup {<<>>}
    /\ applies \in 0..MaxApplies
    /\ pending.made \in BOOLEAN /\ pending.vault \in 0..2 /\ pending.vault <= vault
    /\ imported \in [DOMAIN second -> Nat]
    /\ failed \/ \A j \in DOMAIN second : imported[j] = 0
    /\ pending.made => second # <<>> /\ Matched(pending) /\ Placed(pending) /\ Alike(pending)

LEMMA SinglesPair ==
    ASSUME NEW x, NEW y, NEW o
    PROVE  Combining!Pair(Combining!Group(o, {x}, {y}))
<1>1. Cardinality({x}) = 1 /\ Cardinality({y}) = 1
    BY FS_Singleton
<1> QED BY <1>1 DEF Combining!Pair, Combining!Group, Combining!Cardinality, Cardinality

LEMMA PreviewMatched ==
    ASSUME CombineConstants, tree \in Trees, Len(tree) <= MaxEntries, second \in Seq(Incoming),
           NEW p, p = Combining!Preview
    PROVE  Matched(p) /\ Placed(p) /\ Alike(p) /\ p.made /\ p.vault = vault
<1> DEFINE all == DOMAIN second
           lineage == {j \in all : second[j].uuid \in Combining!Records}
           exact == {j \in all \ lineage : Combining!SameKey(second[j].c) # {}}
           left == all \ (lineage \cup exact)
           keys == {Combining!SiteKey(second[j].c) : j \in left} \ {None}
           Site(k) == Combining!Group("heuristic",
                                   {i \in Combining!Records : Combining!SiteKey(tree[i].c) = k},
                                   {j \in left : Combining!SiteKey(second[j].c) = k})
           heuristic == {g \in {Site(k) : k \in keys} : g.ours # {}}
           Shared(j) == Combining!Group("uuid", {second[j].uuid}, {j})
           uuids == {Shared(j) : j \in lineage}
           Equal(j) == Combining!Group("exact", {Combining!Least(Combining!SameKey(second[j].c))}, {j})
<1>1. /\ p.exact = {Equal(j) : j \in exact}
      /\ p.identical = {g \in uuids \cup heuristic : Combining!Identical(g)}
      /\ p.divergent = {g \in uuids \cup heuristic : ~Combining!Identical(g)}
      /\ p.rest = left \ UNION {g.theirs : g \in heuristic}
      /\ p.made = TRUE /\ p.vault = vault
    BY DEF Combining!Preview
<1>2. all = 1..Len(second) /\ Combining!Records \in SUBSET (1..Len(tree)) /\ Combining!Records \in SUBSET (1..MaxEntries)
    BY DEF Trees, Combining!Records, CombineConstants
<1>3. \A j \in lineage : /\ Shared(j).ours = {second[j].uuid} /\ Shared(j).theirs = {j} /\ Shared(j).origin = "uuid"
                         /\ second[j].uuid \in Combining!Records
    BY DEF Combining!Group
<1>4. \A k \in keys : /\ Site(k).ours = {i \in Combining!Records : Combining!SiteKey(tree[i].c) = k}
                      /\ Site(k).theirs = {j \in left : Combining!SiteKey(second[j].c) = k}
                      /\ Site(k).origin = "heuristic"
    BY DEF Combining!Group
<1>5. \A j \in exact : /\ Equal(j).theirs = {j} /\ Equal(j).ours = {Combining!Least(Combining!SameKey(second[j].c))}
                       /\ Combining!Least(Combining!SameKey(second[j].c)) \in Combining!SameKey(second[j].c)
                       /\ Combining!Pair(Equal(j))
    <2>1. \A j \in exact : Combining!SameKey(second[j].c) \in SUBSET Nat /\ Combining!SameKey(second[j].c) # {}
        <3>1. Combining!Records \in SUBSET Nat
            BY <1>2
        <3>2. \A c : Combining!SameKey(c) \subseteq Combining!Records
            BY DEF Combining!SameKey
        <3>3. \A j \in exact : Combining!SameKey(second[j].c) # {}
            OBVIOUS
        <3> QED BY <3>1, <3>2, <3>3
    <2>2. \A j \in exact : Combining!Least(Combining!SameKey(second[j].c)) \in Combining!SameKey(second[j].c)
        BY <2>1, LeastIs
    <2>3. \A j \in exact : Combining!Pair(Equal(j))
        BY SinglesPair
    <2> QED BY <2>2, <2>3 DEF Combining!Group
<1> HIDE DEF Site, Shared, Equal, keys, lineage, exact, left
<1>6. uuids = {Shared(j) : j \in lineage} /\ heuristic = {g \in {Site(k) : k \in keys} : g.ours # {}}
    OBVIOUS
<1>7. lineage \subseteq all /\ exact \subseteq all /\ left \subseteq all
    BY DEF lineage, exact, left
<1>8. all = lineage \cup exact \cup left /\ lineage \cap exact = {} /\ lineage \cap left = {} /\ exact \cap left = {}
    BY DEF lineage, exact, left
<1>9. \A k \in keys : \E j \in left : Combining!SiteKey(second[j].c) = k
    BY DEF keys
<1> HIDE DEF Site, Shared, Equal, keys, lineage, exact, left, all, uuids, heuristic
<1>10. \A g \in uuids \cup heuristic :
           /\ g.ours \in SUBSET Combining!Records /\ g.ours # {} /\ g.theirs \in SUBSET all /\ g.theirs # {}
           /\ g.origin \in {"uuid", "heuristic"}
    <2>1. ASSUME NEW g \in uuids
          PROVE  /\ g.ours \in SUBSET Combining!Records /\ g.ours # {} /\ g.theirs \in SUBSET all /\ g.theirs # {}
                 /\ g.origin \in {"uuid", "heuristic"}
        <3>1. PICK j \in lineage : g = Shared(j)
            BY <1>6
        <3>2. g.ours = {second[j].uuid} /\ second[j].uuid \in Combining!Records /\ g.origin = "uuid"
            BY <1>3, <3>1
        <3>3. g.theirs = {j} /\ j \in all
            BY <1>3, <1>7, <3>1
        <3> QED BY <3>2, <3>3
    <2>2. ASSUME NEW g \in heuristic
          PROVE  /\ g.ours \in SUBSET Combining!Records /\ g.ours # {} /\ g.theirs \in SUBSET all /\ g.theirs # {}
                 /\ g.origin \in {"uuid", "heuristic"}
        <3>1. PICK k \in keys : g = Site(k) /\ g.ours # {}
            BY <1>6
        <3>2. PICK j \in left : Combining!SiteKey(second[j].c) = k
            BY <1>9
        <3>3. g.origin \in {"uuid", "heuristic"}
            BY <1>4, <3>1
        <3>4. g.ours \in SUBSET Combining!Records /\ g.theirs \in SUBSET all
            BY <1>4, <1>7, <3>1
        <3>5. j \in g.theirs
            BY <1>4, <3>1, <3>2
        <3> QED BY <3>1, <3>3, <3>4, <3>5
    <2> QED BY <2>1, <2>2
<1>11. \A g \in p.exact : \E j \in exact : g = Equal(j) /\ g.theirs = {j} /\ g.ours \in SUBSET Combining!Records /\ g.ours # {}
    <2>1. \A j \in exact : Combining!SameKey(second[j].c) \subseteq Combining!Records
        BY DEF Combining!SameKey
    <2>2. ASSUME NEW g \in p.exact
          PROVE  \E j \in exact : g = Equal(j) /\ g.theirs = {j} /\ g.ours \in SUBSET Combining!Records /\ g.ours # {}
        <3>1. PICK j \in exact : g = Equal(j)
            BY <1>1, <2>2
        <3> QED BY <1>5, <2>1, <3>1
    <2> QED BY <2>2
<1>12. \A g \in AllGroups(p) : g \in p.exact \/ g \in uuids \cup heuristic
    BY <1>1 DEF AllGroups
<1>13. ASSUME NEW g \in AllGroups(p)
       PROVE  GroupTyped(g) /\ g.ours \subseteq 1..Len(tree)
    <2>1. g.ours \in SUBSET Combining!Records /\ g.ours # {} /\ g.theirs \in SUBSET all /\ g.theirs # {}
        BY <1>7, <1>10, <1>11, <1>12
    <2> QED BY <1>2, <2>1 DEF GroupTyped
<1>14. \A g \in p.exact \cup p.identical : Combining!Pair(g)
    <2>1. \A g \in p.exact : Combining!Pair(g)
        BY <1>5, <1>11
    <2>2. \A g \in p.identical : Combining!Pair(g)
        BY <1>1 DEF Combining!Identical
    <2> QED BY <2>1, <2>2
<1>15. InOrder(Combining!Of(p.divergent, "uuid"))
    <2>1. ASSUME NEW g \in Combining!Of(p.divergent, "uuid")
          PROVE  \E j \in lineage : g = Shared(j) /\ Combining!TurnOf(g) = j
        <3>1. g \in uuids \cup heuristic /\ g.origin = "uuid"
            BY <1>1 DEF Combining!Of
        <3>2. g \in uuids
            BY <1>4, <1>6, <3>1
        <3>3. PICK j \in lineage : g = Shared(j)
            BY <1>6, <3>2
        <3>4. Combining!TurnOf(g) = Combining!Least({j})
            BY <1>3, <3>1, <3>3 DEF Combining!TurnOf
        <3>5. {j} \in SUBSET Nat /\ {j} # {}
            BY <1>2, <1>7
        <3>6. Combining!Least({j}) = j
            BY <3>5, LeastIs
        <3> QED BY <3>3, <3>4, <3>6
    <2>2. lineage \subseteq 1..Combining!Turns
        BY <1>2, <1>7 DEF Combining!Turns, CombineConstants
    <2> QED BY <2>1, <2>2 DEF InOrder
<1>16. InOrder(Combining!Of(p.divergent, "heuristic"))
    <2>1. ASSUME NEW g \in Combining!Of(p.divergent, "heuristic")
          PROVE  \E k \in keys : /\ g = Site(k) /\ Combining!TurnOf(g) \in Combining!Records
                                 /\ Combining!SiteKey(tree[Combining!TurnOf(g)].c) = k
        <3>1. g \in uuids \cup heuristic /\ g.origin = "heuristic"
            BY <1>1 DEF Combining!Of
        <3>2. g \in heuristic
            BY <1>3, <1>6, <3>1
        <3>3. PICK k \in keys : g = Site(k) /\ g.ours # {}
            BY <1>6, <3>2
        <3>4. Combining!TurnOf(g) = Combining!Least(g.ours)
            BY <3>1 DEF Combining!TurnOf
        <3>5. g.ours \in SUBSET Nat
            <4>1. Combining!Records \subseteq Nat
                BY <1>2
            <4>2. g.ours \subseteq Combining!Records
                BY <1>10, <3>2
            <4> QED BY <4>1, <4>2
        <3>6. Combining!Least(g.ours) \in g.ours
            BY <3>3, <3>5, LeastIs
        <3> QED BY <1>4, <3>3, <3>4, <3>6
    <2>2. Combining!Records \subseteq 1..Combining!Turns
        BY <1>2 DEF Combining!Turns, CombineConstants
    <2> QED BY <2>1, <2>2 DEF InOrder
<1>17. p.rest \subseteq 1..Len(second)
    BY <1>1, <1>2, <1>7
<1>18. ASSUME NEW j \in 1..Len(second)
       PROVE  j \in p.rest \/ \E g \in AllGroups(p) : j \in g.theirs
    <2>1. CASE j \in lineage
        <3>1. Shared(j) \in uuids /\ j \in Shared(j).theirs
            BY <1>3, <1>6, <2>1
        <3> QED BY <1>1, <3>1 DEF AllGroups
    <2>2. CASE j \in exact
        <3>1. Equal(j) \in p.exact /\ j \in Equal(j).theirs
            BY <1>1, <1>5, <2>2
        <3> QED BY <3>1 DEF AllGroups
    <2>3. CASE j \in left
        <3>1. j \in p.rest \/ \E g \in heuristic : j \in g.theirs
            BY <1>1, <2>3
        <3> QED BY <1>1, <3>1 DEF AllGroups
    <2> QED BY <1>2, <1>8, <2>1, <2>2, <2>3
<1>19. \A g \in uuids \cup heuristic :
           \/ \E j \in lineage : g = Shared(j) /\ g.theirs = {j}
           \/ \E k \in keys : g = Site(k) /\ g.theirs = {j \in left : Combining!SiteKey(second[j].c) = k}
    BY <1>3, <1>4, <1>6
<1>20. \A g, h \in uuids \cup heuristic : g.theirs \cap h.theirs # {} => g = h
    BY <1>8, <1>19
<1>21. \A g \in p.divergent, h \in p.exact \cup p.identical : g.theirs \cap h.theirs = {}
    <2>1. \A g \in p.divergent, h \in p.identical : g \in uuids \cup heuristic /\ h \in uuids \cup heuristic /\ g # h
        BY <1>1
    <2>2. \A g \in p.divergent, h \in p.exact : g.theirs \cap h.theirs = {}
        <3>1. \A g \in p.divergent : g.theirs \subseteq lineage \cup left
            BY <1>1, <1>19
        <3>2. \A h \in p.exact : h.theirs \subseteq exact
            BY <1>11
        <3> QED BY <1>8, <3>1, <3>2
    <2> QED BY <1>20, <2>1, <2>2
<1>22. ASSUME NEW g \in p.exact \cup p.identical, NEW i \in g.ours, NEW j \in g.theirs
       PROVE  tree[i].c.pass = second[j].c.pass
    <2>1. CASE g \in p.exact
        <3>1. PICK k \in exact : g = Equal(k) /\ g.theirs = {k}
            BY <1>11, <2>1
        <3>2. j = k /\ i \in Combining!SameKey(second[k].c)
            BY <1>5, <3>1
        <3>3. Combining!CredentialKey(tree[i].c) = Combining!CredentialKey(second[j].c) /\ Combining!CredentialKey(second[j].c) # None
            BY <3>2 DEF Combining!SameKey
        <3> QED BY <3>3 DEF Combining!CredentialKey
    <2>2. CASE g \in p.identical
        <3>1. GroupTyped(g) /\ Combining!Pair(g)
            BY <1>13, <1>14, <2>2 DEF AllGroups
        <3>2. i = Combining!Least(g.ours) /\ j = Combining!Least(g.theirs)
            BY <3>1, PairIs
        <3>3. ~Combining!Differ(tree[i].c, second[j].c)
            BY <1>1, <2>2, <3>2 DEF Combining!Identical
        <3> QED BY <3>3 DEF Combining!Differ
    <2> QED BY <2>1, <2>2
<1>23. \A g \in p.divergent : g.origin \in {"uuid", "heuristic"}
    BY <1>1, <1>10
<1>24. Matched(p)
    BY <1>13, <1>14, <1>15, <1>16, <1>17, <1>18, <1>21, <1>23 DEF Matched
<1>25. Placed(p)
    BY <1>13 DEF Placed
<1>26. Alike(p)
    BY <1>22 DEF Alike
<1> QED BY <1>1, <1>24, <1>25, <1>26

-----------------------------------------------------------------------------
(* Combine: what a whole application keeps and brings about.               *)

\* R holds whatever is done to a tree of it, with the answers sides.
Lasting(R, sides) ==
    /\ \A u \in R : \A g \in pending.exact \cup pending.identical : Combining!ApplyGroup(u, g, "keep-a") \in R
    /\ \A u \in R : \A g \in pending.divergent : Combining!ApplyGroup(u, g, sides[g]) \in R
    /\ \A u \in R : \A j \in pending.rest : Combining!Import(u, j) \in R

LEMMA ClosedPhases ==
    ASSUME NEW R, NEW sides, Lasting(R, sides)
    PROVE  /\ Stays(R, pending.exact, Combining!KeepOurs(pending.exact))
           /\ Stays(R, pending.identical, Combining!KeepOurs(pending.identical))
           /\ Stays(R, pending.divergent, sides)
<1>1. \A gs : \A g \in gs : Combining!KeepOurs(gs)[g] = "keep-a"
    BY DEF Combining!KeepOurs
<1> QED BY <1>1 DEF Lasting, Stays

LEMMA CombinedIs ==
    ASSUME NEW sides
    PROVE  \E exact, identical, divergent :
              /\ exact = Combining!MergeGroups(tree, pending.exact, Combining!KeepOurs(pending.exact))
              /\ identical = Combining!UuidsFirst(exact, pending.identical, Combining!KeepOurs(pending.identical))
              /\ divergent = Combining!UuidsFirst(identical, pending.divergent, sides)
              /\ Combining!Combined(sides) = Combining!ImportAll(divergent, pending.rest)
BY DEF Combining!Combined

LEMMA CombinedIn ==
    ASSUME NEW R, tree \in R, NEW sides, Combining!Turns \in Nat, Len(second) \in Nat, Lasting(R, sides)
    PROVE  Combining!Combined(sides) \in R
<1>1. PICK exact, identical, divergent :
              /\ exact = Combining!MergeGroups(tree, pending.exact, Combining!KeepOurs(pending.exact))
              /\ identical = Combining!UuidsFirst(exact, pending.identical, Combining!KeepOurs(pending.identical))
              /\ divergent = Combining!UuidsFirst(identical, pending.divergent, sides)
              /\ Combining!Combined(sides) = Combining!ImportAll(divergent, pending.rest)
    BY CombinedIs
<1>2. exact \in R
    BY <1>1, ClosedPhases, MergeGroupsIn
<1>3. identical \in R
    BY <1>1, <1>2, ClosedPhases, UuidsFirstIn
<1>4. divergent \in R
    BY <1>1, <1>3, ClosedPhases, UuidsFirstIn
<1>5. \A u \in R : \A k \in pending.rest \cap (1..Len(second)) : Combining!Import(u, k) \in R
    BY DEF Lasting
<1>6. Combining!ImportAll(divergent, pending.rest) \in R
    BY <1>4, <1>5, ImportAllIn
<1> QED BY <1>1, <1>6

LEMMA CombinedAnswers ==
    ASSUME NEW R, NEW Q \in SUBSET R, tree \in R, NEW sides, Combining!Turns \in Nat, Len(second) \in Nat,
           Matched(pending), Lasting(R, sides), Lasting(Q, sides),
           NEW g \in pending.divergent, \A u \in R : Combining!ApplyGroup(u, g, sides[g]) \in Q
    PROVE  Combining!Combined(sides) \in Q
<1>1. PICK exact, identical, divergent :
              /\ exact = Combining!MergeGroups(tree, pending.exact, Combining!KeepOurs(pending.exact))
              /\ identical = Combining!UuidsFirst(exact, pending.identical, Combining!KeepOurs(pending.identical))
              /\ divergent = Combining!UuidsFirst(identical, pending.divergent, sides)
              /\ Combining!Combined(sides) = Combining!ImportAll(divergent, pending.rest)
    BY CombinedIs
<1>2. exact \in R
    BY <1>1, ClosedPhases, MergeGroupsIn
<1>3. identical \in R
    BY <1>1, <1>2, ClosedPhases, UuidsFirstIn
<1>4. divergent \in Q
    <2>1. /\ InOrder(Combining!Of(pending.divergent, "uuid")) /\ InOrder(Combining!Of(pending.divergent, "heuristic"))
          /\ g.origin \in {"uuid", "heuristic"}
        BY DEF Matched
    <2>2. Stays(R, pending.divergent, sides) /\ Stays(Q, pending.divergent, sides)
        BY ClosedPhases
    <2>3. Combining!UuidsFirst(identical, pending.divergent, sides) \in Q
        BY <1>3, <2>1, <2>2, UuidsFirstDoes
    <2> QED BY <1>1, <2>3
<1>5. \A u \in Q : \A k \in pending.rest \cap (1..Len(second)) : Combining!Import(u, k) \in Q
    BY DEF Lasting
<1>6. Combining!ImportAll(divergent, pending.rest) \in Q
    BY <1>4, <1>5, ImportAllIn
<1> QED BY <1>1, <1>6

LEMMA CombinedImports ==
    ASSUME NEW R, NEW Q \in SUBSET R, tree \in R, NEW sides, Combining!Turns \in Nat, Len(second) \in Nat,
           Lasting(R, sides), Lasting(Q, sides), NEW j \in pending.rest \cap (1..Len(second)),
           \A u \in R : Combining!Import(u, j) \in Q
    PROVE  Combining!Combined(sides) \in Q
<1>1. PICK exact, identical, divergent :
              /\ exact = Combining!MergeGroups(tree, pending.exact, Combining!KeepOurs(pending.exact))
              /\ identical = Combining!UuidsFirst(exact, pending.identical, Combining!KeepOurs(pending.identical))
              /\ divergent = Combining!UuidsFirst(identical, pending.divergent, sides)
              /\ Combining!Combined(sides) = Combining!ImportAll(divergent, pending.rest)
    BY CombinedIs
<1>2. exact \in R
    BY <1>1, ClosedPhases, MergeGroupsIn
<1>3. identical \in R
    BY <1>1, <1>2, ClosedPhases, UuidsFirstIn
<1>4. divergent \in R
    BY <1>1, <1>3, ClosedPhases, UuidsFirstIn
<1>5. \A S \in {R, Q} : \A u \in S : \A k \in pending.rest \cap (1..Len(second)) : Combining!Import(u, k) \in S
    BY DEF Lasting
<1>6. Combining!ImportAll(divergent, pending.rest) \in Q
    BY <1>4, <1>5, ImportAllDoes
<1> QED BY <1>1, <1>6

-----------------------------------------------------------------------------
(* Combine: every step keeps the invariant.                                *)

LEMMA CombineInit ==
    ASSUME CombineConstants, Combining!Init
    PROVE  CInv
<1>1. tree \in Trees /\ Len(tree) <= MaxEntries
    BY DEF CombineConstants, Trees, Combining!Init
<1>2. pending.made = FALSE /\ pending.vault = 0
    BY DEF Combining!Init, Combining!NoPending
<1>3. imported \in [DOMAIN second -> Nat] /\ second = <<>> /\ \A j \in DOMAIN second : imported[j] = 0
    BY DEF Combining!Init
<1>4. applies \in 0..MaxApplies
    BY DEF CombineConstants, Combining!Init
<1>5. vault = 1 /\ unlocked = TRUE /\ failed = FALSE
    BY DEF Combining!Init
<1>6. vault \in 1..2 /\ pending.vault \in 0..2 /\ pending.vault <= vault
    <2>1. vault = 1 /\ pending.vault = 0
        BY <1>2, <1>5
    <2> QED BY <2>1
<1>8. unlocked \in BOOLEAN /\ failed \in BOOLEAN
    BY <1>5
<1>7. second \in Theirs \cup {<<>>} /\ pending.made \in BOOLEAN
    BY <1>2, <1>3
<1> QED BY <1>1, <1>2, <1>3, <1>4, <1>6, <1>7, <1>8, Zenon DEF CInv

\* The preview stays what it is while what it names does.
LEMMA StaysPlaced ==
    ASSUME CInv, pending.made, UNCHANGED <<second, pending>>, tree' \in Trees,
           Combining!Here' => Combining!Here /\ Len(tree') >= Len(tree)
                              /\ (failed' \/ (~failed /\ \A i \in 1..Len(tree) : tree'[i].c = tree[i].c))
    PROVE  pending'.made => second' # <<>> /\ Matched(pending)' /\ Placed(pending)' /\ Alike(pending)'
<1>1. second # <<>> /\ Matched(pending) /\ Placed(pending) /\ Alike(pending)
    BY DEF CInv
<1>2. Matched(pending)'
    BY <1>1 DEF Matched, AllGroups, GroupTyped, InOrder, Combining!Turns, Combining!Of, Combining!TurnOf, Combining!Least, Combining!Pair
<1>3. Len(tree) \in Nat /\ Len(tree') \in Nat
    BY DEF CInv, Trees
<1>4. Placed(pending)'
    BY <1>1, <1>3 DEF Placed, AllGroups, Combining!Here
<1>5. Alike(pending)'
    <2>1. CASE ~failed' /\ Combining!Here'
        <3>1. /\ Combining!Here /\ ~failed /\ \A i \in 1..Len(tree) : tree'[i].c = tree[i].c
            BY <2>1
        <3>2. \A g \in pending.exact \cup pending.identical : g.ours \subseteq 1..Len(tree)
            BY <1>1, <3>1 DEF Placed, AllGroups, Combining!Here
        <3>3. \A g \in pending.exact \cup pending.identical :
                  \A i \in g.ours, j \in g.theirs : tree'[i].c.pass = second[j].c.pass
            BY <1>1, <3>1, <3>2 DEF Alike, Combining!Here
        <3> QED BY <3>3 DEF Alike
    <2>2. CASE failed' \/ ~Combining!Here'
        BY <2>2 DEF Alike, Combining!Here
    <2> QED BY <2>1, <2>2
<1> QED BY <1>1, <1>2, <1>4, <1>5

\* A tree that is applied to stays one.
LEMMA CombinedTyped ==
    ASSUME CombineConstants, CInv, pending.made, NEW sides \in [pending.divergent -> Combining!Sides]
    PROVE  Combining!Combined(sides) \in Trees /\ Len(Combining!Combined(sides)) >= Len(tree)
<1> DEFINE R == {u \in Trees : Len(u) >= Len(tree)}
<1>1. second \in Seq(Incoming) /\ Len(second) \in Nat /\ tree \in R /\ Combining!Turns \in Nat /\ Matched(pending)
    BY DEF CInv, CombineConstants, Combining!Turns, Trees
<1>2. ASSUME NEW u \in R, NEW g \in AllGroups(pending), NEW side \in Combining!Sides
      PROVE  Combining!ApplyGroup(u, g, side) \in R
    <2>1. GroupTyped(g)
        BY <1>1 DEF Matched
    <2>2. PICK w : w = Combining!ApplyGroup(u, g, side)
        OBVIOUS
    <2>3. w \in Trees /\ Len(w) >= Len(u)
        BY <1>1, <2>1, <2>2, ApplyGroupIs
    <2> QED BY <1>1, <2>2, <2>3 DEF Trees
<1>3. ASSUME NEW u \in R, NEW j \in pending.rest
      PROVE  Combining!Import(u, j) \in R
    <2>1. j \in 1..Len(second)
        BY <1>1 DEF Matched
    <2>2. PICK w : w = Combining!Import(u, j)
        OBVIOUS
    <2>3. w \in Trees /\ Len(w) = Len(u) + 1
        BY <1>1, <2>1, <2>2, ImportIs
    <2> QED BY <1>1, <2>2, <2>3 DEF Trees
<1>4. Lasting(R, sides)
    <2> HIDE DEF R
    <2> QED BY <1>2, <1>3 DEF Lasting, AllGroups, Combining!Sides
<1>5. Combining!Combined(sides) \in R
    <2> HIDE DEF R
    <2> QED BY <1>1, <1>4, CombinedIn
<1> QED BY <1>5

LEMMA CombineStep ==
    ASSUME CombineConstants, CInv, Combining!Next
    PROVE  CInv'
<1>1. /\ vault \in 1..2 /\ unlocked \in BOOLEAN /\ failed \in BOOLEAN
      /\ tree \in Trees /\ Len(tree) <= MaxEntries
      /\ second \in Theirs \cup {<<>>}
      /\ applies \in 0..MaxApplies
      /\ pending.made \in BOOLEAN /\ pending.vault \in 0..2 /\ pending.vault <= vault
      /\ imported \in [DOMAIN second -> Nat]
      /\ failed \/ \A j \in DOMAIN second : imported[j] = 0
      /\ pending.made => second # <<>> /\ Matched(pending) /\ Placed(pending) /\ Alike(pending)
    BY DEF CInv
<1>2. /\ \A t \in Ours : t \in Trees /\ Len(t) <= MaxEntries
      /\ \A s \in Theirs \cup {<<>>} : s \in Seq(Incoming)
      /\ MaxEntries \in Nat /\ MaxApplies \in Nat
    <2>1. <<>> \in Seq(Incoming)
        OBVIOUS
    <2>2. Theirs \subseteq Seq(Incoming)
        BY DEF CombineConstants
    <2> QED BY <2>1, <2>2, Zenon DEF CombineConstants, Trees
<1>3. Combining!NoPending.made = FALSE /\ Combining!NoPending.vault = 0
    BY DEF Combining!NoPending
<1>4. ASSUME NEW s \in Theirs, Combining!OpenSecond(s)
      PROVE  CInv'
    <2>1. second' = s /\ pending'.made = FALSE /\ pending'.vault = 0 /\ UNCHANGED <<vault, unlocked, tree, failed, applies>>
        BY <1>3, <1>4 DEF Combining!OpenSecond
    <2>2. imported' = [j \in DOMAIN s |-> 0]
        BY <1>4 DEF Combining!OpenSecond
    <2>3. imported' \in [DOMAIN second' -> Nat] /\ \A j \in DOMAIN second' : imported'[j] = 0
        BY <2>1, <2>2
    <2>4. second' \in Theirs \cup {<<>>}
        BY <2>1
    <2>5. vault' \in 1..2 /\ pending'.vault \in 0..2 /\ pending'.vault <= vault' /\ pending'.made \in BOOLEAN
        <3>1. vault \in 1..2 /\ vault' = vault /\ pending'.vault = 0
            BY <1>1, <2>1
        <3>2. pending'.made \in BOOLEAN
            BY <2>1
        <3>3. vault' \in 1..2 /\ pending'.vault \in 0..2 /\ pending'.vault <= vault'
            BY <3>1
        <3> QED BY <3>2, <3>3
    <2> QED BY <1>1, <2>1, <2>3, <2>4, <2>5, Zenon DEF CInv
<1>5. ASSUME Combining!Close, UNCHANGED <<vault, unlocked>>, applies' \in 0..MaxApplies, failed' \in BOOLEAN,
             tree' \in Trees, Len(tree') <= MaxEntries
      PROVE  CInv'
    <2>1. second' = <<>> /\ pending'.made = FALSE /\ pending'.vault = 0 /\ imported' = <<>>
        BY <1>3, <1>5 DEF Combining!Close
    <2>2. imported' \in [DOMAIN second' -> Nat] /\ \A j \in DOMAIN second' : imported'[j] = 0
        BY <2>1
    <2>3. second' \in Theirs \cup {<<>>}
        BY <2>1
    <2>4. vault' \in 1..2 /\ pending'.vault \in 0..2 /\ pending'.vault <= vault' /\ pending'.made \in BOOLEAN
        <3>1. vault \in 1..2 /\ vault' = vault /\ pending'.vault = 0
            BY <1>1, <1>5, <2>1
        <3>2. pending'.made \in BOOLEAN
            BY <2>1
        <3>3. vault' \in 1..2 /\ pending'.vault \in 0..2 /\ pending'.vault <= vault'
            BY <3>1
        <3> QED BY <3>2, <3>3
    <2> QED BY <1>1, <1>5, <2>1, <2>2, <2>3, <2>4, Zenon DEF CInv
<1>6. ASSUME Combining!CloseSecond
      PROVE  CInv'
    <2>1. Combining!Close /\ UNCHANGED <<vault, unlocked, tree, failed, applies>>
        BY <1>6 DEF Combining!CloseSecond
    <2> QED BY <1>1, <1>5, <2>1
<1>7. ASSUME Combining!PreviewCombine
      PROVE  CInv'
    <2>1. pending' = Combining!Preview /\ second # <<>> /\ UNCHANGED <<vault, unlocked, tree, second, imported, failed, applies>>
        BY <1>7 DEF Combining!PreviewCombine
    <2>2. PICK p : p = Combining!Preview
        OBVIOUS
    <2>3. Matched(p) /\ Placed(p) /\ Alike(p) /\ p.made /\ p.vault = vault
        BY <1>1, <1>2, <2>2, PreviewMatched
    <2>4. p.made = TRUE
        BY <2>2 DEF Combining!Preview
    <2>5. Matched(pending)'
        BY <2>1, <2>2, <2>3 DEF Matched, AllGroups, GroupTyped, InOrder, Combining!Turns, Combining!Of, Combining!TurnOf, Combining!Least, Combining!Pair
    <2>6. Placed(pending)' /\ Alike(pending)'
        BY <2>1, <2>2, <2>3 DEF Placed, Alike, AllGroups
    <2> QED BY <1>1, <2>1, <2>2, <2>3, <2>4, <2>5, <2>6 DEF CInv
<1>8. ASSUME UNCHANGED <<second, pending>>, tree' \in Trees, Len(tree') <= MaxEntries,
             unlocked' \in BOOLEAN, failed' \in BOOLEAN, applies' \in 0..MaxApplies, vault' \in 1..2, vault' >= vault,
             imported' \in [DOMAIN second -> Nat], failed' \/ \A j \in DOMAIN second : imported'[j] = 0,
             Combining!Here' => Combining!Here /\ Len(tree') >= Len(tree)
                              /\ (failed' \/ (~failed /\ \A i \in 1..Len(tree) : tree'[i].c = tree[i].c))
      PROVE  CInv'
    <2>1. pending'.made => second' # <<>> /\ Matched(pending)' /\ Placed(pending)' /\ Alike(pending)'
        BY <1>8, StaysPlaced
    <2> QED BY <1>1, <1>8, <2>1 DEF CInv
<1>9. ASSUME NEW sides \in [pending.divergent -> Combining!Sides], NEW saved \in BOOLEAN, Combining!ApplyCombine(sides, saved)
      PROVE  CInv'
    <2>1. /\ tree' \in Trees /\ Len(tree') >= Len(tree) /\ Len(tree') <= MaxEntries
          /\ UNCHANGED <<vault, unlocked>> /\ failed' = (failed \/ ~saved)
        BY <1>9, CombinedTyped DEF Combining!ApplyCombine
    <2>2. applies' \in 0..MaxApplies
        BY <1>1, <1>2, <1>9 DEF Combining!ApplyCombine
    <2>3. failed' \in BOOLEAN
        BY <2>1
    <2>4. CASE saved
        <3>1. Combining!Close
            BY <1>9, <2>4 DEF Combining!ApplyCombine, Combining!Closes
        <3> QED BY <1>5, <2>1, <2>2, <2>3, <3>1
    <2>5. CASE ~saved
        <3>1. UNCHANGED <<second, pending>> /\ imported' = [j \in DOMAIN second |->
                               imported[j] + IF j \in Combining!ImportedBy(sides) THEN 1 ELSE 0]
            BY <1>9, <2>5 DEF Combining!ApplyCombine, Combining!Closes
        <3>2. imported' \in [DOMAIN second -> Nat] /\ failed'
            <4>1. \A j \in DOMAIN second : imported[j] + (IF j \in Combining!ImportedBy(sides) THEN 1 ELSE 0) \in Nat
                BY <1>1
            <4> QED BY <2>1, <2>5, <3>1, <4>1
        <3>3. Combining!Here' => Combining!Here
            BY <2>1, <3>1 DEF Combining!Here
        <3> QED BY <1>1, <1>8, <2>1, <2>2, <2>3, <3>1, <3>2, <3>3
    <2> QED BY <2>4, <2>5
<1>10. ASSUME NEW i \in DOMAIN tree, Combining!DeleteEntry(i)
       PROVE  CInv'
    <2>1. tree' = [tree EXCEPT ![i].binned = TRUE] /\ UNCHANGED <<vault, unlocked, second, pending, imported, failed, applies>>
        BY <1>10 DEF Combining!DeleteEntry
    <2>2. i \in 1..Len(tree) /\ tree[i] \in OwnEntries
        BY <1>1 DEF Trees
    <2>3. [tree[i] EXCEPT !.binned = TRUE] \in OwnEntries /\ [tree[i] EXCEPT !.binned = TRUE].c = tree[i].c
        BY <2>2 DEF OwnEntries
    <2>4. tree' \in Trees /\ Len(tree') = Len(tree) /\ \A k \in 1..Len(tree) : tree'[k].c = tree[k].c
        BY <1>1, <2>1, <2>2, <2>3 DEF Trees
    <2>5. Combining!Here' => Combining!Here
        BY <2>1 DEF Combining!Here
    <2>6. Len(tree) \in Nat
        BY <1>1 DEF Trees
    <2> QED BY <1>1, <1>8, <2>1, <2>4, <2>5, <2>6
<1>11. ASSUME UNCHANGED <<vault, tree, second, pending, imported, failed, applies>>, unlocked' \in BOOLEAN
       PROVE  CInv'
    <2>1. Combining!Here' => Combining!Here
        BY <1>11 DEF Combining!Here
    <2>2. Len(tree) \in Nat
        BY <1>1 DEF Trees
    <2> QED BY <1>1, <1>8, <1>11, <2>1, <2>2
<1>12. Combining!Lock \/ Combining!UnlockSame => CInv'
    BY <1>11 DEF Combining!Lock, Combining!UnlockSame
<1>13. ASSUME NEW t \in Ours, Combining!UnlockOther(t)
       PROVE  CInv'
    <2>1. vault = 1 /\ vault' = 2 /\ unlocked' = TRUE /\ tree' = t /\ UNCHANGED <<second, pending, imported, failed, applies>>
        BY <1>13 DEF Combining!UnlockOther
    <2>2. ~Combining!Here'
        BY <1>1, <2>1 DEF Combining!Here
    <2> QED BY <1>1, <1>2, <1>8, <2>1, <2>2
<1> QED BY <1>4, <1>6, <1>7, <1>9, <1>10, <1>12, <1>13 DEF Combining!Next

-----------------------------------------------------------------------------
(* Combine: what an application takes away and what it brings.             *)

LEMMA CombineFacts ==
    ASSUME CombineConstants, CInv, pending.made
    PROVE  /\ second \in Seq(Incoming) /\ Len(second) \in Nat /\ DOMAIN second = 1..Len(second)
           /\ tree \in Trees /\ Len(tree) \in Nat /\ DOMAIN tree = 1..Len(tree)
           /\ Combining!Turns \in Nat /\ Matched(pending) /\ Placed(pending) /\ Alike(pending)
BY DEF CInv, CombineConstants, Combining!Turns, Trees

\* With which answer a group is applied.
AppliedWith(g, side, sides) ==
    /\ GroupTyped(g) /\ side \in Combining!Sides
    /\ \/ g \in pending.exact \cup pending.identical /\ side = "keep-a" /\ Combining!Pair(g)
       \/ g \in pending.divergent /\ side = sides[g]
    /\ Combining!Here => g.ours \subseteq 1..Len(tree)

\* A set of trees is closed if every group and every import keeps it.
LEMMA ClosedWhen ==
    ASSUME CombineConstants, CInv, pending.made, NEW sides \in [pending.divergent -> Combining!Sides], NEW R,
           \A u \in R : \A g, side : AppliedWith(g, side, sides) => Combining!ApplyGroup(u, g, side) \in R,
           \A u \in R : \A j \in 1..Len(second) : Combining!Import(u, j) \in R
    PROVE  Lasting(R, sides)
<1>1. Matched(pending) /\ Placed(pending)
    BY CombineFacts
<1>2. \A g \in pending.exact \cup pending.identical : AppliedWith(g, "keep-a", sides)
    BY <1>1 DEF Matched, Placed, AllGroups, AppliedWith, Combining!Sides, Combining!Here
<1>3. \A g \in pending.divergent : AppliedWith(g, sides[g], sides)
    BY <1>1 DEF Matched, Placed, AllGroups, AppliedWith, Combining!Here
<1>4. \A j \in pending.rest : j \in 1..Len(second)
    BY <1>1 DEF Matched
<1> QED BY <1>2, <1>3, <1>4 DEF Lasting

\* What an imported entry leaves alone.
LEMMA ImportBeside ==
    ASSUME second \in Seq(Incoming), NEW u \in Trees, NEW j \in 1..Len(second), NEW w, w = Combining!Import(u, j)
    PROVE  w \in Trees /\ Len(w) >= Len(u) /\ \A k \in 1..Len(u) : w[k] = u[k]
<1>1. w \in Trees /\ Len(w) = Len(u) + 1 /\ \A i \in 1..Len(u) : w[i] = u[i]
    BY ImportIs
<1>2. Len(u) \in Nat
    BY DEF Trees
<1> QED BY <1>1, <1>2

LEMMA KeepsOurs ==
    ASSUME CombineConstants, CInv, pending.made, NEW sides \in [pending.divergent -> Combining!Sides],
           NEW i \in Combining!Records \ Combining!Overruled(sides)
    PROVE  ~Combining!Combined(sides)[i].binned /\ Kept(tree[i].c, Combining!Combined(sides)[i].c)
<1> DEFINE R == {u \in Trees : Len(u) >= Len(tree) /\ ~u[i].binned /\ Kept(tree[i].c, u[i].c)}
<1>1. /\ second \in Seq(Incoming) /\ Len(second) \in Nat /\ DOMAIN second = 1..Len(second)
      /\ tree \in Trees /\ Len(tree) \in Nat /\ DOMAIN tree = 1..Len(tree)
      /\ Combining!Turns \in Nat
    BY CombineFacts
<1>2. i \in 1..Len(tree) /\ ~tree[i].binned
    BY <1>1 DEF Combining!Records
<1>3. tree \in R
    BY <1>1, <1>2 DEF Kept
<1>4. \A u \in R : Len(u) \in Nat /\ i \in 1..Len(u)
    BY <1>1, <1>2 DEF Trees
<1>5. ASSUME NEW u \in R, NEW g, NEW side, AppliedWith(g, side, sides)
      PROVE  Combining!ApplyGroup(u, g, side) \in R
    <2>1. PICK w : w = Combining!ApplyGroup(u, g, side)
        OBVIOUS
    <2>2. GroupTyped(g) /\ side \in Combining!Sides
        BY <1>5 DEF AppliedWith
    <2>3. /\ w \in Trees /\ Len(w) >= Len(u)
          /\ i \notin g.ours => w[i] = u[i]
          /\ side # "keep-b" => w[i].binned = u[i].binned /\ Kept(u[i].c, w[i].c)
        BY <1>1, <1>4, <2>1, <2>2, ApplyGroupIs
    <2>4. i \notin g.ours \/ side # "keep-b"
        BY <1>5 DEF AppliedWith, Combining!Overruled
    <2>5. Len(w) >= Len(tree)
        BY <1>1, <1>4, <2>3 DEF Trees
    <2>6. ~w[i].binned /\ Kept(tree[i].c, w[i].c)
        BY <2>3, <2>4 DEF Kept
    <2> QED BY <2>1, <2>3, <2>5, <2>6
<1>6. ASSUME NEW u \in R, NEW j \in 1..Len(second)
      PROVE  Combining!Import(u, j) \in R
    <2>1. PICK w : w = Combining!Import(u, j)
        OBVIOUS
    <2>2. w \in Trees /\ Len(w) >= Len(u) /\ w[i] = u[i]
        BY <1>1, <1>4, <2>1, ImportBeside
    <2>3. Len(w) >= Len(tree)
        BY <1>1, <1>4, <2>2 DEF Trees
    <2> QED BY <2>1, <2>2, <2>3
<1>7. Combining!Combined(sides) \in R
    <2> HIDE DEF R
    <2>1. Lasting(R, sides)
        BY <1>5, <1>6, ClosedWhen
    <2> QED BY <1>1, <1>3, <2>1, CombinedIn
<1> QED BY <1>7

\* An incoming entry that is imported is in the combined tree.
Brought(j) == {u \in Trees : Len(u) >= Len(tree) /\ \E k \in (Len(tree) + 1)..Len(u) : u[k] = Copied(j)}
Longer == {u \in Trees : Len(u) >= Len(tree)}
LEMMA BroughtClosed ==
    ASSUME CombineConstants, CInv, pending.made, NEW sides \in [pending.divergent -> Combining!Sides], NEW j
    PROVE  Lasting(Brought(j), sides) /\ Lasting(Longer, sides)
<1>1. /\ second \in Seq(Incoming) /\ Len(second) \in Nat
      /\ tree \in Trees /\ Len(tree) \in Nat
    BY CombineFacts
<1>2. ASSUME NEW u \in Longer, NEW w \in Trees, Len(w) >= Len(u)
      PROVE  w \in Longer /\ (u \in Brought(j) /\ (\A k \in (Len(tree) + 1)..Len(u) : w[k] = u[k]) => w \in Brought(j))
    <2>1. Len(u) \in Nat /\ Len(w) \in Nat /\ Len(u) >= Len(tree)
        BY DEF Longer, Trees
    <2>2. w \in Longer
        BY <1>1, <1>2, <2>1 DEF Longer
    <2>3. ASSUME u \in Brought(j), \A k \in (Len(tree) + 1)..Len(u) : w[k] = u[k]
          PROVE  w \in Brought(j)
        <3>1. PICK k \in (Len(tree) + 1)..Len(u) : u[k] = Copied(j)
            BY <2>3 DEF Brought
        <3>2. k \in (Len(tree) + 1)..Len(w) /\ w[k] = Copied(j)
            BY <1>1, <1>2, <2>1, <2>3, <3>1
        <3> QED BY <2>2, <3>2 DEF Brought, Longer
    <2> QED BY <2>2, <2>3
<1>3. ASSUME NEW u \in Longer, NEW g, NEW side, AppliedWith(g, side, sides)
      PROVE  Combining!ApplyGroup(u, g, side) \in Longer /\ (u \in Brought(j) => Combining!ApplyGroup(u, g, side) \in Brought(j))
    <2>1. PICK w : w = Combining!ApplyGroup(u, g, side)
        OBVIOUS
    <2>2. GroupTyped(g) /\ side \in Combining!Sides /\ (Combining!Here => g.ours \subseteq 1..Len(tree)) /\ u \in Trees
        BY <1>3 DEF AppliedWith, Longer
    <2>3. /\ w \in Trees /\ Len(w) >= Len(u)
          /\ \A k \in 1..Len(u) : k \notin g.ours \/ ~Combining!Here => w[k] = u[k]
        BY <1>1, <2>1, <2>2, ApplyGroupIs
    <2>4. \A k \in (Len(tree) + 1)..Len(u) : k \in 1..Len(u) /\ k \notin 1..Len(tree)
        <3>1. Len(u) \in Nat
            BY <2>2 DEF Trees
        <3> QED BY <1>1, <3>1
    <2>5. \A k \in (Len(tree) + 1)..Len(u) : w[k] = u[k]
        BY <2>2, <2>3, <2>4
    <2> QED BY <1>2, <2>1, <2>3, <2>5
<1>4. ASSUME NEW u \in Longer, NEW l \in 1..Len(second)
      PROVE  Combining!Import(u, l) \in Longer /\ (u \in Brought(j) => Combining!Import(u, l) \in Brought(j))
    <2>1. PICK w : w = Combining!Import(u, l)
        OBVIOUS
    <2>2. u \in Trees /\ Len(u) \in Nat
        BY DEF Longer, Trees
    <2>3. w \in Trees /\ Len(w) >= Len(u) /\ \A k \in 1..Len(u) : w[k] = u[k]
        BY <1>1, <2>1, <2>2, ImportBeside
    <2>4. \A k \in (Len(tree) + 1)..Len(u) : w[k] = u[k]
        BY <1>1, <2>2, <2>3
    <2> QED BY <1>2, <2>1, <2>3, <2>4
<1>5. Brought(j) \subseteq Longer
    BY DEF Brought, Longer
<1> QED BY <1>3, <1>4, <1>5, ClosedWhen

\* An imported entry: not binned, with the password of the second vault.
LEMMA BroughtArrives ==
    ASSUME NEW j, NEW w \in Brought(j), Len(tree) \in Nat
    PROVE  \E i \in DOMAIN w : ~w[i].binned /\ w[i].c.pass = second[j].c.pass
<1>1. w \in Trees /\ Len(w) \in Nat
    BY DEF Brought, Trees
<1>2. PICK k \in (Len(tree) + 1)..Len(w) : w[k] = Copied(j)
    BY DEF Brought
<1>3. k \in DOMAIN w
    BY <1>1 DEF Trees
<1>4. ~w[k].binned /\ w[k].c.pass = second[j].c.pass
    BY <1>2 DEF Copied
<1> QED BY <1>3, <1>4

LEMMA ImportBrings ==
    ASSUME second \in Seq(Incoming), NEW u \in Longer, NEW j \in 1..Len(second), Len(tree) \in Nat
    PROVE  Combining!Import(u, j) \in Brought(j)
<1>1. PICK w : w = Combining!Import(u, j)
    OBVIOUS
<1>2. u \in Trees /\ Len(u) \in Nat /\ Len(u) >= Len(tree)
    BY DEF Longer, Trees
<1>3. w \in Trees /\ Len(w) = Len(u) + 1 /\ w[Len(w)] = Copied(j)
    BY <1>1, <1>2, ImportIs
<1>4. Len(w) >= Len(tree) /\ Len(w) \in (Len(tree) + 1)..Len(w)
    BY <1>2, <1>3
<1> QED BY <1>1, <1>3, <1>4 DEF Brought

LEMMA GroupBrings ==
    ASSUME CombineConstants, second \in Seq(Incoming), NEW u \in Longer, Len(tree) \in Nat, NEW g, GroupTyped(g),
           NEW side \in Combining!Sides, side = "keep-both" \/ (side = "keep-b" /\ ~Combining!Pair(g)), NEW j \in g.theirs
    PROVE  Combining!ApplyGroup(u, g, side) \in Brought(j)
<1>1. PICK w : w = Combining!ApplyGroup(u, g, side)
    OBVIOUS
<1>2. u \in Trees /\ Len(u) \in Nat /\ Len(u) >= Len(tree)
    BY DEF Longer, Trees
<1>3. w \in Trees /\ Len(w) >= Len(u) /\ \E k \in (Len(u) + 1)..Len(w) : w[k] = Copied(j)
    BY <1>1, <1>2, ApplyGroupIs
<1>4. PICK k \in (Len(u) + 1)..Len(w) : w[k] = Copied(j)
    BY <1>3
<1>5. Len(w) >= Len(tree) /\ k \in (Len(tree) + 1)..Len(w)
    <2>1. Len(w) \in Nat
        BY <1>3 DEF Trees
    <2> QED BY <1>2, <1>3, <2>1
<1> QED BY <1>1, <1>3, <1>4, <1>5 DEF Brought

\* The answers that leave entry i with the password p, once it has it.
Safe(i, p, sides) ==
    \A g \in pending.divergent : sides[g] = "keep-b" /\ i \in g.ours =>
        Combining!Pair(g) /\ \A j \in g.theirs : second[j].c.pass = p
Holds(i) == {u \in Trees : Len(u) >= Len(tree) /\ ~u[i].binned}
HoldsPass(i, p) == {u \in Holds(i) : u[i].c.pass = p}
LEMMA SafeClosed ==
    ASSUME CombineConstants, CInv, pending.made, Combining!Here, NEW sides \in [pending.divergent -> Combining!Sides],
           NEW i \in 1..Len(tree), NEW p, p # None, Safe(i, p, sides)
    PROVE  Lasting(Holds(i), sides) /\ Lasting(HoldsPass(i, p), sides)
<1>1. second \in Seq(Incoming) /\ Len(second) \in Nat /\ Len(tree) \in Nat
    BY CombineFacts
<1>2. \A u \in Holds(i) : u \in Trees /\ Len(u) \in Nat /\ Len(u) >= Len(tree) /\ i \in 1..Len(u)
    BY <1>1 DEF Holds, Trees
<1>3. ASSUME NEW u \in Holds(i), NEW w \in Trees, Len(w) >= Len(u), w[i].binned = u[i].binned
      PROVE  w \in Holds(i) /\ (u \in HoldsPass(i, p) /\ w[i].c.pass \in {u[i].c.pass, p} => w \in HoldsPass(i, p))
    <2>1. Len(w) >= Len(tree)
        BY <1>1, <1>2, <1>3 DEF Trees
    <2>2. w \in Holds(i)
        BY <1>3, <2>1 DEF Holds
    <2> QED BY <2>2 DEF HoldsPass
<1>4. ASSUME NEW u \in Holds(i), NEW g, NEW side, AppliedWith(g, side, sides)
      PROVE  Combining!ApplyGroup(u, g, side) \in Holds(i) /\ (u \in HoldsPass(i, p) => Combining!ApplyGroup(u, g, side) \in HoldsPass(i, p))
    <2>1. PICK w : w = Combining!ApplyGroup(u, g, side)
        OBVIOUS
    <2>2. GroupTyped(g) /\ side \in Combining!Sides
        BY <1>4 DEF AppliedWith
    <2>3. w \in Trees /\ Len(w) >= Len(u)
        BY <1>1, <1>2, <2>1, <2>2, ApplyGroupIs
    <2>4. i \notin g.ours => w[i] = u[i]
        BY <1>1, <1>2, <2>1, <2>2, ApplyGroupIs
    <2>5. side # "keep-b" => w[i].binned = u[i].binned /\ Kept(u[i].c, w[i].c)
        BY <1>1, <1>2, <2>1, <2>2, ApplyGroupIs
    <2>6. side = "keep-b" /\ i \in g.ours => Combining!Pair(g) /\ \A j \in g.theirs : second[j].c.pass = p
        BY <1>4 DEF AppliedWith, Safe
    <2>7. ASSUME side = "keep-b", i \in g.ours
          PROVE  w[i].binned = u[i].binned /\ w[i].c.pass = p
        <3>1. Combining!Pair(g) /\ \E j \in g.theirs : second[j].c.pass = p
            BY <2>2, <2>6, <2>7 DEF GroupTyped
        <3>2. w[i].binned = u[i].binned
            BY <1>1, <1>2, <2>1, <2>2, <3>1, ApplyGroupIs
        <3>3. \A j \in g.theirs : second[j].c.pass # None => w[i].c.pass = second[j].c.pass
            BY <1>1, <1>2, <2>1, <2>2, <2>7, <3>1, ApplyGroupIs
        <3> QED BY <3>1, <3>2, <3>3
    <2>8. w[i].binned = u[i].binned
        BY <2>4, <2>5, <2>7
    <2>9. u \in HoldsPass(i, p) => w[i].c.pass \in {u[i].c.pass, p}
        <3>1. side # "keep-b" /\ u[i].c.pass # None => w[i].c.pass = u[i].c.pass
            BY <2>5 DEF Kept, Columns
        <3> QED BY <2>4, <2>7, <3>1 DEF HoldsPass
    <2> QED BY <1>3, <2>1, <2>3, <2>8, <2>9
<1>5. ASSUME NEW u \in Holds(i), NEW l \in 1..Len(second)
      PROVE  Combining!Import(u, l) \in Holds(i) /\ (u \in HoldsPass(i, p) => Combining!Import(u, l) \in HoldsPass(i, p))
    <2>1. PICK w : w = Combining!Import(u, l)
        OBVIOUS
    <2>2. w \in Trees /\ Len(w) >= Len(u) /\ w[i] = u[i]
        BY <1>1, <1>2, <2>1, ImportBeside
    <2> QED BY <1>3, <2>1, <2>2
<1>6. HoldsPass(i, p) \subseteq Holds(i)
    BY DEF HoldsPass
<1> QED BY <1>4, <1>5, <1>6, ClosedWhen

LEMMA BringsTheirs ==
    ASSUME CombineConstants, CInv, pending.made, NEW sides \in [pending.divergent -> Combining!Sides],
           NEW j \in 1..Len(second), second[j].c.pass # None, ~failed,
           ~\E g \in Combining!Asked(j) : sides[g] = "keep-a",
           ~(Combining!Homes(j) # {} /\ (~Combining!Here \/ ~(Combining!Homes(j) \subseteq Combining!Records))),
           ~\E g \in pending.divergent \ Combining!Asked(j) :
              sides[g] = "keep-b" /\ g.ours \cap (Combining!Homes(j) \cup UNION {h.ours : h \in Combining!Asked(j)}) # {}
    PROVE  \E i \in DOMAIN Combining!Combined(sides) :
              ~Combining!Combined(sides)[i].binned /\ Combining!Combined(sides)[i].c.pass = second[j].c.pass
<1> DEFINE p == second[j].c.pass
           w == Combining!Combined(sides)
<1>1. /\ second \in Seq(Incoming) /\ Len(second) \in Nat /\ DOMAIN second = 1..Len(second)
      /\ tree \in Trees /\ Len(tree) \in Nat /\ DOMAIN tree = 1..Len(tree)
      /\ Combining!Turns \in Nat /\ Matched(pending) /\ Alike(pending)
    BY CombineFacts
<1>2. \A g \in AllGroups(pending) : GroupTyped(g)
    BY <1>1 DEF Matched
<1>3. Lasting(Brought(j), sides) /\ Lasting(Longer, sides)
    BY BroughtClosed
<1>4. tree \in Longer /\ Brought(j) \in SUBSET Longer
    BY <1>1 DEF Longer, Brought
<1>5. w \in Brought(j) => \E i \in DOMAIN w : ~w[i].binned /\ w[i].c.pass = p
    BY <1>1, BroughtArrives
<1>6. CASE j \in pending.rest
    <2>1. \A u \in Longer : Combining!Import(u, j) \in Brought(j)
        BY <1>1, ImportBrings
    <2>2. w \in Brought(j)
        BY <1>1, <1>3, <1>4, <1>6, <2>1, CombinedImports
    <2> QED BY <1>5, <2>2
\* Entry i of ours has taken it in.
<1>7. ASSUME NEW g \in AllGroups(pending), Combining!Pair(g), j \in g.theirs, NEW i \in g.ours
      PROVE  Combining!Here /\ i \in 1..Len(tree) /\ ~tree[i].binned /\ i \in Combining!Homes(j)
    <2>1. i \in Combining!Homes(j)
        BY <1>7 DEF Combining!Homes, AllGroups
    <2>2. Combining!Here /\ i \in Combining!Records
        BY <2>1
    <2> QED BY <1>1, <2>1, <2>2 DEF Combining!Records
<1>8. ASSUME NEW g \in pending.exact \cup pending.identical, j \in g.theirs
      PROVE  \E i \in DOMAIN w : ~w[i].binned /\ w[i].c.pass = p
    <2>1. g \in AllGroups(pending) /\ Combining!Pair(g)
        BY <1>1 DEF AllGroups, Matched
    <2>2. PICK i \in g.ours : TRUE
        BY <1>2, <2>1 DEF GroupTyped
    <2>3. Combining!Here /\ i \in 1..Len(tree) /\ ~tree[i].binned /\ i \in Combining!Homes(j)
        BY <1>7, <1>8, <2>1
    <2>4. tree[i].c.pass = p
        BY <1>1, <1>8, <2>3 DEF Alike, Combining!Here
    <2>5. Combining!Asked(j) = {}
        BY <1>1, <1>8 DEF Combining!Asked, Matched
    <2>6. Safe(i, p, sides)
        BY <2>3, <2>5 DEF Safe
    <2>7. tree \in HoldsPass(i, p)
        BY <1>1, <2>3, <2>4 DEF Holds, HoldsPass
    <2>8. w \in HoldsPass(i, p)
        <3>1. Lasting(HoldsPass(i, p), sides)
            BY <2>3, <2>6, SafeClosed
        <3> QED BY <1>1, <2>7, <3>1, CombinedIn
    <2>9. w \in Trees /\ Len(w) >= Len(tree) /\ ~w[i].binned /\ w[i].c.pass = p
        BY <2>8 DEF Holds, HoldsPass
    <2>10. i \in DOMAIN w
        BY <1>1, <2>3, <2>9 DEF Trees
    <2> QED BY <2>9, <2>10
<1>9. ASSUME NEW g \in pending.divergent, j \in g.theirs,
             sides[g] = "keep-both" \/ (sides[g] = "keep-b" /\ ~Combining!Pair(g))
      PROVE  \E i \in DOMAIN w : ~w[i].binned /\ w[i].c.pass = p
    <2>1. GroupTyped(g)
        BY <1>2 DEF AllGroups
    <2>2. \A u \in Longer : Combining!ApplyGroup(u, g, sides[g]) \in Brought(j)
        BY <1>1, <1>9, <2>1, GroupBrings
    <2>3. w \in Brought(j)
        BY <1>1, <1>3, <1>4, <2>2, CombinedAnswers
    <2> QED BY <1>5, <2>3
<1>10. ASSUME NEW g \in pending.divergent, j \in g.theirs,
              ~\E h \in pending.divergent : j \in h.theirs /\ (sides[h] = "keep-both" \/ (sides[h] = "keep-b" /\ ~Combining!Pair(h)))
       PROVE  \E i \in DOMAIN w : ~w[i].binned /\ w[i].c.pass = p
    <2>1. \A h \in pending.divergent : j \in h.theirs => Combining!Pair(h) /\ sides[h] = "keep-b" /\ GroupTyped(h)
        BY <1>2, <1>10 DEF Combining!Sides, Combining!Asked, AllGroups
    <2>2. GroupTyped(g) /\ Combining!Pair(g) /\ sides[g] = "keep-b"
        BY <1>10, <2>1
    <2>3. PICK i \in g.ours : TRUE
        BY <2>2 DEF GroupTyped
    <2>4. Combining!Here /\ i \in 1..Len(tree) /\ ~tree[i].binned /\ i \in Combining!Homes(j)
        BY <1>7, <1>10, <2>2 DEF AllGroups
    <2>5. Safe(i, p, sides)
        <3>1. ASSUME NEW h \in pending.divergent, sides[h] = "keep-b", i \in h.ours
              PROVE  Combining!Pair(h) /\ \A l \in h.theirs : second[l].c.pass = p
            <4>1. h \in Combining!Asked(j)
                BY <2>4, <3>1
            <4>2. j \in h.theirs
                BY <4>1 DEF Combining!Asked
            <4>3. h.theirs = {Combining!Least(h.theirs)} /\ Combining!Pair(h)
                BY <1>1, <2>1, <4>2, PairIs
            <4> QED BY <4>2, <4>3
        <3> QED BY <3>1 DEF Safe
    <2>6. tree \in Holds(i) /\ HoldsPass(i, p) \in SUBSET Holds(i)
        BY <1>1, <2>4 DEF Holds, HoldsPass
    <2>7. Lasting(Holds(i), sides) /\ Lasting(HoldsPass(i, p), sides)
        BY <2>4, <2>5, SafeClosed
    <2>8. ASSUME NEW u \in Holds(i)
          PROVE  Combining!ApplyGroup(u, g, sides[g]) \in HoldsPass(i, p)
        <3>1. PICK x : x = Combining!ApplyGroup(u, g, sides[g])
            OBVIOUS
        <3>2. u \in Trees /\ Len(u) \in Nat /\ Len(u) >= Len(tree) /\ i \in 1..Len(u) /\ ~u[i].binned
            BY <1>1, <2>4 DEF Holds, Trees
        <3>3. x \in Trees /\ Len(x) >= Len(u)
            BY <1>1, <2>2, <3>1, <3>2, ApplyGroupIs
        <3>4. x[i].binned = u[i].binned
            BY <1>1, <2>2, <3>1, <3>2, ApplyGroupIs
        <3>5. \A l \in g.theirs : second[l].c.pass # None => x[i].c.pass = second[l].c.pass
            BY <1>1, <2>2, <2>4, <3>1, <3>2, ApplyGroupIs
        <3>6. x[i].c.pass = p
            BY <1>10, <3>5
        <3>7. Len(x) >= Len(tree)
            BY <1>1, <3>2, <3>3 DEF Trees
        <3> QED BY <3>1, <3>2, <3>3, <3>4, <3>6, <3>7 DEF Holds, HoldsPass
    <2>9. w \in HoldsPass(i, p)
        BY <1>1, <2>6, <2>7, <2>8, CombinedAnswers
    <2>10. w \in Trees /\ Len(w) >= Len(tree) /\ ~w[i].binned /\ w[i].c.pass = p
        BY <2>9 DEF Holds, HoldsPass
    <2>11. i \in DOMAIN w
        BY <1>1, <2>4, <2>10 DEF Trees
    <2> QED BY <2>10, <2>11
<1>11. j \in pending.rest \/ \E g \in AllGroups(pending) : j \in g.theirs
    BY <1>1 DEF Matched
<1> QED BY <1>6, <1>8, <1>9, <1>10, <1>11 DEF AllGroups

LEMMA CombineAct ==
    ASSUME CombineConstants, CInv, Combining!Next
    PROVE  Combining!OursStep /\ Combining!TheirsStep /\ Combining!ImportedOnce'
<1>1. applies \in Nat
    BY DEF CInv
<1>2. ASSUME applies' > applies
      PROVE  pending.made
    BY <1>1, <1>2 DEF Combining!Next, Combining!OpenSecond, Combining!CloseSecond, Combining!PreviewCombine, Combining!Lock,
        Combining!UnlockSame, Combining!ApplyCombine, Combining!DeleteEntry, Combining!UnlockOther
<1>3. Combining!OursStep
    <2> SUFFICES ASSUME NEW sides \in [pending.divergent -> Combining!Sides], Combining!Answered(sides),
                        NEW i \in Combining!Records \ Combining!Overruled(sides)
                 PROVE  ~tree'[i].binned /\ \A f \in DOMAIN tree[i].c : tree[i].c[f] \in {None, tree'[i].c[f]}
        BY DEF Combining!OursStep
    <2>1. pending.made /\ tree' = Combining!Combined(sides)
        BY <1>2 DEF Combining!Answered
    <2>2. ~tree'[i].binned /\ Kept(tree[i].c, tree'[i].c)
        BY <2>1, KeepsOurs
    <2>3. DOMAIN tree[i].c = Columns
        <3>1. tree \in Seq(OwnEntries) /\ i \in DOMAIN tree
            BY DEF CInv, Trees, Combining!Records
        <3>2. tree[i] \in OwnEntries
            BY <3>1
        <3> QED BY <3>2 DEF OwnEntries, Logins
    <2> QED BY <2>2, <2>3 DEF Kept
<1>4. Combining!TheirsStep
    <2> SUFFICES ASSUME NEW sides \in [pending.divergent -> Combining!Sides], Combining!Answered(sides), NEW j \in DOMAIN second,
                        second[j].c.pass # None, ~failed,
                        ~\E g \in Combining!Asked(j) : sides[g] = "keep-a",
                        ~(Combining!Homes(j) # {} /\ (~Combining!Here \/ ~(Combining!Homes(j) \subseteq Combining!Records))),
                        ~\E g \in pending.divergent \ Combining!Asked(j) :
                           sides[g] = "keep-b" /\ g.ours \cap (Combining!Homes(j) \cup UNION {h.ours : h \in Combining!Asked(j)}) # {}
                 PROVE  \E i \in DOMAIN tree' : ~tree'[i].binned /\ tree'[i].c.pass = second[j].c.pass
        BY Zenon DEF Combining!TheirsStep
    <2>1. pending.made /\ tree' = Combining!Combined(sides)
        BY <1>2 DEF Combining!Answered
    <2>2. j \in 1..Len(second)
        BY <2>1, CombineFacts
    <2> QED BY <2>1, <2>2, BringsTheirs
<1>5. Combining!ImportedOnce'
    <2>1. CInv'
        BY CombineStep
    <2>2. /\ imported' \in [DOMAIN second' -> Nat]
          /\ failed' \/ \A j \in DOMAIN second' : imported'[j] = 0
        BY <2>1 DEF CInv
    <2>3. ASSUME ~failed', NEW j \in DOMAIN imported'
          PROVE  imported'[j] <= 1
        <3>1. imported'[j] = 0
            BY <2>2, <2>3
        <3> QED BY <3>1
    <2> QED BY <2>3 DEF Combining!ImportedOnce
<1> QED BY <1>3, <1>4, <1>5

LEMMA CombineStutters ==
    ASSUME CInv, UNCHANGED Combining!vars
    PROVE  CInv'
<1>1. UNCHANGED <<vault, unlocked, tree, second, pending, imported, failed, applies>>
    BY DEF Combining!vars
<1>2. pending'.made => second' # <<>> /\ Matched(pending)' /\ Placed(pending)' /\ Alike(pending)'
    <2>1. Combining!Here' => Combining!Here
        BY <1>1 DEF Combining!Here
    <2>2. Len(tree) \in Nat /\ tree' \in Trees /\ failed \in BOOLEAN
        BY <1>1 DEF CInv, Trees
    <2> QED BY <1>1, <2>1, <2>2, StaysPlaced
<1> QED BY <1>1, <1>2 DEF CInv

\* Whatever the two vaults hold, whatever is previewed, answered, deleted, locked or fails in
\* between: only the answer keep-b takes a value or an entry of ours away, every password of
\* the second vault is in the combined tree unless an answer or a deletion since the preview
\* speaks against it, and nothing is imported twice while the saves succeed (applyCombine).
THEOREM LibraryCombines ==
    ASSUME CombineConstants
    PROVE  LibrarySpec => CombineKeeps
<1> DEFINE Inv == subject = "Combine" => CInv
<1>1. LibraryInit => Inv
    BY LibraryBegin, CombineInit
<1>2. Inv /\ [LibraryNext]_<<subject, vars, shared>> => Inv'
    BY LibraryStep, CombineStep, CombineStutters
<1>3. Inv /\ [LibraryNext]_<<subject, vars, shared>>
          => [subject = "Combine" =>
                 Combining!OursStep /\ Combining!TheirsStep /\ Combining!ImportedOnce']_<<subject, shared>>
    <2> SUFFICES ASSUME Inv, [LibraryNext]_<<subject, vars, shared>>, subject = "Combine", ~UNCHANGED <<subject, shared>>
                 PROVE  Combining!OursStep /\ Combining!TheirsStep /\ Combining!ImportedOnce'
        OBVIOUS
    <2>1. Combining!Next
        BY DEF LibraryNext
    <2> QED BY <2>1, CombineAct
<1> QED BY <1>1, <1>2, <1>3, PTL DEF LibrarySpec, CombineKeeps

-----------------------------------------------------------------------------
(* The types of every module, and the bounds of the runs in them.          *)

\* No time of an item is after now.
ItemUpTo(i, now) == i.mod <= now /\ i.loc <= now /\ \A t \in i.hist : t <= now
UpTo(db, now) == db.name <= now /\ \A x \in Nodes : ItemUpTo(db.item[x], now)
AllUpTo ==
    /\ ticks <= MaxTicks /\ UpTo(upstream, ticks) /\ \A s \in Twins : UpTo(replica[s], ticks)
    /\ walk # None => \A x \in Nodes : ItemUpTo(walk.item[x], ticks)

LEMMA LaterUpTo ==
    ASSUME NEW i \in Items, NEW n \in Nat, ItemUpTo(i, n)
    PROVE  ItemUpTo(i, n + 1)
<1>1. i.mod \in Nat /\ i.loc \in Nat /\ \A t \in i.hist : t \in Nat
    BY DEF Items
<1> QED BY <1>1 DEF ItemUpTo

LEMMA FreshUpTo ==
    ASSUME NEW n \in Nat
    PROVE  ItemUpTo(Merge!Fresh, n)
BY DEF Merge!Fresh, ItemUpTo

\* What a merge makes of an item.
LEMMA MergedUpTo ==
    ASSUME NEW i \in Items, NEW j \in Items, NEW n \in Nat, ItemUpTo(i, n), ItemUpTo(j, n)
    PROVE  /\ ItemUpTo(Merge!Copied(j), n) /\ ItemUpTo(Merge!MergeGroup(i, j), n)
           /\ ItemUpTo(Merge!MergeEntry(i, j), n) /\ ItemUpTo(Merge!Trimmed(i), n)
<1>1. ItemUpTo(Merge!Trimmed(i), n)
    BY TrimmedIs DEF ItemUpTo
<1>2. PICK c, g, e : c = Merge!Copied(j) /\ g = Merge!MergeGroup(i, j) /\ e = Merge!MergeEntry(i, j)
    OBVIOUS
<1>3. ItemUpTo(c, n)
    BY <1>2, CopiedIs DEF ItemUpTo
<1>4. ItemUpTo(g, n)
    BY <1>2 DEF Merge!MergeGroup, Items, ItemUpTo
<1>5. ItemUpTo(e, n)
    <2>1. /\ e \in Items /\ e.mod \in {i.mod, j.mod} /\ e.loc \in {i.loc, j.loc}
          /\ e.hist \subseteq i.hist \cup j.hist \cup {i.mod, j.mod}
        BY <1>2, MergeEntryIs
    <2> QED BY <2>1 DEF ItemUpTo
<1> QED BY <1>1, <1>2, <1>3, <1>4, <1>5

LEMMA MergesUpTo ==
    ASSUME MergeConstants, NEW l, NEW r, NEW w, NEW m, MergesTo(l, r, w, m), NEW n \in Nat,
           UpTo(l, n), UpTo(r, n), \A x \in Nodes : ItemUpTo(w.item[x], n)
    PROVE  UpTo(m, n)
<1>1. /\ l \in Databases /\ r \in Databases /\ w \in Walks /\ m = Merge!Settled(Merge!Merge(l, r, w))
      /\ \A x \in Nodes : m.item[x] = Cleared(ItemLeft(w, x))
    BY MergeKeepsRooted DEF MergesTo, Walked, Walking
<1>2. m.name \in {l.name, r.name}
    <2>1. PICK kids, items, dead, name : /\ name \in {l.name, r.name}
            /\ Merge!Merge(l, r, w) = [kids |-> kids, item |-> items, dead |-> dead, name |-> name]
        BY MergeIs
    <2>2. PICK d : d = [kids |-> kids, item |-> items, dead |-> dead, name |-> name]
        OBVIOUS
    <2>3. Merge!Settled(d).name = name
        BY <2>2 DEF Merge!Settled
    <2> QED BY <1>1, <2>1, <2>2, <2>3
<1>3. ASSUME NEW x \in Nodes
      PROVE  ItemUpTo(m.item[x], n)
    <2>1. PICK k : k = ItemLeft(w, x)
        OBVIOUS
    <2>2. k \in Items
        BY <1>1, <2>1, LeftItem
    <2>3. ItemUpTo(k, n)
        <3>1. w.item[x] \in Items /\ ItemUpTo(w.item[x], n)
            BY <1>1 DEF Walks
        <3> QED BY <2>1, <3>1, MergedUpTo, FreshUpTo DEF ItemLeft
    <2>4. m.item[x] = Cleared(k)
        BY <1>1, <2>1
    <2> QED BY <2>2, <2>3, <2>4 DEF Cleared, ItemUpTo, Items
<1> QED BY <1>2, <1>3 DEF UpTo

LEMMA IntoUpTo ==
    ASSUME NEW l \in Databases, NEW r \in Databases, NEW w \in Walks, NEW g \in ReplicaGroups,
           w.kids[g] = l.kids[g], NEW v, v = Merge!MergeInto(l, r, w, g),
           NEW n \in Nat, UpTo(r, n), \A x \in Nodes : ItemUpTo(w.item[x], n)
    PROVE  \A x \in Nodes : ItemUpTo(v.item[x], n)
<1> SUFFICES ASSUME NEW x \in Nodes
             PROVE  ItemUpTo(v.item[x], n)
    OBVIOUS
<1>1. PICK i \in Items, j \in Items : i = w.item[x] /\ j = r.item[x]
    BY DEF Walks, Databases
<1>2. ItemUpTo(i, n) /\ ItemUpTo(j, n)
    BY <1>1 DEF UpTo
<1>3. v.item[x] \in {Merge!MergeGroup(i, j), Merge!Copied(j), i}
    <2>1. \A y \in Nodes : v.item[y] = IF y = g THEN Merge!MergeGroup(w.item[y], r.item[y])
                                       ELSE IF y \in v.kids[g] \ Merge!Alive(l) THEN Merge!Copied(r.item[y])
                                       ELSE w.item[y]
        BY IntoIs
    <2> QED BY <1>1, <2>1
<1> QED BY <1>2, <1>3, MergedUpTo

\* What a step of the walk leaves of the times.
LEMMA WalkUpTo ==
    ASSUME MergeConstants, MergeTyped, AllUpTo, WalkStep
    PROVE  \A x \in Nodes : ItemUpTo(walk'.item[x], ticks)
<1>0. ticks \in Nat /\ UpTo(upstream, ticks)
    BY DEF MergeTyped, AllUpTo
<1>1. ASSUME NEW s \in Twins, Merge!BeginMerge(s)
      PROVE  \A x \in Nodes : ItemUpTo(walk'.item[x], ticks)
    <2>1. PICK l \in Databases, r \in Databases : l = replica[s] /\ r = upstream /\ UpTo(l, ticks)
        BY DEF MergeTyped, AllUpTo
    <2>2. PICK w : w = [site |-> s, kids |-> l.kids, item |-> l.item, path |-> <<>>, met |-> {}]
        OBVIOUS
    <2>3. walk' = Merge!MergeInto(l, r, w, Root)
        BY <1>1, <2>1, <2>2 DEF Merge!BeginMerge
    <2>4. w \in Walks /\ w.kids = l.kids /\ w.item = l.item
        BY <2>2 DEF Walks, Databases
    <2>5. Root \in ReplicaGroups
        BY DEF MergeConstants
    <2>6. \A x \in Nodes : ItemUpTo(w.item[x], ticks)
        BY <2>1, <2>4 DEF UpTo
    <2> QED BY <1>0, <2>1, <2>3, <2>4, <2>5, <2>6, IntoUpTo
<1>2. ASSUME walk # None
      PROVE  \E l \in Databases, r \in Databases :
                /\ l = replica[walk.site] /\ r = upstream /\ walk \in Walks
                /\ \A g \in ReplicaGroups : g \notin walk.met => walk.kids[g] = l.kids[g]
                /\ \A x \in Nodes : ItemUpTo(walk.item[x], ticks)
    BY <1>2 DEF MergeTyped, Walking, AllUpTo
<1>3. ASSUME NEW g \in ReplicaGroups, Merge!MergeSubgroup(g)
      PROVE  \A x \in Nodes : ItemUpTo(walk'.item[x], ticks)
    <2>1. walk # None /\ g \notin walk.met
        BY <1>3 DEF Merge!MergeSubgroup, Merge!ToMerge
    <2>2. PICK l \in Databases, r \in Databases :
                /\ l = replica[walk.site] /\ r = upstream /\ walk \in Walks
                /\ walk.kids[g] = l.kids[g]
                /\ \A x \in Nodes : ItemUpTo(walk.item[x], ticks)
        BY <1>2, <2>1
    <2>3. walk' = Merge!MergeInto(l, r, walk, g)
        BY <1>3, <2>2 DEF Merge!MergeSubgroup, Merge!Local
    <2> QED BY <1>0, <2>2, <2>3, IntoUpTo
<1>4. CASE Merge!MergeEntries
    <2>1. PICK l \in Databases, r \in Databases :
                /\ l = replica[walk.site] /\ r = upstream /\ walk \in Walks
                /\ \A x \in Nodes : ItemUpTo(walk.item[x], ticks)
        BY <1>2, <1>4 DEF Merge!MergeEntries
    <2>2. PICK S : S = Merge!ToMerge(ReplicaEntries)
        OBVIOUS
    <2>3. walk'.item = [x \in Nodes |-> IF x \in S THEN Merge!MergeEntry(walk.item[x], r.item[x])
                                        ELSE walk.item[x]]
        BY <1>4, <2>1, <2>2 DEF Merge!MergeEntries, Nodes, Walks
    <2>4. ASSUME NEW x \in Nodes
          PROVE  ItemUpTo(walk'.item[x], ticks)
        <3>1. PICK i \in Items, j \in Items : i = walk.item[x] /\ j = r.item[x]
            BY <2>1 DEF Walks, Databases
        <3>2. ItemUpTo(i, ticks) /\ ItemUpTo(j, ticks)
            BY <1>0, <2>1, <3>1 DEF UpTo
        <3>3. ItemUpTo(Merge!MergeEntry(i, j), ticks)
            BY <1>0, <3>2, MergedUpTo
        <3>4. walk'.item[x] \in {Merge!MergeEntry(i, j), i}
            BY <2>3, <3>1
        <3> QED BY <3>2, <3>3, <3>4
    <2> QED BY <2>4
<1> QED BY <1>1, <1>3, <1>4 DEF WalkStep

\* What a change of one site leaves of the times.
LEMMA ChangeUpTo ==
    ASSUME MergeConstants, MergeTyped, AllUpTo, NEW s \in Twins, NEW db, walk = None,
           Merge!Change(s, db), db.name \in {replica[s].name, ticks + 1},
           \A x \in Nodes : db.item[x] = replica[s].item[x] \/ ItemUpTo(db.item[x], ticks + 1)
    PROVE  AllUpTo'
<1>1. /\ ticks \in Nat /\ ticks' = ticks + 1 /\ upstream' = upstream /\ ticks' \in Nat
      /\ MaxTicks >= ticks' /\ walk' = None
      /\ \A z \in Twins : replica'[z] = IF z = s THEN db ELSE replica[z]
    BY DEF MergeConstants, MergeTyped, Merge!Change, Merge!Now
<1>2. ASSUME NEW e \in Databases, UpTo(e, ticks)
      PROVE  UpTo(e, ticks + 1)
    BY <1>1, <1>2, LaterUpTo DEF UpTo, Databases
<1>3. UpTo(db, ticks + 1)
    <2>1. UpTo(replica[s], ticks + 1)
        BY <1>2 DEF MergeTyped, AllUpTo
    <2> QED BY <1>1, <2>1 DEF UpTo
<1> QED BY <1>1, <1>2, <1>3 DEF AllUpTo, MergeTyped

LEMMA ChangesUpTo ==
    ASSUME MergeConstants, MergeTyped, AllUpTo, NEW s \in Twins, walk = None,
           \/ \E x \in Nodes : \/ Merge!EditEntry(s, x) \/ Merge!RenameGroup(s, x) \/ Merge!Delete(s, x)
                               \/ \E g \in ReplicaGroups : Merge!Create(s, x, g) \/ Merge!Move(s, x, g)
           \/ Merge!RenameDatabase(s)
    PROVE  AllUpTo'
<1> DEFINE n == ticks + 1
<1>1. PICK l \in Databases : l = replica[s]
    BY DEF MergeTyped
<1>2. n \in Nat /\ UpTo(l, ticks) /\ ticks \in Nat
    BY <1>1 DEF MergeTyped, AllUpTo
<1>3. ASSUME NEW x \in Nodes
      PROVE  l.item[x] \in Items /\ ItemUpTo(l.item[x], n)
    BY <1>2, LaterUpTo DEF UpTo, Databases
<1>4. ASSUME NEW db, Merge!Change(s, db), db.name \in {l.name, n},
             \A y \in Nodes : db.item[y] = l.item[y] \/ ItemUpTo(db.item[y], n)
      PROVE  AllUpTo'
    BY <1>1, <1>4, ChangeUpTo
<1>5. \* an item is replaced
      ASSUME NEW x \in Nodes, NEW kids, NEW i, ItemUpTo(i, n),
             Merge!Change(s, [l EXCEPT !.kids = kids, !.item[x] = i])
      PROVE  AllUpTo'
    <2>1. PICK db : db = [l EXCEPT !.kids = kids, !.item[x] = i]
        OBVIOUS
    <2>2. db.name = l.name /\ \A y \in Nodes : db.item[y] = IF y = x THEN i ELSE l.item[y]
        BY <2>1 DEF Databases
    <2> QED BY <1>4, <1>5, <2>1, <2>2
<1>6. \A x, i : [l EXCEPT !.kids = l.kids, !.item[x] = i] = [l EXCEPT !.item[x] = i]
    BY DEF Databases
<1> HIDE DEF n
<1>8. ASSUME NEW x \in Nodes, Merge!EditEntry(s, x)
      PROVE  AllUpTo'
    <2>1. PICK i : i = [Merge!Pushed(l.item[x]) EXCEPT !.mod = n]
        OBVIOUS
    <2>2. ItemUpTo(i, n)
        <3>1. PICK k \in Items : k = l.item[x] /\ ItemUpTo(k, n)
            BY <1>3
        <3> QED BY <1>2, <2>1, <3>1 DEF Merge!Pushed, Items, ItemUpTo
    <2>3. Merge!Change(s, [l EXCEPT !.item[x] = i])
        BY <1>1, <1>8, <2>1 DEF Merge!EditEntry, Merge!Now, n
    <2>4. Merge!Change(s, [l EXCEPT !.kids = l.kids, !.item[x] = i])
        BY <1>6, <2>3
    <2> QED BY <1>5, <2>2, <2>4
<1>9. ASSUME NEW x \in Nodes, Merge!RenameGroup(s, x)
      PROVE  AllUpTo'
    <2>1. PICK i : i = [l.item[x] EXCEPT !.mod = n]
        OBVIOUS
    <2>2. ItemUpTo(i, n)
        <3>1. PICK k \in Items : k = l.item[x] /\ ItemUpTo(k, n)
            BY <1>3
        <3> QED BY <1>2, <2>1, <3>1 DEF Items, ItemUpTo
    <2>3. Merge!Change(s, [l EXCEPT !.item[x] = i])
        BY <1>1, <1>9, <2>1 DEF Merge!RenameGroup, Merge!Now, n, Databases
    <2>4. Merge!Change(s, [l EXCEPT !.kids = l.kids, !.item[x] = i])
        BY <1>6, <2>3
    <2> QED BY <1>5, <2>2, <2>4
<1>10. ASSUME NEW x \in Nodes, Merge!Delete(s, x)
       PROVE  AllUpTo'
    <2>1. PICK dead, kids : Merge!Change(s, [l EXCEPT !.dead = dead, !.kids = kids])
        BY <1>1, <1>10 DEF Merge!Delete
    <2>2. PICK db : db = [l EXCEPT !.dead = dead, !.kids = kids]
        OBVIOUS
    <2>3. db.name = l.name /\ db.item = l.item
        BY <2>2 DEF Databases
    <2> QED BY <1>4, <2>1, <2>2, <2>3
<1>11. ASSUME NEW x \in Nodes, NEW g \in ReplicaGroups, Merge!Create(s, x, g)
       PROVE  AllUpTo'
    <2>1. PICK i, kids : i = [Merge!Fresh EXCEPT !.mod = n, !.loc = n] /\ kids = Merge!PutIn(l.kids, g, x)
        OBVIOUS
    <2>2. ItemUpTo(i, n)
        BY <1>2, <2>1 DEF Merge!Fresh, ItemUpTo
    <2>3. Merge!Change(s, [l EXCEPT !.kids = kids, !.item[x] = i])
        BY <1>1, <1>11, <2>1 DEF Merge!Create, Merge!Now, n
    <2> QED BY <1>5, <2>2, <2>3
<1>12. ASSUME NEW x \in Nodes, NEW g \in ReplicaGroups, Merge!Move(s, x, g)
       PROVE  AllUpTo'
    <2>1. PICK i, kids : i = [l.item[x] EXCEPT !.loc = n] /\ kids = Merge!PutIn(l.kids, g, x)
        OBVIOUS
    <2>2. ItemUpTo(i, n)
        <3>1. PICK k \in Items : k = l.item[x] /\ ItemUpTo(k, n)
            BY <1>3
        <3> QED BY <1>2, <2>1, <3>1 DEF Items, ItemUpTo
    <2>3. Merge!Change(s, [l EXCEPT !.kids = kids, !.item[x] = i])
        BY <1>1, <1>12, <2>1 DEF Merge!Move, Merge!Now, n, Databases
    <2> QED BY <1>5, <2>2, <2>3
<1>13. CASE Merge!RenameDatabase(s)
    <2>1. Merge!Change(s, [l EXCEPT !.name = n])
        BY <1>1, <1>13 DEF Merge!RenameDatabase, Merge!Now, n
    <2>2. PICK db : db = [l EXCEPT !.name = n]
        OBVIOUS
    <2>3. db.name = n /\ db.item = l.item
        BY <2>2 DEF Databases
    <2> QED BY <1>4, <2>1, <2>2, <2>3
<1> QED BY <1>8, <1>9, <1>10, <1>11, <1>12, <1>13

LEMMA TimesGoOn ==
    ASSUME MergeConstants, MergeTyped, MergeHung, AllUpTo, [Merge!Next]_Merge!vars
    PROVE  AllUpTo'
<1>1. CASE UNCHANGED Merge!vars
    BY <1>1 DEF Merge!vars, AllUpTo
<1>2. CASE WalkStep
    <2>1. UNCHANGED <<replica, upstream, ticks>> /\ \A x \in Nodes : ItemUpTo(walk'.item[x], ticks)
        BY <1>2, WalkGoesOn, WalkUpTo
    <2> QED BY <2>1 DEF AllUpTo
<1>3. CASE Merge!EndMerge
    <2>1. /\ walk.site \in Twins /\ MergesTo(replica[walk.site], upstream, walk, upstream') /\ ticks' = ticks
          /\ \A z \in Twins : replica'[z] = IF z = walk.site THEN upstream' ELSE replica[z]
          /\ walk' = None
        BY <1>3, EndIs
    <2>2. UpTo(upstream', ticks)
        <3>1. /\ ticks \in Nat /\ UpTo(replica[walk.site], ticks) /\ UpTo(upstream, ticks)
              /\ \A x \in Nodes : ItemUpTo(walk.item[x], ticks)
            BY <1>3, <2>1 DEF MergeTyped, AllUpTo, Merge!EndMerge
        <3> QED BY <2>1, <3>1, MergesUpTo
    <2> QED BY <2>1, <2>2 DEF AllUpTo
<1>4. ASSUME Merge!Next, ~WalkStep, ~Merge!EndMerge
      PROVE  AllUpTo'
    BY <1>4, ChangesUpTo DEF Merge!Next, Nodes, WalkStep
<1> QED BY <1>1, <1>2, <1>3, <1>4

LEMMA MergeTypeOK ==
    ASSUME MergeConstants, MergeInv, AllUpTo
    PROVE  Merge!TypeOK
<1>1. ASSUME NEW db \in Databases, UpTo(db, ticks)
      PROVE  Merge!Database(db)
    <2>1. ticks \in Nat /\ ticks <= MaxTicks /\ MaxTicks \in Nat
        BY DEF MergeInv, MergeTyped, AllUpTo, MergeConstants
    <2>2. db.kids \in [ReplicaGroups -> SUBSET Merge!Objects] /\ db.dead \subseteq Merge!Objects
        BY DEF Databases, KidSets, Nodes
    <2>3. ASSUME NEW t \in Nat, t <= ticks
          PROVE  t \in Merge!Times
        BY <2>1, <2>3 DEF Merge!Times
    <2>4. db.name \in Merge!Times
        BY <1>1, <2>3 DEF UpTo, Databases
    <2>5. ASSUME NEW x \in Merge!Objects
          PROVE  db.item[x].mod \in Merge!Times /\ db.item[x].loc \in Merge!Times /\ db.item[x].hist \subseteq Merge!Times
        <3>1. PICK i \in Items : i = db.item[x] /\ ItemUpTo(i, ticks)
            BY <1>1, <2>5 DEF Databases, UpTo, Nodes
        <3> QED BY <2>3, <3>1 DEF Items, ItemUpTo
    <2> QED BY <2>2, <2>4, <2>5 DEF Merge!Database
<1>2. ticks \in Merge!Times
    BY DEF MergeInv, MergeTyped, AllUpTo, MergeConstants, Merge!Times
<1>3. /\ \A s \in Twins : replica[s] \in Databases /\ UpTo(replica[s], ticks)
      /\ upstream \in Databases /\ UpTo(upstream, ticks)
      /\ born \subseteq Merge!Objects /\ known \subseteq born /\ missed \subseteq known
    BY DEF MergeInv, MergeTyped, AllUpTo, Nodes
<1>4. ASSUME walk # None
      PROVE  /\ walk.site \in Twins /\ walk.path \in Seq(ReplicaGroups) /\ walk.met \subseteq Merge!Objects
             /\ Merge!Database([Merge!Local EXCEPT !.kids = walk.kids, !.item = walk.item])
    <2>1. walk.site \in Twins /\ walk \in Walks /\ \A x \in Nodes : ItemUpTo(walk.item[x], ticks)
        BY <1>4 DEF MergeInv, MergeTyped, Walking, AllUpTo
    <2>2. PICK l \in Databases : l = Merge!Local /\ UpTo(l, ticks)
        BY <1>3, <2>1 DEF Merge!Local
    <2>3. PICK db : db = [l EXCEPT !.kids = walk.kids, !.item = walk.item]
        OBVIOUS
    <2>4. db \in Databases /\ db.name = l.name /\ db.item = walk.item
        BY <2>1, <2>3 DEF Databases, Walks
    <2>5. UpTo(db, ticks)
        BY <2>1, <2>2, <2>4 DEF UpTo
    <2>6. Merge!Database(db)
        BY <1>1, <2>4, <2>5
    <2> QED BY <2>1, <2>2, <2>3, <2>6 DEF Walks, Nodes
<1> QED BY <1>1, <1>2, <1>3, <1>4 DEF Merge!TypeOK

LEMMA TimesBegin ==
    ASSUME MergeConstants, Merge!Init
    PROVE  AllUpTo
<1>1. PICK a : a = Merge!Ancestor
    OBVIOUS
<1>2. a.name = 0 /\ \A x \in Nodes : a.item[x] = Merge!Fresh
    BY <1>1 DEF Merge!Ancestor, Nodes
<1>3. ItemUpTo(Merge!Fresh, 0)
    BY DEF ItemUpTo, Merge!Fresh
<1>4. UpTo(a, 0)
    BY <1>2, <1>3 DEF UpTo
<1> QED BY <1>1, <1>4 DEF Merge!Init, AllUpTo, MergeConstants

LEMMA MetaTypeOK ==
    ASSUME MetaInv
    PROVE  Meta!TypeOK
<1>1. clock \in 1..MaxClock /\ \A c \in Twins : meta[c] \in Metas
    BY DEF MetaInv, MetaTypes
<1> QED BY <1>1 DEF Metas, Meta!TypeOK, Settings, Undated

LEMMA CombineTypeOK ==
    ASSUME CInv
    PROVE  Combining!TypeOK
<1>1. \A i \in DOMAIN tree : tree[i] \in OwnEntries
    BY DEF CInv, Trees
<1> QED BY <1>1 DEF CInv, Combining!TypeOK, OwnEntries

\* What entries hold was written by a step up to n, and no more versions were pushed.
FieldsUpTo(F, n) == \A f \in Edits!Fields : F[f] # None => F[f].text <= n
EntryUpTo(x, n) == FieldsUpTo(x.fields, n) /\ Len(x.hist) <= n /\ (x.xc # None => x.xc.at <= n)
EditsUpTo ==
    /\ steps <= MaxSteps /\ dropped \subseteq Entries /\ raced \subseteq Held
    /\ \A e \in Entries : EntryUpTo(entry[e], steps)
    /\ merging # None => merging.at <= steps

LEMMA LaterEntry ==
    ASSUME NEW x \in EntryRecords, NEW n \in Nat, EntryUpTo(x, n)
    PROVE  EntryUpTo(x, n + 1)
<1>1. \A f \in Edits!Fields : x.fields[f] # None => x.fields[f].text \in Nat
    BY DEF EntryRecords, FieldSets, FieldValues
<1>2. x.xc # None => x.xc.at \in Nat
    BY DEF EntryRecords, XcFields
<1>3. Len(x.hist) \in Nat
    BY DEF EntryRecords
<1> QED BY <1>1, <1>2, <1>3 DEF EntryUpTo, FieldsUpTo

LEMMA PushedUpTo ==
    ASSUME NEW y \in EntryRecords, NEW n \in Nat, EntryUpTo(y, n), NEW x, x = Edits!Pushed(y)
    PROVE  EntryUpTo(x, n + 1) /\ x \in EntryRecords
<1>1. x \in EntryRecords /\ x.fields = y.fields /\ x.xc = y.xc /\ x.hist = Append(y.hist, Edits!Copy(y))
    BY PushedIs
<1>2. Len(y.hist) \in Nat /\ Len(y.hist) <= n
    BY DEF EntryRecords, EntryUpTo
<1>3. Edits!Copy(y) \in Copies
    BY DEF EntryRecords, Copies, Edits!Copy
<1>4. Len(x.hist) = Len(y.hist) + 1
    BY <1>1, <1>3, AppendProperties DEF EntryRecords
<1>5. EntryUpTo(y, n + 1)
    BY LaterEntry
<1> QED BY <1>1, <1>2, <1>4, <1>5 DEF EntryUpTo

\* An entry is replaced by one whose parts are up to now.
LEMMA PutUpTo ==
    ASSUME MaxSteps \in Nat, EditsTypes, EditsUpTo, NEW e \in Entries, NEW x, EntryUpTo(x, steps + 1),
           Edits!Put(e, x), Edits!Tick, dropped' \subseteq Entries, raced' \subseteq Held,
           merging' = merging \/ (merging' # None => merging'.at <= steps + 1)
    PROVE  EditsUpTo'
<1>1. /\ steps \in Nat /\ steps' = steps + 1 /\ steps + 1 <= MaxSteps
      /\ \A o \in Entries : entry'[o] = IF o = e THEN x ELSE entry[o]
    BY DEF EditsTypes, Edits!Put, Edits!Tick, Edits!Now
<1>2. \A o \in Entries : EntryUpTo(entry[o], steps + 1)
    BY <1>1, LaterEntry DEF EditsTypes, EditsUpTo
<1>3. merging # None => merging.at \in Nat /\ merging.at <= steps
    BY DEF EditsTypes, EditsUpTo, Mergings
<1>4. merging' # None => merging'.at <= steps + 1
    BY <1>1, <1>3
<1> QED BY <1>1, <1>2, <1>4 DEF EditsUpTo

\* The same within an operation.
LEMMA StayUpTo ==
    ASSUME EditsTypes, EditsUpTo, NEW e \in Entries, NEW x, EntryUpTo(x, steps), Edits!Put(e, x),
           UNCHANGED <<steps, dropped, raced>>, merging' # None => merging'.at <= steps
    PROVE  EditsUpTo'
<1>1. \A o \in Entries : entry'[o] = IF o = e THEN x ELSE entry[o]
    BY DEF EditsTypes, Edits!Put
<1> QED BY <1>1 DEF EditsUpTo

LEMMA EditUpTo ==
    ASSUME MaxSteps \in Nat, EditsTypes, EditsUpTo, NEW e \in Entries, NEW x, EntryUpTo(x, steps + 1),
           Edits!Edit(e, x)
    PROVE  EditsUpTo'
BY PutUpTo DEF Edits!Edit, EditsUpTo

\* The fields of an entry are replaced after it was pushed.
LEMMA FieldsSetUpTo ==
    ASSUME NEW z \in EntryRecords, NEW n \in Nat, EntryUpTo(z, n), NEW F, FieldsUpTo(F, n),
           NEW x, x = [z EXCEPT !.fields = F]
    PROVE  EntryUpTo(x, n)
BY DEF EntryUpTo, EntryRecords

LEMMA ValuesUpTo ==
    ASSUME NEW n \in Nat
    PROVE  /\ Edits!Text(n).text <= n /\ Edits!Empty.text <= n
           /\ \A e : Edits!Reference(e).text <= n
BY DEF Edits!Text, Edits!Empty, Edits!Reference

LEMMA FieldOperationUpTo ==
    ASSUME MaxSteps \in Nat, EditsInv, EditsUpTo, NEW e \in Entries,
           \/ \E S \in SUBSET Edits!Logins : Edits!UpdateEntry(e, S)
           \/ Edits!SetTotp(e) \/ Edits!RemoveTotp(e) \/ Edits!ClearClone(e) \/ Edits!RefuseClone(e)
           \/ \E f \in Twins : \/ Edits!SetCustomField(e, f) \/ Edits!RemoveCustomField(e, f)
                               \/ \E g \in Twins : Edits!RenameCustomField(e, f, g)
           \/ \E s \in Entries : Edits!SetClone(e, s)
    PROVE  EditsUpTo'
<1>1. PICK y \in EntryRecords : y = entry[e]
    BY DEF EditsInv, EditsTypes
<1>2. PICK n \in Nat : n = steps + 1 /\ n = Edits!Now
    BY DEF EditsInv, EditsTypes, Edits!Now
<1>3. steps \in Nat /\ EntryUpTo(y, steps)
    BY <1>1 DEF EditsInv, EditsTypes, EditsUpTo
<1>4. PICK z \in EntryRecords : z = Edits!Pushed(y) /\ EntryUpTo(z, n)
    BY <1>2, <1>3, PushedUpTo
<1>5. ASSUME NEW x, EntryUpTo(x, n), Edits!Edit(e, x)
      PROVE  EditsUpTo'
    BY <1>2, <1>5, EditUpTo DEF EditsInv
<1>6. ASSUME NEW F, FieldsUpTo(F, n), Edits!Edit(e, [z EXCEPT !.fields = F])
      PROVE  EditsUpTo'
    <2>1. PICK x : x = [z EXCEPT !.fields = F]
        OBVIOUS
    <2> QED BY <1>4, <1>5, <1>6, <2>1, FieldsSetUpTo
<1>7. FieldsUpTo(z.fields, n)
    BY <1>4 DEF EntryUpTo
<1>8. ASSUME NEW S, Edits!Edit(e, Edits!Applied(Edits!Pushed(y), S, Edits!Now))
      PROVE  EditsUpTo'
    <2>1. PICK F : F = [f \in Edits!Fields |-> IF f \in S THEN Edits!Text(n) ELSE z.fields[f]]
        OBVIOUS
    <2>2. FieldsUpTo(F, n)
        BY <1>7, <2>1, ValuesUpTo DEF FieldsUpTo
    <2>3. Edits!Edit(e, [z EXCEPT !.fields = F])
        BY <1>2, <1>4, <1>8, <2>1 DEF Edits!Applied
    <2> QED BY <1>6, <2>2, <2>3
<1>9. ASSUME NEW S, NEW w, w = Edits!Without(Edits!Pushed(y), S)
      PROVE  EntryUpTo(w, n) /\ w \in EntryRecords
    <2>1. PICK F : F = [f \in Edits!Fields |-> IF f \in S THEN None ELSE z.fields[f]]
        OBVIOUS
    <2>2. FieldsUpTo(F, n)
        BY <1>7, <2>1 DEF FieldsUpTo
    <2>3. w = [z EXCEPT !.fields = F]
        BY <1>4, <1>9, <2>1 DEF Edits!Without
    <2> QED BY <1>4, <1>9, <2>2, <2>3, FieldsSetUpTo, WithoutIs
<1>10. ASSUME NEW f \in Twins, NEW g \in Twins, Edits!RenameCustomField(e, f, g)
       PROVE  EditsUpTo'
    <2>1. PICK w : w = Edits!Without(Edits!Pushed(y), {f})
        OBVIOUS
    <2>2. w \in EntryRecords /\ EntryUpTo(w, n) /\ FieldsUpTo(w.fields, n)
        BY <1>9, <2>1 DEF EntryUpTo
    <2>3. PICK F : F = [w.fields EXCEPT ![g] = y.fields[f]]
        OBVIOUS
    <2>4. y.fields[f] # None => y.fields[f].text <= n
        <3>1. f \in Edits!Fields /\ EntryUpTo(y, n)
            BY <1>2, <1>3, LaterEntry DEF Edits!Fields
        <3> QED BY <3>1 DEF EntryUpTo, FieldsUpTo
    <2>5. FieldsUpTo(F, n)
        BY <2>2, <2>3, <2>4 DEF FieldsUpTo, EntryRecords, FieldSets
    <2>6. PICK x : x = [w EXCEPT !.fields = F]
        OBVIOUS
    <2>7. Edits!Edit(e, x)
        BY <1>1, <1>10, <2>1, <2>3, <2>6 DEF Edits!RenameCustomField
    <2> QED BY <1>5, <2>2, <2>5, <2>6, <2>7, FieldsSetUpTo
<1>11. ASSUME NEW s \in Entries, Edits!SetClone(e, s)
       PROVE  EditsUpTo'
    <2>1. PICK F : F = [f \in Edits!Fields |-> IF f \in Edits!Logins THEN Edits!Reference(s) ELSE z.fields[f]]
        OBVIOUS
    <2>2. FieldsUpTo(F, n)
        BY <1>7, <2>1, ValuesUpTo DEF FieldsUpTo
    <2>3. Edits!Edit(e, [z EXCEPT !.fields = F])
        BY <1>1, <1>4, <1>11, <2>1 DEF Edits!SetClone
    <2> QED BY <1>6, <2>2, <2>3
<1>12. CASE Edits!ClearClone(e)
    <2>1. PICK F : F = [f \in Edits!Fields |-> IF f \in Edits!Logins THEN Edits!Empty ELSE z.fields[f]]
        OBVIOUS
    <2>2. FieldsUpTo(F, n)
        BY <1>7, <2>1, ValuesUpTo DEF FieldsUpTo
    <2>3. Edits!Edit(e, [z EXCEPT !.fields = F])
        BY <1>1, <1>4, <1>12, <2>1 DEF Edits!ClearClone
    <2> QED BY <1>6, <2>2, <2>3
<1>13. CASE Edits!RefuseClone(e)
    BY <1>1, <1>4, <1>5, <1>13 DEF Edits!RefuseClone
<1>14. ASSUME NEW S, Edits!Edit(e, Edits!Without(Edits!Pushed(y), S))
       PROVE  EditsUpTo'
    BY <1>5, <1>9, <1>14
<1>15. ASSUME NEW S \in SUBSET Edits!Logins, Edits!UpdateEntry(e, S)
       PROVE  EditsUpTo'
    BY <1>1, <1>8, <1>15 DEF Edits!UpdateEntry
<1>16. ASSUME Edits!SetTotp(e) \/ Edits!RemoveTotp(e)
       PROVE  EditsUpTo'
    BY <1>1, <1>8, <1>14, <1>16 DEF Edits!SetTotp, Edits!RemoveTotp
<1>17. ASSUME NEW f \in Twins, Edits!SetCustomField(e, f) \/ Edits!RemoveCustomField(e, f)
       PROVE  EditsUpTo'
    BY <1>1, <1>8, <1>14, <1>17 DEF Edits!SetCustomField, Edits!RemoveCustomField
<1> QED BY <1>10, <1>11, <1>12, <1>13, <1>15, <1>16, <1>17

\* The attachments and the index of an entry are replaced.
LEMMA FilesSetUpTo ==
    ASSUME NEW z \in EntryRecords, NEW n \in Nat, EntryUpTo(z, n), NEW p, NEW v, NEW I,
           NEW x, x = [z EXCEPT !.files[p] = v] \/ x = [z EXCEPT !.files[p] = v, !.index = I]
    PROVE  EntryUpTo(x, n)
<1>1. x.fields = z.fields /\ x.hist = z.hist /\ x.xc = z.xc
    BY DEF EntryRecords
<1> QED BY <1>1 DEF EntryUpTo

\* A passkey is stored in KeePassXC's fields.
LEMMA XcSetUpTo ==
    ASSUME NEW z \in EntryRecords, NEW n \in Nat, EntryUpTo(z, n), NEW p, NEW x,
           x = [z EXCEPT !.xc = Edits!StoredByXc(p, n)] \/ x = [z EXCEPT !.xc = None]
    PROVE  EntryUpTo(x, n)
<1>1. x.fields = z.fields /\ x.hist = z.hist /\ (x.xc = None \/ x.xc = Edits!StoredByXc(p, n))
    BY DEF EntryRecords
<1>2. Edits!StoredByXc(p, n) # None => Edits!StoredByXc(p, n).at = n
    BY DEF Edits!StoredByXc
<1> QED BY <1>1, <1>2 DEF EntryUpTo

LEMMA OthersUpTo ==
    ASSUME MaxSteps \in Nat, EditsInv, EditsUpTo, NEW e \in Entries,
           \/ Edits!AddAttachment(e) \/ \E m \in Edits!Files : Edits!RemoveAttachment(e, m)
           \/ \E p \in Held : Edits!StartPasskey(p, e) \/ Edits!RemovePasskey(e, p)
    PROVE  EditsUpTo'
<1>1. PICK y \in EntryRecords : y = entry[e]
    BY DEF EditsInv, EditsTypes
<1>2. PICK n \in Nat : n = steps + 1 /\ n = Edits!Now
    BY DEF EditsInv, EditsTypes, Edits!Now
<1>3. EditsTypes /\ steps \in Nat /\ EntryUpTo(y, steps)
    BY <1>1 DEF EditsInv, EditsTypes, EditsUpTo
<1>4. EntryUpTo(y, n)
    BY <1>2, <1>3, LaterEntry
<1>5. PICK z \in EntryRecords : z = Edits!Pushed(y) /\ EntryUpTo(z, n)
    BY <1>2, <1>3, PushedUpTo
<1>6. ASSUME NEW m, NEW v, Edits!Edit(e, [y EXCEPT !.files[m] = v])
      PROVE  EditsUpTo'
    <2>1. PICK x : x = [y EXCEPT !.files[m] = v]
        OBVIOUS
    <2>2. EntryUpTo(x, n)
        BY <1>4, <1>6, <2>1, FilesSetUpTo
    <2> QED BY <1>2, <1>3, <1>6, <2>1, <2>2, EditUpTo
<1>7. ASSUME Edits!AddAttachment(e) \/ \E m \in Edits!Files : Edits!RemoveAttachment(e, m)
      PROVE  EditsUpTo'
    <2>1. ASSUME Edits!AddAttachment(e)
          PROVE  EditsUpTo'
        <3>1. Edits!Edit(e, [y EXCEPT !.files[Doc] = 1])
            BY <1>1, <2>1 DEF Edits!AddAttachment
        <3> QED BY <1>6, <3>1
    <2>2. ASSUME NEW m \in Edits!Files, Edits!RemoveAttachment(e, m)
          PROVE  EditsUpTo'
        <3>1. Edits!Edit(e, [y EXCEPT !.files[m] = 0])
            BY <1>1, <2>2 DEF Edits!RemoveAttachment
        <3> QED BY <1>6, <3>1
    <2> QED BY <1>7, <2>1, <2>2
<1>8. ASSUME NEW p \in Held, Edits!StartPasskey(p, e)
      PROVE  EditsUpTo'
    <2>1. Edits!Put(e, z) /\ Edits!Tick /\ dropped' = dropped /\ raced' = raced /\ merging' = merging
        BY <1>1, <1>5, <1>8 DEF Edits!StartPasskey
    <2> QED BY <1>2, <1>3, <1>5, <2>1, PutUpTo DEF EditsUpTo
<1>9. ASSUME NEW p \in Held, Edits!RemovePasskey(e, p)
      PROVE  EditsUpTo'
    <2>1. PICK x : x = IF p \in Twins THEN [z EXCEPT !.files[p] = 0, !.index = z.index \ {p}]
                       ELSE [z EXCEPT !.xc = None]
        OBVIOUS
    <2>2. ASSUME p \in Twins
          PROVE  EntryUpTo(x, n)
        <3>1. x = [z EXCEPT !.files[p] = 0, !.index = z.index \ {p}]
            BY <2>1, <2>2
        <3> QED BY <1>5, <3>1, FilesSetUpTo
    <2>3. ASSUME p \notin Twins
          PROVE  EntryUpTo(x, n)
        <3>1. x = [z EXCEPT !.xc = None]
            BY <2>1, <2>3
        <3> QED BY <1>5, <3>1, XcSetUpTo
    <2>4. Edits!Put(e, x) /\ Edits!Tick /\ dropped' = dropped /\ raced' \subseteq raced \cup {p}
          /\ merging' = merging
        BY <1>1, <1>5, <1>9, <2>1 DEF Edits!RemovePasskey, EntryRecords
    <2>5. EntryUpTo(x, n)
        BY <2>2, <2>3
    <2> QED BY <1>2, <1>3, <2>4, <2>5, PutUpTo DEF EditsUpTo
<1> QED BY <1>7, <1>8, <1>9

LEMMA FinishedUpTo ==
    ASSUME MaxSteps \in Nat, EditsInv, EditsUpTo, NEW p \in Held, Edits!AttachPasskey(p) \/ Edits!WriteCounter(p)
    PROVE  EditsUpTo'
<1>1. PICK e \in Entries : e = job[p].in
    BY DEF EditsInv, EditsTypes, Edits!AttachPasskey, Edits!WriteCounter
<1>2. PICK y \in EntryRecords : y = entry[e]
    BY DEF EditsInv, EditsTypes
<1>3. PICK n \in Nat : n = steps + 1 /\ n = Edits!Now
    BY DEF EditsInv, EditsTypes, Edits!Now
<1>4. EditsTypes /\ steps \in Nat /\ EntryUpTo(y, steps) /\ EntryUpTo(y, n)
    BY <1>2, <1>3, LaterEntry DEF EditsInv, EditsTypes, EditsUpTo
<1>5. ASSUME Edits!AttachPasskey(p)
      PROVE  EditsUpTo'
    <2>1. PICK x : Edits!Put(e, x) /\ x = [y EXCEPT !.files[p] = 1, !.index = Edits!Indexed(p)]
        BY <1>1, <1>2, <1>5 DEF Edits!AttachPasskey
    <2>2. EntryUpTo(x, steps)
        BY <1>4, <2>1, FilesSetUpTo
    <2>3. UNCHANGED <<steps, dropped, raced, merging>>
        BY <1>5 DEF Edits!AttachPasskey
    <2> QED BY <1>4, <2>1, <2>2, <2>3, StayUpTo DEF EditsUpTo
<1>6. ASSUME Edits!WriteCounter(p)
      PROVE  EditsUpTo'
    <2>1. PICK x : /\ Edits!Put(e, x)
                   /\ x = [y EXCEPT !.files[p] = 1] \/ x = [y EXCEPT !.xc = Edits!StoredByXc(p, n)]
        BY <1>1, <1>2, <1>3, <1>6 DEF Edits!WriteCounter
    <2>2. EntryUpTo(x, n)
        BY <1>4, <2>1, FilesSetUpTo, XcSetUpTo
    <2>3. Edits!Tick /\ UNCHANGED <<dropped, raced, merging>>
        BY <1>6 DEF Edits!WriteCounter
    <2> QED BY <1>3, <1>4, <2>1, <2>2, <2>3, PutUpTo DEF EditsUpTo
<1> QED BY <1>5, <1>6

LEMMA FilledUpTo ==
    ASSUME NEW y \in EntryRecords, NEW n \in Nat, EntryUpTo(y, n), NEW S, NEW m, m.at \in Nat, m.at <= n,
           NEW x, x = Edits!MergedFields(y, S, m)
    PROVE  EntryUpTo(x, n)
<1> DEFINE T == {f \in S \cap m.rec.fields : m.keepB \/ Edits!IsEmpty(y, f)}
<1>1. x = Edits!Applied(y, T, m.at)
    BY DEF Edits!MergedFields
<1> HIDE DEF T
<1>2. PICK F : F = [f \in Edits!Fields |-> IF f \in T THEN Edits!Text(m.at) ELSE y.fields[f]]
    OBVIOUS
<1>3. FieldsUpTo(F, n)
    BY <1>2 DEF EntryUpTo, FieldsUpTo, Edits!Text
<1>4. x = [y EXCEPT !.fields = F]
    BY <1>1, <1>2 DEF Edits!Applied
<1> QED BY <1>3, <1>4, FieldsSetUpTo

LEMMA RestUpTo ==
    ASSUME NEW y \in EntryRecords, NEW n \in Nat, EntryUpTo(y, n), NEW m, m.at \in Nat, m.at <= n,
           NEW x, x = Edits!WithRest(y, m)
    PROVE  EntryUpTo(x, n)
<1>1. PICK z : z = Edits!MergedFields(y, Twins, m)
    OBVIOUS
<1>2. z \in EntryRecords /\ EntryUpTo(z, n)
    BY <1>1, FieldsMerged, FilledUpTo
<1>3. PICK s : s = Edits!StoredByXc(m.rec.xc, m.at)
    OBVIOUS
<1>4. PICK c : c = (IF m.rec.xc # None /\ (z.xc = None \/ m.keepB) THEN s ELSE z.xc)
    OBVIOUS
<1>5. PICK I : I = z.index \cup m.rec.index
    OBVIOUS
<1>6. x = [z EXCEPT !.index = I, !.xc = c]
    BY <1>1, <1>2, <1>3, <1>4, <1>5 DEF Edits!WithRest, EntryRecords
<1>7. x.fields = z.fields /\ x.hist = z.hist /\ x.xc = c
    BY <1>2, <1>6 DEF EntryRecords
<1>8. s # None => s.at <= n
    BY <1>3 DEF Edits!StoredByXc
<1> QED BY <1>2, <1>4, <1>7, <1>8 DEF EntryUpTo

\* What a merge puts into an entry is not ahead of the merge.
LEMMA ContinueUpTo ==
    ASSUME NEW n \in Nat, NEW m, m.at \in Nat, m.at <= n, NEW x \in EntryRecords, EntryUpTo(x, n),
           m \in Mergings, Edits!Continue(x, m)
    PROVE  \E z : /\ Edits!Put(m.in, z) /\ EntryUpTo(z, n)
                  /\ merging' # None => merging'.at <= n
<1>1. CASE Edits!ToCopy(x, m) = {}
    <2>1. PICK z : z = Edits!WithRest(x, m)
        OBVIOUS
    <2>2. EntryUpTo(z, n)
        BY <2>1, RestUpTo
    <2> QED BY <1>1, <2>1, <2>2 DEF Edits!Continue
<1>2. CASE Edits!ToCopy(x, m) # {}
    <2>1. PICK k : merging' = [m EXCEPT !.copied = k]
        BY <1>2 DEF Edits!Continue
    <2>2. merging'.at = m.at
        BY <2>1 DEF Mergings
    <2> QED BY <1>2, <2>2 DEF Edits!Continue
<1> QED BY <1>1, <1>2

LEMMA BeginMergeUpTo ==
    ASSUME MaxSteps \in Nat, EditsInv, EditsUpTo, NEW e \in Entries, NEW r \in Records, NEW b \in BOOLEAN,
           Edits!BeginMerge(e, r, b)
    PROVE  EditsUpTo'
<1>1. PICK n \in Nat : n = steps + 1 /\ n = Edits!Now
    BY DEF EditsInv, EditsTypes, Edits!Now
<1>2. EditsTypes /\ steps \in Nat
    BY DEF EditsInv, EditsTypes
<1>3. PICK y \in EntryRecords : y = entry[e] /\ EntryUpTo(y, n)
    BY <1>1, <1>2, LaterEntry DEF EditsTypes, EditsUpTo
<1>4. PICK m : m = [in |-> e, rec |-> r, keepB |-> b, copied |-> 0, at |-> Edits!Now]
    OBVIOUS
<1>5. m \in Mergings /\ m.in = e /\ m.at = n
    BY <1>1, <1>4 DEF Mergings
<1>6. PICK x : x = Edits!MergedFields(y, Edits!Logins \cup {"otp"}, m)
    OBVIOUS
<1>7. x \in EntryRecords /\ EntryUpTo(x, n)
    BY <1>3, <1>5, <1>6, FieldsMerged, FilledUpTo
<1>8. Edits!Continue(x, m) /\ Edits!Tick /\ UNCHANGED <<dropped, raced>>
    BY <1>3, <1>4, <1>6 DEF Edits!BeginMerge
<1>9. PICK z : Edits!Put(e, z) /\ EntryUpTo(z, n) /\ (merging' # None => merging'.at <= n)
    BY <1>5, <1>7, <1>8, ContinueUpTo
<1> QED BY <1>1, <1>2, <1>8, <1>9, PutUpTo DEF EditsUpTo

LEMMA StoreAttachmentUpTo ==
    ASSUME EditsConstants, EditsInv, EditsUpTo, Edits!StoreAttachment
    PROVE  EditsUpTo'
<1>1. PICK m : m = merging
    OBVIOUS
<1>2. EditsTypes /\ steps \in Nat /\ m # None
    BY <1>1 DEF EditsInv, EditsTypes, Edits!StoreAttachment
<1>3. m \in Mergings /\ m.in \in Entries /\ m.rec.files[m.copied] \in Edits!Files /\ m.at \in Nat /\ m.at <= steps
    BY <1>1, <1>2, RecordsAre DEF EditsTypes, EditsUpTo, Mergings
<1>4. PICK y \in EntryRecords : y = entry[m.in] /\ EntryUpTo(y, steps)
    BY <1>2, <1>3 DEF EditsTypes, EditsUpTo
<1>5. PICK x : x = [y EXCEPT !.files[m.rec.files[m.copied]] = 1]
    OBVIOUS
<1>6. x \in EntryRecords
    <2>1. PICK G : G = [y.files EXCEPT ![m.rec.files[m.copied]] = 1]
        OBVIOUS
    <2>2. G \in FileSets
        BY <1>3, <2>1 DEF EntryRecords, FileSets
    <2>3. x = [y EXCEPT !.files = G]
        BY <1>5, <2>1
    <2> QED BY <2>2, <2>3 DEF EntryRecords
<1>7. EntryUpTo(x, steps)
    BY <1>2, <1>4, <1>5, FilesSetUpTo
<1>8. Edits!Continue(x, m) /\ UNCHANGED <<steps, dropped, raced>>
    BY <1>1, <1>4, <1>5 DEF Edits!StoreAttachment
<1>9. PICK z : Edits!Put(m.in, z) /\ EntryUpTo(z, steps) /\ (merging' # None => merging'.at <= steps)
    BY <1>2, <1>3, <1>6, <1>7, <1>8, ContinueUpTo
<1> QED BY <1>2, <1>3, <1>8, <1>9, StayUpTo

LEMMA EditsUpToGoOn ==
    ASSUME EditsConstants, MaxSteps \in Nat, EditsInv, EditsUpTo, [Edits!Next]_Edits!vars
    PROVE  EditsUpTo'
<1>1. CASE UNCHANGED Edits!vars
    BY <1>1 DEF Edits!vars, EditsUpTo
<1>2. ASSUME NEW e \in Entries, Edits!Drop(e)
      PROVE  EditsUpTo'
    <2>1. /\ entry' = entry /\ raced' = raced /\ dropped' \subseteq Entries /\ steps \in Nat
          /\ steps' = steps + 1 /\ steps + 1 <= MaxSteps
        BY <1>2 DEF Edits!Drop, Edits!Tick, Edits!Now, EditsInv, EditsTypes, EditsUpTo
    <2>2. \A o \in Entries : EntryUpTo(entry[o], steps + 1)
        BY <2>1, LaterEntry DEF EditsInv, EditsTypes, EditsUpTo
    <2>3. merging' = merging /\ (merging # None => merging.at \in Nat /\ merging.at <= steps)
        BY <1>2 DEF Edits!Drop, EditsInv, EditsTypes, EditsUpTo, Mergings
    <2> QED BY <2>1, <2>2, <2>3 DEF EditsUpTo
<1>3. ASSUME NEW e \in Entries, NEW p \in Held, Edits!StartSigning(p, e)
      PROVE  EditsUpTo'
    BY <1>3 DEF Edits!StartSigning, EditsUpTo
<1>4. CASE \E e \in Entries : \/ Edits!AddAttachment(e) \/ \E n \in Edits!Files : Edits!RemoveAttachment(e, n)
                              \/ \E p \in Held : Edits!StartPasskey(p, e) \/ Edits!RemovePasskey(e, p)
    BY <1>4, OthersUpTo
<1>5. CASE \E p \in Held : Edits!AttachPasskey(p) \/ Edits!WriteCounter(p)
    BY <1>5, FinishedUpTo
<1>6. CASE \E e \in Entries :
               \/ \E S \in SUBSET Edits!Logins : Edits!UpdateEntry(e, S)
               \/ Edits!SetTotp(e) \/ Edits!RemoveTotp(e) \/ Edits!ClearClone(e) \/ Edits!RefuseClone(e)
               \/ \E f \in Twins : \/ Edits!SetCustomField(e, f) \/ Edits!RemoveCustomField(e, f)
                                   \/ \E g \in Twins : Edits!RenameCustomField(e, f, g)
               \/ \E s \in Entries : Edits!SetClone(e, s)
    BY <1>6, FieldOperationUpTo
<1>7. CASE (\E e \in Entries, r \in Records, b \in BOOLEAN : Edits!BeginMerge(e, r, b)) \/ Edits!StoreAttachment
    BY <1>7, BeginMergeUpTo, StoreAttachmentUpTo
<1> QED BY <1>1, <1>2, <1>3, <1>4, <1>5, <1>6, <1>7, Zenon DEF Edits!Next, Held

LEMMA EditsUpToBegins ==
    ASSUME MaxSteps \in Nat, Edits!Init
    PROVE  EditsUpTo
<1>0. PICK b : b = Edits!Blank
    OBVIOUS
<1>1. b \in EntryRecords /\ b = Edits!Blank
    BY <1>0, ValuesAre DEF Edits!Blank, EntryRecords, FieldSets, FileSets, Copies, XcFields, Edits!Files
<1>2. FieldsUpTo(b.fields, 0) /\ b.hist = <<>> /\ b.xc = None
    BY <1>1 DEF Edits!Blank, FieldsUpTo, Edits!Empty
<1>3. EntryUpTo(b, 0)
    BY <1>2 DEF EntryUpTo
<1>4. ASSUME NEW p
      PROVE  EntryUpTo([b EXCEPT !.xc = Edits!StoredByXc(p, 0)], 0)
    BY <1>1, <1>3, XcSetUpTo
<1>5. \A e \in Entries : EntryUpTo(entry[e], 0)
    BY <1>1, <1>3, <1>4 DEF Edits!Init
<1> QED BY <1>5 DEF Edits!Init, EditsUpTo

LEMMA EditsTypeOK ==
    ASSUME EditsConstants, MaxSteps \in Nat, EditsInv, EditsUpTo
    PROVE  Edits!TypeOK
<1>1. steps \in 0..MaxSteps /\ dropped \subseteq Entries /\ raced \subseteq Twins \cup Foreign /\ steps \in Nat
    BY DEF EditsInv, EditsTypes, EditsUpTo, Held
<1>2. ASSUME NEW e \in Entries
      PROVE  /\ \A f \in Edits!Fields : Edits!Value(entry[e].fields[f])
             /\ entry[e].files \in [Edits!Files -> {0, 1}]
             /\ entry[e].index \subseteq Twins
             /\ entry[e].xc = None \/ (entry[e].xc.key \in Foreign /\ entry[e].xc.at \in 0..MaxSteps)
             /\ Len(entry[e].hist) <= MaxSteps
    <2>1. PICK x \in EntryRecords : x = entry[e] /\ EntryUpTo(x, steps)
        BY DEF EditsInv, EditsTypes, EditsUpTo
    <2>2. ASSUME NEW f \in Edits!Fields
          PROVE  Edits!Value(x.fields[f])
        BY <1>1, <2>1 DEF EntryRecords, FieldSets, FieldValues, EntryUpTo, FieldsUpTo, Edits!Value
    <2>3. x.files \in [Edits!Files -> {0, 1}]
        BY <2>1 DEF EntryRecords, FileSets
    <2>4. Len(x.hist) <= MaxSteps /\ x.index \subseteq Twins
        BY <1>1, <2>1 DEF EntryRecords, EntryUpTo
    <2>5. x.xc = None \/ (x.xc.key \in Foreign /\ x.xc.at \in 0..MaxSteps)
        BY <1>1, <2>1 DEF EntryRecords, XcFields, EntryUpTo
    <2> QED BY <2>1, <2>2, <2>3, <2>4, <2>5
<1>3. merging # None => /\ merging.rec \in Records /\ merging.copied \in DOMAIN merging.rec.files
                        /\ merging.at \in 0..MaxSteps
    BY <1>1 DEF EditsInv, EditsTypes, EditsUpTo, Mergings
<1> QED BY <1>1, <1>2, <1>3 DEF Edits!TypeOK

\* What holds in the states of the run, of the module that is its subject.
LibraryTypes ==
    /\ IInv
    /\ subject = "KdbxMerge" => MergeInv /\ AllUpTo
    /\ subject = "MetaMerge" => MetaInv
    /\ subject = "EntryEdits" => EditsInv /\ EditsUpTo
    /\ subject = "Combine" => CInv

\* The state of every module is of its type: for any groups, entries, sites, passkeys and
\* bounds no operation, merge or combination makes a value the file cannot hold, a time that
\* has not been, a tombstone of what never was or an entry of a passkey that is none.
THEOREM LibraryTyped ==
    ASSUME MayHoldBin = FALSE, MaxClock \in Nat \ {0}, MaxSteps \in Nat,
           MergeConstants, EditsConstants, CombineConstants
    PROVE  LibrarySpec => []TypesOK
<1>1. LibraryInit => LibraryTypes
    BY LibraryBegin, InitIInv, VersionsBegin, TimesBegin, MetaBegins, EditsBegin, EditsUpToBegins, CombineInit
       DEF LibraryTypes
<1>2. LibraryTypes /\ [LibraryNext]_<<subject, vars, shared>> => LibraryTypes'
    <2> SUFFICES ASSUME LibraryTypes, [LibraryNext]_<<subject, vars, shared>> PROVE LibraryTypes'
        OBVIOUS
    <2>1. IInv'
        BY NextIInv, LibraryStep DEF LibraryTypes
    <2>2. subject' = "KdbxMerge" => (MergeInv /\ AllUpTo)'
        BY LibraryStep, VersionsGoOn, TimesGoOn DEF LibraryTypes, MergeInv
    <2>3. subject' = "MetaMerge" => MetaInv'
        BY LibraryStep, MetaGoesOn DEF LibraryTypes
    <2>4. subject' = "EntryEdits" => (EditsInv /\ EditsUpTo)'
        BY LibraryStep, EditsGoOn, EditsUpToGoOn DEF LibraryTypes
    <2>5. subject' = "Combine" => CInv'
        BY LibraryStep, CombineStep, CombineStutters DEF LibraryTypes
    <2> QED BY <2>1, <2>2, <2>3, <2>4, <2>5 DEF LibraryTypes
<1>3. LibraryTypes => TypesOK
    BY MergeTypeOK, MetaTypeOK, EditsTypeOK, CombineTypeOK DEF LibraryTypes, TypesOK, IInv
<1> QED BY <1>1, <1>2, <1>3, PTL DEF LibrarySpec
=============================================================================

--------------------------- MODULE FormatsProofs ----------------------------
(***************************************************************************)
(* Proofs about KdbxSave, for any sets of entries, binaries and saves:     *)
(* type correctness, that no attachment loses its binary, and that a save  *)
(* that overlaps no other returns a faithful file; about KdbxFile, for any *)
(* payloads, headers and credentials: that a file opens as it was sealed,  *)
(* and what is made of the pieces of two saves as one of them; and about   *)
(* KdbxXml and ProtectedText: that what is written is what is read.        *)
(***************************************************************************)
EXTENDS MCFormats, SequenceTheorems, FiniteSetTheorems, WellFoundedInduction, TLAPS

\* refs, read against p, give the attachments m.
Means(refs, p, m) ==
    \A h \in Holders : refs[h] \subseteq DOMAIN p /\ {p[i] : i \in refs[h]} = m[h]

\* The salts a lone save has taken by each of its steps are the header's.
Building(s) == save[s].pc \in {"keys", "kdf", "seed", "stream", "body"}
SaltsTaken(s) ==
    LET f == save[s].file IN
    /\ f.header = salts
    /\ At(s, "keys") \/ At(s, "kdf") \/ At(s, "seed") => salts \notin wiped
    /\ ~At(s, "keys") => f.seed = salts
    /\ At(s, "seed") \/ At(s, "stream") \/ At(s, "body") => f.kdf = salts
    /\ At(s, "body") => f.stream = salts

LoneSave(s) ==
    LET f == save[s].file IN
    f.alone =>
        /\ \A t \in Saves \ {s} : At(t, "idle")
        /\ Building(s) => SaltsTaken(s) /\ Means(xml, pool, f.meant)
        /\ At(s, "end") => Opens(f) /\ Content(f) = f.meant

SeedsDrawn == \A s \in Saves : save[s].file.seed \in 0..salts

IInv ==
    /\ TypeOK
    /\ AttachedIsPooled
    /\ SeedsDrawn
    /\ \A s \in Saves : LoneSave(s)
    /\ LoneSaveFaithful

-----------------------------------------------------------------------------
(* The pool of binaries.                                                   *)

LEMMA OrdersList ==
    ASSUME NEW S \in SUBSET Binaries, NEW q \in Orders(S)
    PROVE  q \in Seq(Binaries) /\ Pooled(q) = S
<1>1. Cardinality(S) \in Nat
    BY SaveAssumption, FS_Subset, FS_CardinalityType
<1>2. q \in [1..Cardinality(S) -> S] /\ S \subseteq Pooled(q)
    BY DEF Orders
<1>3. q \in Seq(Binaries)
    BY <1>1, <1>2, SeqDef
<1>4. Pooled(q) = S
    BY <1>2 DEF Pooled
<1> QED BY <1>3, <1>4

LEMMA AddedPool ==
    ASSUME NEW p \in Seq(Binaries), NEW b \in Binaries
    PROVE  /\ Added(p, b) \in Seq(Binaries)
           /\ Pooled(Added(p, b)) = Pooled(p) \cup {b}
           /\ DOMAIN p \subseteq DOMAIN Added(p, b)
           /\ \A i \in DOMAIN p : Added(p, b)[i] = p[i]
<1>1. CASE b \in Pooled(p)
    BY <1>1 DEF Added
<1>2. CASE b \notin Pooled(p)
    <2> DEFINE q == Append(p, b)
    <2>1. /\ q \in Seq(Binaries) /\ Len(q) = Len(p) + 1
          /\ \A i \in 1..Len(p) : q[i] = p[i]
          /\ q[Len(p) + 1] = b
        OBVIOUS
    <2>2. DOMAIN p = 1..Len(p) /\ DOMAIN q = 1..(Len(p) + 1) /\ Len(p) \in Nat
        BY <2>1
    <2>3. DOMAIN q = DOMAIN p \cup {Len(p) + 1}
        BY <2>2
    <2>4. Pooled(q) = Pooled(p) \cup {b}
        BY <2>1, <2>2, <2>3 DEF Pooled
    <2>5. Added(p, b) = q
        BY <1>2 DEF Added
    <2> QED BY <2>1, <2>2, <2>3, <2>4, <2>5
<1> QED BY <1>1, <1>2

LEMMA RefsMean ==
    ASSUME NEW p \in Seq(Binaries), NEW att \in Attachments, Used(att) \subseteq Pooled(p)
    PROVE  Refs(p, att) \in AllRefs /\ Means(Refs(p, att), p, att)
<1>1. DOMAIN p \subseteq Nat \ {0}
    <2>1. DOMAIN p = 1..Len(p) /\ Len(p) \in Nat
        OBVIOUS
    <2> QED BY <2>1
<1>2. \A h \in Holders : att[h] \subseteq Pooled(p)
    BY DEF Used
<1>3. ASSUME NEW h \in Holders
      PROVE  Refs(p, att)[h] = {i \in DOMAIN p : p[i] \in att[h]}
    BY DEF Refs
<1>4. ASSUME NEW h \in Holders
      PROVE  Refs(p, att)[h] \subseteq DOMAIN p /\ {p[i] : i \in Refs(p, att)[h]} = att[h]
    BY <1>2, <1>3 DEF Pooled
<1>5. Refs(p, att) \in AllRefs
    BY <1>1 DEF Refs, AllRefs
<1> QED BY <1>4, <1>5 DEF Means

LEMMA AddedMeans ==
    ASSUME NEW p \in Seq(Binaries), NEW b \in Binaries, NEW refs, NEW m, Means(refs, p, m)
    PROVE  Means(refs, Added(p, b), m)
<1>1. SUFFICES ASSUME NEW h \in Holders
               PROVE  /\ refs[h] \subseteq DOMAIN Added(p, b)
                      /\ {Added(p, b)[i] : i \in refs[h]} = m[h]
    BY DEF Means
<1>2. refs[h] \subseteq DOMAIN p /\ {p[i] : i \in refs[h]} = m[h]
    BY DEF Means
<1>3. refs[h] \subseteq DOMAIN Added(p, b) /\ \A i \in refs[h] : Added(p, b)[i] = p[i]
    BY <1>2, AddedPool
<1>4. {Added(p, b)[i] : i \in refs[h]} = {p[i] : i \in refs[h]}
    BY <1>3
<1> QED BY <1>2, <1>3, <1>4

LEMMA MeansContent ==
    ASSUME NEW f, f.meant \in Attachments, Means(f.refs, f.bins, f.meant)
    PROVE  Content(f) = f.meant
<1>1. \A h \in Holders : {f.bins[i] : i \in f.refs[h] \cap DOMAIN f.bins} = f.meant[h]
    BY DEF Means
<1> QED BY <1>1 DEF Content, Attachments

-----------------------------------------------------------------------------
(* Initial states.                                                         *)

LEMMA BlankFile == Blank \in File /\ Blank.seed = 0 /\ Blank.alone = FALSE
<1>1. [h \in Holders |-> {}] \in AllRefs /\ [h \in Holders |-> {}] \in Attachments
    BY DEF AllRefs, Attachments
<1>2. <<>> \in Seq(Binaries)
    OBVIOUS
<1> QED BY <1>1, <1>2 DEF Blank, File, Wiped

LEMMA InitIInv == Init => IInv
<1> SUFFICES ASSUME Init PROVE IInv
    OBVIOUS
<1>1. TypeOK
    <2>1. attached \in Attachments
        BY DEF Init, Attachments
    <2>2. save \in [Saves -> [pc : Pc, file : File]]
        BY BlankFile DEF Init, Idle, Pc
    <2> QED BY <2>1, <2>2 DEF Init, TypeOK
<1>2. AttachedIsPooled
    BY DEF Init, AttachedIsPooled, Used
<1>3. \A s \in Saves : save[s] = Idle
    BY DEF Init
<1>4. SeedsDrawn
    BY <1>3, BlankFile DEF SeedsDrawn, Idle, Init
<1>5. \A s \in Saves : LoneSave(s)
    BY <1>3, BlankFile DEF LoneSave, Idle
<1>6. LoneSaveFaithful
    BY DEF Init, LoneSaveFaithful
<1> QED BY <1>1, <1>2, <1>4, <1>5, <1>6 DEF IInv

LEMMA FaithfulKept ==
    ASSUME LoneSaveFaithful, file' = file
    PROVE  LoneSaveFaithful'
BY DEF LoneSaveFaithful, Opens, Content

-----------------------------------------------------------------------------
(* The start of a save.                                                    *)

LEMMA CleanedPool ==
    ASSUME NEW p \in Seq(Binaries), NEW att \in Attachments, Used(att) \subseteq Pooled(p),
           NEW q \in Cleaned(p, att)
    PROVE  q \in Seq(Binaries) /\ Used(att) \subseteq Pooled(q)
<1>1. Used(att) \subseteq Binaries
    BY DEF Used, Attachments
<1>2. q \in Orders(Pooled(p) \cap Used(att))
    BY DEF Cleaned
<1>3. Pooled(p) \cap Used(att) \in SUBSET Binaries
    BY <1>1
<1> QED BY <1>2, <1>3, OrdersList

LEMMA PersistPreserves ==
    ASSUME IInv, NEW s \in Saves, NEW att \in Attachments, NEW p \in Seq(Binaries),
           Used(att) \subseteq Pooled(p), Persist(s, att, p)
    PROVE  IInv'
<1> DEFINE f == [Blank EXCEPT !.header = SaltsDrawn, !.meant = att,
                              !.alone = \A o \in Saves : At(o, "idle")]
<1>1. pool' \in Seq(Binaries) /\ Used(att) \subseteq Pooled(pool')
    BY CleanedPool DEF Persist
<1>2. xml' = Refs(pool', att) /\ xml' \in AllRefs /\ Means(xml', pool', att)
    BY <1>1, RefsMean DEF Persist
<1>3. salts \in Nat /\ salts' = salts + 1 /\ salts' \in Nat
    <2>1. salts \in Nat
        BY DEF IInv, TypeOK
    <2>2. salts' = salts + 1
        BY DEF Persist, SaltsDrawn
    <2> QED BY <2>1, <2>2
<1>4. /\ f \in File /\ f.header = salts' /\ f.meant = att /\ f.seed = 0
      /\ f.alone = (\A o \in Saves : At(o, "idle"))
    BY <1>3, BlankFile DEF File, SaltsDrawn
<1>5. save' = [t \in Saves |-> IF t = s THEN [pc |-> "keys", file |-> f]
                               ELSE [save[t] EXCEPT !.file.alone = FALSE]]
    BY DEF Persist
<1>6. save'[s].pc = "keys" /\ save'[s].file = f
    BY <1>5
<1>7. ASSUME NEW t \in Saves, t # s
      PROVE  /\ save'[t] \in [pc : Pc, file : File] /\ save'[t].pc = save[t].pc
             /\ save'[t].file.seed = save[t].file.seed /\ save'[t].file.alone = FALSE
    <2>1. save[t] \in [pc : Pc, file : File] /\ save'[t] = [save[t] EXCEPT !.file.alone = FALSE]
        BY <1>5, <1>7 DEF IInv, TypeOK
    <2>2. save'[t].file = [save[t].file EXCEPT !.alone = FALSE] /\ save'[t].pc = save[t].pc
        BY <2>1
    <2> QED BY <2>1, <2>2 DEF File
<1>13. wiped' = wiped /\ wiped \subseteq 0..salts
    BY DEF Persist, IInv, TypeOK
<1>8. TypeOK'
    <2>1. save' \in [Saves -> [pc : Pc, file : File]]
        BY <1>4, <1>5, <1>6, <1>7 DEF Pc
    <2>2. wiped' \subseteq 0..salts'
        BY <1>3, <1>13
    <2>3. attached' = att /\ file' = file
        BY DEF Persist
    <2> QED BY <1>1, <1>2, <1>3, <2>1, <2>2, <2>3 DEF TypeOK, IInv
<1>9. AttachedIsPooled'
    BY <1>1 DEF AttachedIsPooled, Persist
<1>10. SeedsDrawn'
    <2>1. \A t \in Saves : save'[t].file.seed \in 0..salts \cup {0}
        BY <1>4, <1>6, <1>7 DEF IInv, SeedsDrawn
    <2> QED BY <1>3, <2>1 DEF SeedsDrawn
<1>11. ASSUME NEW t \in Saves PROVE LoneSave(t)'
    <2>1. CASE t # s
        BY <1>7, <2>1 DEF LoneSave
    <2>2. CASE t = s
        <3>1. SUFFICES ASSUME f.alone
                       PROVE  /\ \A o \in Saves \ {s} : At(o, "idle")'
                              /\ SaltsTaken(s)' /\ Means(xml, pool, save[s].file.meant)'
            BY <1>6, <2>2 DEF LoneSave, At
        <3>2. \A o \in Saves \ {s} : At(o, "idle")'
            BY <1>4, <1>7, <3>1 DEF At
        <3>3. SaltsTaken(s)'
            <4>1. salts' \notin wiped'
                BY <1>3, <1>13
            <4> QED BY <1>4, <1>6, <4>1 DEF SaltsTaken, At
        <3>4. Means(xml, pool, save[s].file.meant)'
            BY <1>2, <1>4, <1>6 DEF Means
        <3> QED BY <3>2, <3>3, <3>4
    <2> QED BY <2>1, <2>2
<1>12. LoneSaveFaithful'
    <2>1. file' = file
        BY DEF Persist
    <2> QED BY <2>1, FaithfulKept DEF IInv
<1> QED BY <1>8, <1>9, <1>10, <1>11, <1>12 DEF IInv

-----------------------------------------------------------------------------
(* The steps of a save.                                                    *)

\* A step of s alone: what it does to its own record is left to the step.
OwnStep(s, g) ==
    /\ save' = [save EXCEPT ![s] = g]
    /\ UNCHANGED <<attached, pool, salts>>

LEMMA OwnStepPreserves ==
    ASSUME IInv, NEW s \in Saves, NEW g \in [pc : Pc, file : File], OwnStep(s, g),
           ~At(s, "idle"), g.file.seed \in 0..salts, g.file.alone => save[s].file.alone,
           wiped' \subseteq 0..salts, xml' \in {None} \cup AllRefs,
           file' \in {None} \cup File, LoneSaveFaithful',
           g.file.alone /\ (\A t \in Saves \ {s} : At(t, "idle")') =>
               /\ Building(s)' => SaltsTaken(s)' /\ Means(xml', pool, g.file.meant)
               /\ g.pc = "end" => Opens(g.file) /\ Content(g.file) = g.file.meant
    PROVE  IInv'
<1>1. /\ save \in [Saves -> [pc : Pc, file : File]]
      /\ attached' = attached /\ pool' = pool /\ salts' = salts
      /\ save' = [save EXCEPT ![s] = g]
    BY DEF IInv, TypeOK, OwnStep
<1>2. save'[s] = g /\ \A t \in Saves \ {s} : save'[t] = save[t]
    BY <1>1
<1>3. TypeOK'
    <2>1. save' \in [Saves -> [pc : Pc, file : File]]
        BY <1>1
    <2> QED BY <1>1, <2>1 DEF TypeOK, IInv
<1>4. AttachedIsPooled'
    BY <1>1 DEF AttachedIsPooled, IInv
<1>5. SeedsDrawn'
    BY <1>1, <1>2 DEF SeedsDrawn, IInv
<1>6. ASSUME NEW t \in Saves \ {s} PROVE LoneSave(t)'
    <2>1. ~save[t].file.alone
        BY <1>6 DEF IInv, LoneSave
    <2> QED BY <1>2, <2>1 DEF LoneSave
<1>7. LoneSave(s)'
    <2>1. SUFFICES ASSUME g.file.alone
                   PROVE  /\ \A t \in Saves \ {s} : At(t, "idle")'
                          /\ Building(s)' => SaltsTaken(s)' /\ Means(xml', pool, g.file.meant)
                          /\ g.pc = "end" => Opens(g.file) /\ Content(g.file) = g.file.meant
        BY <1>1, <1>2 DEF LoneSave, At, Means, Opens, Content
    <2>2. \A t \in Saves \ {s} : At(t, "idle")'
        BY <1>2, <2>1 DEF IInv, LoneSave, At
    <2> QED BY <2>1, <2>2
<1> QED BY <1>3, <1>4, <1>5, <1>6, <1>7 DEF IInv

LEMMA FileFields ==
    ASSUME NEW f \in File
    PROVE  /\ f.header \in Nat /\ f.seed \in Nat /\ f.kdf \in Nat /\ f.iv \in Nat
           /\ f.stream \in Nat /\ f.inner \in Nat /\ f.refs \in AllRefs
           /\ f.bins \in Seq(Binaries) /\ f.meant \in Attachments /\ f.alone \in BOOLEAN
BY DEF File

\* What every step of a save may rely on.
LEMMA Saving ==
    ASSUME IInv, NEW s \in Saves, ~At(s, "idle")
    PROVE  /\ save[s] \in [pc : Pc, file : File] /\ save[s].file \in File
           /\ save[s].file.seed \in 0..salts
           /\ salts \in Nat /\ wiped \subseteq 0..salts
           /\ xml \in {None} \cup AllRefs /\ file \in {None} \cup File
           /\ pool \in Seq(Binaries)
BY DEF IInv, TypeOK, SeedsDrawn

\* What it also knows when it overlaps no other.
LEMMA SavingAlone ==
    ASSUME IInv, NEW s \in Saves, save[s].file.alone
    PROVE  /\ Building(s) => SaltsTaken(s) /\ Means(xml, pool, save[s].file.meant)
           /\ At(s, "end") => Opens(save[s].file) /\ Content(save[s].file) = save[s].file.meant
BY DEF IInv, LoneSave

LEMMA TakeSeedPreserves ==
    ASSUME IInv, NEW s \in Saves, TakeSeed(s)
    PROVE  IInv'
<1> DEFINE f == save[s].file
           g == [pc |-> "kdf", file |-> [f EXCEPT !.seed = salts]]
<1>1. At(s, "keys") /\ UNCHANGED <<attached, pool, salts, wiped, xml, file>>
    BY DEF TakeSeed
<1>2. ~At(s, "idle")
    BY <1>1 DEF At
<1>3. save' = [save EXCEPT ![s] = g]
    BY DEF TakeSeed, Goes
<1>4. /\ g.file \in File /\ g.pc = "kdf" /\ g.pc \in Pc /\ g.file.seed = salts
      /\ g.file.header = f.header /\ g.file.meant = f.meant /\ g.file.alone = f.alone
    BY <1>2, Saving, FileFields DEF File, Pc
<1>5. ASSUME f.alone
      PROVE  Building(s)' => SaltsTaken(s)' /\ Means(xml', pool, g.file.meant)
    <2>1. SaltsTaken(s) /\ Means(xml, pool, f.meant)
        BY <1>1, <1>5, SavingAlone DEF Building, At
    <2>2. save'[s] = g
        BY <1>2, <1>3, Saving DEF IInv, TypeOK
    <2>3. salts' = salts /\ wiped' = wiped /\ xml' = xml
        BY <1>1
    <2>4. f.header = salts /\ salts \notin wiped
        BY <1>1, <2>1 DEF SaltsTaken
    <2>5. SaltsTaken(s)'
        BY <1>4, <2>2, <2>3, <2>4 DEF SaltsTaken, At
    <2> QED BY <1>4, <2>1, <2>3, <2>5
<1>6. LoneSaveFaithful'
    BY <1>1, FaithfulKept DEF IInv
<1>7. OwnStep(s, g)
    BY <1>1, <1>3 DEF OwnStep
<1>8. g \in [pc : Pc, file : File]
    BY <1>4
<1>9. g.file.seed \in 0..salts /\ wiped' \subseteq 0..salts /\ xml' \in {None} \cup AllRefs
      /\ file' \in {None} \cup File
    BY <1>1, <1>2, <1>4, Saving
<1> HIDE DEF f, g
<1> QED BY <1>2, <1>4, <1>5, <1>6, <1>7, <1>8, <1>9, OwnStepPreserves DEF f

LEMMA StartKdfPreserves ==
    ASSUME IInv, NEW s \in Saves, StartKdf(s)
    PROVE  IInv'
<1> DEFINE f == save[s].file
           g == [pc |-> "seed", file |-> [f EXCEPT !.kdf = salts]]
<1>1. At(s, "kdf") /\ UNCHANGED <<attached, pool, salts, wiped, xml, file>>
    BY DEF StartKdf
<1>2. ~At(s, "idle")
    BY <1>1 DEF At
<1>3. save' = [save EXCEPT ![s] = g]
    BY DEF StartKdf, Goes
<1>4. /\ g.file \in File /\ g.pc = "seed" /\ g.pc \in Pc /\ g.file.kdf = salts
      /\ g.file.header = f.header /\ g.file.meant = f.meant /\ g.file.alone = f.alone
      /\ g.file.seed = f.seed
    BY <1>2, Saving, FileFields DEF File, Pc
<1>5. ASSUME f.alone
      PROVE  Building(s)' => SaltsTaken(s)' /\ Means(xml', pool, g.file.meant)
    <2>1. SaltsTaken(s) /\ Means(xml, pool, f.meant)
        BY <1>1, <1>5, SavingAlone DEF Building, At
    <2>2. save'[s] = g
        BY <1>2, <1>3, Saving DEF IInv, TypeOK
    <2>3. salts' = salts /\ wiped' = wiped /\ xml' = xml
        BY <1>1
    <2>4. f.header = salts /\ f.seed = salts /\ salts \notin wiped
        BY <1>1, <2>1 DEF SaltsTaken, At
    <2>5. SaltsTaken(s)'
        BY <1>4, <2>2, <2>3, <2>4 DEF SaltsTaken, At
    <2> QED BY <1>4, <2>1, <2>3, <2>5
<1>6. LoneSaveFaithful'
    BY <1>1, FaithfulKept DEF IInv
<1>7. OwnStep(s, g)
    BY <1>1, <1>3 DEF OwnStep
<1>8. g \in [pc : Pc, file : File]
    BY <1>4
<1>9. g.file.seed \in 0..salts /\ wiped' \subseteq 0..salts /\ xml' \in {None} \cup AllRefs
      /\ file' \in {None} \cup File
    BY <1>1, <1>2, <1>4, Saving
<1> HIDE DEF f, g
<1> QED BY <1>2, <1>4, <1>5, <1>6, <1>7, <1>8, <1>9, OwnStepPreserves DEF f

LEMMA StartStreamPreserves ==
    ASSUME IInv, NEW s \in Saves, StartStream(s)
    PROVE  IInv'
<1> DEFINE f == save[s].file
           g == [pc |-> "body", file |-> [f EXCEPT !.stream = salts]]
<1>1. At(s, "stream") /\ UNCHANGED <<attached, pool, salts, wiped, xml, file>>
    BY DEF StartStream
<1>2. ~At(s, "idle")
    BY <1>1 DEF At
<1>3. save' = [save EXCEPT ![s] = g]
    BY DEF StartStream, Goes
<1>4. /\ g.file \in File /\ g.pc = "body" /\ g.pc \in Pc /\ g.file.stream = salts
      /\ g.file.header = f.header /\ g.file.meant = f.meant /\ g.file.alone = f.alone
      /\ g.file.seed = f.seed /\ g.file.kdf = f.kdf
    BY <1>2, Saving, FileFields DEF File, Pc
<1>5. ASSUME f.alone
      PROVE  Building(s)' => SaltsTaken(s)' /\ Means(xml', pool, g.file.meant)
    <2>1. SaltsTaken(s) /\ Means(xml, pool, f.meant)
        BY <1>1, <1>5, SavingAlone DEF Building, At
    <2>2. save'[s] = g
        BY <1>2, <1>3, Saving DEF IInv, TypeOK
    <2>3. salts' = salts /\ wiped' = wiped /\ xml' = xml
        BY <1>1
    <2>4. f.header = salts /\ f.seed = salts /\ f.kdf = salts
        BY <1>1, <2>1 DEF SaltsTaken, At
    <2>5. SaltsTaken(s)'
        BY <1>4, <2>2, <2>3, <2>4 DEF SaltsTaken, At
    <2> QED BY <1>4, <2>1, <2>3, <2>5
<1>6. LoneSaveFaithful'
    BY <1>1, FaithfulKept DEF IInv
<1>7. OwnStep(s, g)
    BY <1>1, <1>3 DEF OwnStep
<1>8. g \in [pc : Pc, file : File]
    BY <1>4
<1>9. g.file.seed \in 0..salts /\ wiped' \subseteq 0..salts /\ xml' \in {None} \cup AllRefs
      /\ file' \in {None} \cup File
    BY <1>1, <1>2, <1>4, Saving
<1> HIDE DEF f, g
<1> QED BY <1>2, <1>4, <1>5, <1>6, <1>7, <1>8, <1>9, OwnStepPreserves DEF f

LEMMA UseSeedPreserves ==
    ASSUME IInv, NEW s \in Saves, UseSeed(s)
    PROVE  IInv'
<1> DEFINE f == save[s].file
           seed == IF f.seed \in wiped THEN Wiped ELSE f.seed
           g == [pc |-> "stream", file |-> [f EXCEPT !.seed = seed]]
<1>1. /\ At(s, "seed") /\ UNCHANGED <<attached, pool, salts, xml, file>>
      /\ wiped' = wiped \cup {f.seed}
    BY DEF UseSeed
<1>2. ~At(s, "idle")
    BY <1>1 DEF At
<1>3. save' = [save EXCEPT ![s] = g]
    BY <1>2, Saving, FileFields DEF UseSeed, Goes
<1>4. seed \in 0..salts /\ seed \in Nat
    BY <1>2, Saving DEF Wiped
<1>5. /\ g.file \in File /\ g.pc = "stream" /\ g.pc \in Pc /\ g.file.seed = seed
      /\ g.file.header = f.header /\ g.file.meant = f.meant /\ g.file.alone = f.alone
      /\ g.file.kdf = f.kdf
    <2> HIDE DEF seed
    <2> QED BY <1>2, <1>4, Saving, FileFields DEF File, Pc
<1>6. ASSUME f.alone
      PROVE  Building(s)' => SaltsTaken(s)' /\ Means(xml', pool, g.file.meant)
    <2>1. SaltsTaken(s) /\ Means(xml, pool, f.meant)
        BY <1>1, <1>6, SavingAlone DEF Building, At
    <2>2. save'[s] = g
        BY <1>2, <1>3, Saving DEF IInv, TypeOK
    <2>3. salts' = salts /\ xml' = xml
        BY <1>1
    <2>4. f.header = salts /\ f.seed = salts /\ f.kdf = salts /\ salts \notin wiped
        BY <1>1, <2>1 DEF SaltsTaken, At
    <2>5. seed = salts
        BY <2>4
    <2>6. SaltsTaken(s)'
        BY <1>5, <2>2, <2>3, <2>4, <2>5 DEF SaltsTaken, At
    <2> QED BY <1>5, <2>1, <2>3, <2>6
<1>7. LoneSaveFaithful'
    BY <1>1, FaithfulKept DEF IInv
<1>8. OwnStep(s, g)
    BY <1>1, <1>3 DEF OwnStep
<1>9. g \in [pc : Pc, file : File]
    BY <1>5
<1>10. g.file.seed \in 0..salts /\ wiped' \subseteq 0..salts /\ xml' \in {None} \cup AllRefs
       /\ file' \in {None} \cup File
    BY <1>1, <1>2, <1>4, <1>5, Saving
<1> HIDE DEF f, g
<1> QED BY <1>2, <1>5, <1>6, <1>7, <1>8, <1>9, <1>10, OwnStepPreserves DEF f

LEMMA WriteBodyPreserves ==
    ASSUME IInv, NEW s \in Saves, WriteBody(s)
    PROVE  IInv'
<1> DEFINE f == save[s].file
           h == [f EXCEPT !.inner = salts, !.iv = salts, !.refs = xml, !.bins = pool]
           g == [pc |-> "end", file |-> h]
<1>1. At(s, "body") /\ xml # None /\ UNCHANGED <<attached, pool, salts, wiped, xml, file>>
    BY DEF WriteBody
<1>2. ~At(s, "idle")
    BY <1>1 DEF At
<1>3. save' = [save EXCEPT ![s] = g]
    BY DEF WriteBody, Goes
<1>4. /\ h \in File /\ h.inner = salts /\ h.iv = salts /\ h.refs = xml /\ h.bins = pool
      /\ h.header = f.header /\ h.meant = f.meant /\ h.alone = f.alone
      /\ h.seed = f.seed /\ h.kdf = f.kdf /\ h.stream = f.stream
    BY <1>1, <1>2, Saving, FileFields DEF File
<1>5. ASSUME f.alone
      PROVE  Opens(h) /\ Content(h) = h.meant
    <2>1. SaltsTaken(s) /\ Means(xml, pool, f.meant)
        BY <1>1, <1>5, SavingAlone DEF Building, At
    <2>2. f.header = salts /\ f.seed = salts /\ f.kdf = salts /\ f.stream = salts
        BY <1>1, <2>1 DEF SaltsTaken, At
    <2>3. Opens(h)
        BY <1>4, <2>2 DEF Opens
    <2>4. Means(h.refs, h.bins, h.meant) /\ h.meant \in Attachments
        BY <1>4, <2>1, FileFields
    <2> QED BY <2>3, <2>4, MeansContent
<1>6. LoneSaveFaithful'
    BY <1>1, FaithfulKept DEF IInv
<1>7. OwnStep(s, g)
    BY <1>1, <1>3 DEF OwnStep
<1>8. g \in [pc : Pc, file : File] /\ g.pc = "end" /\ g.file = h
    BY <1>4 DEF Pc
<1>9. h.seed \in 0..salts /\ wiped' \subseteq 0..salts /\ xml' \in {None} \cup AllRefs
      /\ file' \in {None} \cup File
    BY <1>1, <1>2, <1>4, Saving
<1>10. ~Building(s)'
    BY <1>2, <1>3, <1>8, Saving DEF Building, IInv, TypeOK
<1> HIDE DEF f, h, g
<1> QED BY <1>2, <1>4, <1>5, <1>6, <1>7, <1>8, <1>9, <1>10, OwnStepPreserves DEF f

\* A save that fails or ends leaves a blank record.
LEMMA BlankPreserves ==
    ASSUME IInv, NEW s \in Saves, ~At(s, "idle"), Goes(s, "idle", Blank),
           UNCHANGED <<attached, pool, salts, wiped>>, xml' \in {None} \cup AllRefs,
           file' \in {None} \cup File, LoneSaveFaithful'
    PROVE  IInv'
<1> DEFINE g == [pc |-> "idle", file |-> Blank]
<1>1. /\ g \in [pc : Pc, file : File] /\ g.pc = "idle" /\ g.file.seed = 0
      /\ g.file.alone = FALSE
    BY BlankFile DEF Pc
<1>2. OwnStep(s, g)
    BY DEF OwnStep, Goes
<1>3. g.file.seed \in 0..salts /\ wiped' \subseteq 0..salts
    BY <1>1, Saving
<1> HIDE DEF g
<1> QED BY <1>1, <1>2, <1>3, OwnStepPreserves

LEMMA NoXmlPreserves ==
    ASSUME IInv, NEW s \in Saves, NoXml(s)
    PROVE  IInv'
<1>1. At(s, "body") /\ Goes(s, "idle", Blank) /\ UNCHANGED <<attached, pool, salts, wiped, xml, file>>
    BY DEF NoXml
<1>2. ~At(s, "idle")
    BY <1>1 DEF At
<1>3. LoneSaveFaithful'
    BY <1>1, FaithfulKept DEF IInv
<1> QED BY <1>1, <1>2, <1>3, Saving, BlankPreserves

LEMMA ReturnPreserves ==
    ASSUME IInv, NEW s \in Saves, Return(s)
    PROVE  IInv'
<1>1. /\ At(s, "end") /\ Goes(s, "idle", Blank) /\ UNCHANGED <<attached, pool, salts, wiped>>
      /\ xml' = None /\ file' = save[s].file
    BY DEF Return
<1>2. ~At(s, "idle")
    BY <1>1 DEF At
<1>3. file' \in {None} \cup File
    BY <1>1, <1>2, Saving
<1>4. LoneSaveFaithful'
    <2>1. SUFFICES ASSUME save[s].file.alone
                   PROVE  Opens(save[s].file) /\ Content(save[s].file) = save[s].file.meant
        BY <1>1 DEF LoneSaveFaithful, Opens, Content
    <2> QED BY <1>1, <2>1, SavingAlone
<1> QED BY <1>1, <1>2, <1>3, <1>4, BlankPreserves

-----------------------------------------------------------------------------
(* The mutations of the vault session and a new session.                   *)

\* A tree with fewer attachments is saved with the same pool.
LEMMA FewerPreserves ==
    ASSUME IInv, NEW s \in Saves, NEW att \in Attachments, Used(att) \subseteq Used(attached),
           Persist(s, att, pool)
    PROVE  IInv'
<1>1. pool \in Seq(Binaries) /\ Used(attached) \subseteq Pooled(pool)
    BY DEF IInv, TypeOK, AttachedIsPooled
<1> QED BY <1>1, PersistPreserves

LEMMA OneMore ==
    ASSUME attached \in Attachments, NEW e \in Entries, NEW b \in Binaries
    PROVE  LET att == [attached EXCEPT ![<<e, "now">>] = @ \cup {b}] IN
           att \in Attachments /\ Used(att) \subseteq Used(attached) \cup {b}
<1> DEFINE k == <<e, "now">>
           att == [attached EXCEPT ![k] = @ \cup {b}]
<1>1. k \in Holders
    BY DEF Holders
<1> HIDE DEF k
<1>2. \A h \in Holders : attached[h] \subseteq Binaries
    BY DEF Attachments
<1>3. \A h \in Holders : att[h] = IF h = k THEN attached[k] \cup {b} ELSE attached[h]
    BY <1>1 DEF Attachments
<1>4. att \in Attachments
    BY <1>1, <1>2 DEF Attachments
<1>5. \A h \in Holders : att[h] \subseteq attached[h] \cup {b}
    BY <1>3
<1>6. Used(att) \subseteq Used(attached) \cup {b}
    <2> HIDE DEF att
    <2> QED BY <1>5 DEF Used
<1> QED BY <1>4, <1>6 DEF k

LEMMA MutationPreserves ==
    ASSUME IInv, NEW s \in Saves, Mutation(s)
    PROVE  IInv'
<1> attached \in Attachments /\ pool \in Seq(Binaries) /\ Used(attached) \subseteq Pooled(pool)
    BY DEF IInv, TypeOK, AttachedIsPooled
<1>1. CASE SaveAgain(s)
    BY <1>1, FewerPreserves DEF SaveAgain
<1>2. ASSUME NEW e \in Entries, UpdateEntry(s, e)
      PROVE  IInv'
    <2> DEFINE att == [attached EXCEPT ![<<e, "history">>] = @ \cup attached[<<e, "now">>]]
    <2>1. <<e, "now">> \in Holders /\ <<e, "history">> \in Holders
        BY DEF Holders
    <2>2. att \in Attachments /\ Used(att) \subseteq Used(attached)
        BY <2>1 DEF Attachments, Used
    <2> QED BY <1>2, <2>2, FewerPreserves DEF UpdateEntry
<1>3. ASSUME NEW e \in Entries, DropEntry(s, e)
      PROVE  IInv'
    <2> DEFINE att == [attached EXCEPT ![<<e, "now">>] = {}, ![<<e, "history">>] = {}]
    <2>1. att \in Attachments /\ Used(att) \subseteq Used(attached)
        BY DEF Attachments, Used
    <2> QED BY <1>3, <2>1, FewerPreserves DEF DropEntry
<1>4. ASSUME NEW e \in Entries, NEW b \in Binaries, AddAttachment(s, e, b)
      PROVE  IInv'
    <2> DEFINE att == [attached EXCEPT ![<<e, "now">>] = @ \cup {b}]
    <2>1. att \in Attachments /\ Used(att) \subseteq Used(attached) \cup {b}
        BY OneMore
    <2>2. Added(pool, b) \in Seq(Binaries) /\ Used(att) \subseteq Pooled(Added(pool, b))
        BY <2>1, AddedPool
    <2> QED BY <1>4, <2>1, <2>2, PersistPreserves DEF AddAttachment
<1>5. ASSUME NEW e \in Entries, NEW b \in Binaries, RemoveAttachment(s, e, b)
      PROVE  IInv'
    <2> DEFINE att == [attached EXCEPT ![<<e, "now">>] = @ \ {b}]
    <2>1. att \in Attachments /\ Used(att) \subseteq Used(attached)
        BY DEF Attachments, Used
    <2> QED BY <1>5, <2>1, FewerPreserves DEF RemoveAttachment
<1> QED BY <1>1, <1>2, <1>3, <1>4, <1>5 DEF Mutation

LEMMA CopyAttachmentPreserves ==
    ASSUME IInv, NEW e \in Entries, NEW b \in Binaries, CopyAttachment(e, b)
    PROVE  IInv'
<1> DEFINE att == [attached EXCEPT ![<<e, "now">>] = @ \cup {b}]
<1>1. /\ attached \in Attachments /\ pool \in Seq(Binaries)
      /\ Used(attached) \subseteq Pooled(pool)
    BY DEF IInv, TypeOK, AttachedIsPooled
<1>2. /\ attached' = att /\ pool' = Added(pool, b)
      /\ UNCHANGED <<salts, wiped, xml, save, file>>
    BY DEF CopyAttachment
<1>3. att \in Attachments /\ Used(att) \subseteq Used(attached) \cup {b}
    BY <1>1, OneMore
<1>4. pool' \in Seq(Binaries) /\ Used(att) \subseteq Pooled(pool')
    BY <1>1, <1>2, <1>3, AddedPool
<1>5. TypeOK'
    BY <1>2, <1>3, <1>4 DEF TypeOK, IInv
<1>6. AttachedIsPooled'
    BY <1>2, <1>4 DEF AttachedIsPooled
<1>7. SeedsDrawn'
    BY <1>2 DEF SeedsDrawn, IInv
<1>8. ASSUME NEW s \in Saves PROVE LoneSave(s)'
    <2>1. Means(xml, pool, save[s].file.meant) => Means(xml, pool, save[s].file.meant)'
        <3>1. xml' = xml /\ save' = save /\ pool' = Added(pool, b)
            BY <1>2
        <3>2. Means(xml, pool, save[s].file.meant) =>
              Means(xml, Added(pool, b), save[s].file.meant)
            BY <1>1, AddedMeans
        <3> QED BY <3>1, <3>2 DEF Means
    <2>2. SaltsTaken(s) => SaltsTaken(s)'
        BY <1>2 DEF SaltsTaken, At
    <2> QED BY <1>2, <2>1, <2>2 DEF LoneSave, IInv, Building, At, Opens, Content
<1>9. LoneSaveFaithful'
    BY <1>2, FaithfulKept DEF IInv
<1> QED BY <1>5, <1>6, <1>7, <1>8, <1>9 DEF IInv

LEMMA ReopenPreserves ==
    ASSUME IInv, Reopen
    PROVE  IInv'
<1>1. /\ attached' = Content(file) /\ pool' \in Orders(Pooled(file.bins)) /\ xml' = None
      /\ \A s \in Saves : At(s, "idle")
      /\ UNCHANGED <<salts, wiped, save, file>>
    BY DEF Reopen
<1>2. file \in File
    BY DEF Reopen, IInv, TypeOK
<1>3. Pooled(file.bins) \in SUBSET Binaries
    BY <1>2, FileFields DEF Pooled
<1>4. pool' \in Seq(Binaries) /\ Pooled(pool') = Pooled(file.bins)
    BY <1>1, <1>3, OrdersList
<1>5. \A h \in Holders : attached'[h] \subseteq Pooled(file.bins)
    BY <1>1 DEF Content, Pooled
<1>6. attached' \in Attachments
    BY <1>1, <1>3, <1>5 DEF Content, Attachments
<1>7. TypeOK'
    BY <1>1, <1>4, <1>6 DEF TypeOK, IInv
<1>8. AttachedIsPooled'
    BY <1>4, <1>5 DEF AttachedIsPooled, Used
<1>9. SeedsDrawn'
    BY <1>1 DEF SeedsDrawn, IInv
<1>10. ASSUME NEW s \in Saves PROVE LoneSave(s)'
    BY <1>1 DEF LoneSave, IInv, Building, At
<1>11. LoneSaveFaithful'
    BY <1>1, FaithfulKept DEF IInv
<1> QED BY <1>7, <1>8, <1>9, <1>10, <1>11 DEF IInv

-----------------------------------------------------------------------------
(* The theorems.                                                           *)

LEMMA NextIInv == IInv /\ [Next]_vars => IInv'
<1> SUFFICES ASSUME IInv, [Next]_vars PROVE IInv'
    OBVIOUS
<1>1. ASSUME NEW s \in Saves, Mutation(s) PROVE IInv'
    BY <1>1, MutationPreserves
<1>2. ASSUME NEW s \in Saves, SaveStep(s) PROVE IInv'
    BY <1>2, TakeSeedPreserves, StartKdfPreserves, UseSeedPreserves, StartStreamPreserves,
       WriteBodyPreserves, NoXmlPreserves, ReturnPreserves DEF SaveStep
<1>3. ASSUME NEW e \in Entries, NEW b \in Binaries, CopyAttachment(e, b) PROVE IInv'
    BY <1>3, CopyAttachmentPreserves
<1>4. CASE Reopen
    BY <1>4, ReopenPreserves
<1>5. CASE UNCHANGED vars
    <2> USE <1>5 DEF vars
    <2>1. TypeOK' /\ AttachedIsPooled' /\ SeedsDrawn'
        BY DEF IInv, TypeOK, AttachedIsPooled, SeedsDrawn
    <2>2. \A s \in Saves : LoneSave(s)'
        BY DEF IInv, LoneSave, Building, SaltsTaken, Means, At, Opens, Content
    <2>3. LoneSaveFaithful'
        BY FaithfulKept DEF IInv
    <2> QED BY <2>1, <2>2, <2>3 DEF IInv
<1> QED BY <1>1, <1>2, <1>3, <1>4, <1>5 DEF Next

LEMMA Inductive == Spec => []IInv
BY InitIInv, NextIInv, PTL DEF Spec

\* The state of a database and of its saves keeps its types.
THEOREM TypesKept == Spec => []TypeOK
<1>1. IInv => TypeOK
    BY DEF IInv
<1> QED BY <1>1, Inductive, PTL

\* No sequence of edits, attachments, overlapping saves and new sessions leaves an
\* attachment (of an entry or of its history) without its binary in the map.
THEOREM AttachmentsPooled == Spec => []AttachedIsPooled
<1>1. IInv => AttachedIsPooled
    BY DEF IInv
<1> QED BY <1>1, Inductive, PTL

\* However saves overlapped before, a save that overlaps no other returns a file
\* that opens and holds exactly the attachments of its tree.
THEOREM LoneSavesFaithful == Spec => []LoneSaveFaithful
<1>1. IInv => LoneSaveFaithful
    BY DEF IInv
<1> QED BY <1>1, Inductive, PTL

\* The same where KdbxSave runs beside the modules of the other formats: those leave its
\* variables alone.
THEOREM FormatsSavesFaithful == FormatsSpec => []LoneSaveFaithful
<1>1. FormatsInit => Init
    BY DEF FormatsInit
<1>2. [FormatsNext]_<<subject, vars, shared>> => [Next]_vars
    BY DEF FormatsNext
<1>3. FormatsSpec => Spec
    BY <1>1, <1>2, PTL DEF FormatsSpec, Spec
<1> QED BY <1>3, LoneSavesFaithful, PTL

-----------------------------------------------------------------------------
(* KdbxFile: what the constants have to be.  A payload ends where its inner *)
(* header and its XML end: the part at which one ends is in no other before *)
(* its end.  Random values do not repeat.                                   *)

HeaderFields == {"minor", "cipher", "compression", "seed", "iv", "kdf", "public"}
FileConstants ==
    /\ Len(Draws) \in Nat
    /\ \A i, j \in 1..Len(Draws) : Draws[i] = Draws[j] => i = j
    /\ \A h \in FileHeaders : HeaderFields \subseteq DOMAIN h
    /\ \A p \in Payloads :
        /\ p # <<>> /\ p \in Seq(Range(p)) /\ None \notin Range(p)
        /\ \A q \in Payloads : \A n \in 1..Len(p) : Len(q) = n /\ q[n] = p[n] => n = Len(p)

FileOf(a) == Format!Pieces(a.header, a.credentials, a.content)
KeysOf(a) == Format!Keys(a.header, a.credentials)
SealedAt(a, n) ==
    /\ HeaderFields \subseteq DOMAIN a.header
    /\ n \in 1..Len(Draws) /\ a.header.seed = Draws[n]
    /\ a.content \in Payloads

\* The file on disk and the one before it are what the last two saves wrote, each with
\* a seed of its own.
FileInv ==
    /\ HeaderFields \subseteq DOMAIN v1
    /\ v7 \in 0..Len(Draws)
    /\ \/ v6 = <<>> /\ v4 = <<>> /\ v5 = <<>>
       \/ v6 = <<v6[1]>> /\ v4 = FileOf(v6[1]) /\ v5 = <<>> /\ SealedAt(v6[1], v7)
       \/ /\ v6 = <<v6[1], v6[2]>> /\ v4 = FileOf(v6[1]) /\ v5 = FileOf(v6[2])
          /\ SealedAt(v6[1], v7) /\ SealedAt(v6[2], v7 - 1)

LEMMA OpenedHeader == ASSUME NEW pieces PROVE HeaderFields \subseteq DOMAIN Format!Opened(pieces)
BY DEF HeaderFields, Format!Opened, Format!ReadHeader

LEMMA SaltedHeader ==
    ASSUME NEW h, HeaderFields \subseteq DOMAIN h, NEW s
    PROVE  /\ HeaderFields \subseteq DOMAIN Format!GenerateSalts(h, s)
           /\ Format!GenerateSalts(h, s).seed = s
<1>1. PICK k : Format!GenerateSalts(h, s) = [[[h EXCEPT !.seed = s] EXCEPT !.iv = s] EXCEPT !.kdf = k]
    BY DEF Format!GenerateSalts
<1> QED BY <1>1 DEF HeaderFields

LEMMA FileInvInit == ASSUME FileConstants, Format!Init PROVE FileInv
<1>1. HeaderFields \subseteq DOMAIN v1
    BY DEF Format!Init, Format!Created, HeaderFields
<1>2. v7 \in 0..Len(Draws) /\ v6 = <<>> /\ v4 = <<>> /\ v5 = <<>>
    BY DEF Format!Init, FileConstants
<1> QED BY <1>1, <1>2 DEF FileInv

\* A save, of this program or another, with the next random value.
LEMMA ReplaceFile ==
    ASSUME FileConstants, FileInv, NEW h, NEW c, NEW p \in Payloads,
           HeaderFields \subseteq DOMAIN h, h.seed = Draws[v7 + 1], Format!Replace(h, c, p),
           HeaderFields \subseteq DOMAIN v1'
    PROVE  FileInv'
<1> DEFINE a == Format!Sealed(h, c, p)
<1>1. a.header = h /\ a.credentials = c /\ a.content = p
    BY DEF Format!Sealed
<1>2. v7 \in 0..Len(Draws) /\ Len(Draws) \in Nat /\ v7 < Len(Draws) /\ v7' = v7 + 1
    BY DEF FileInv, FileConstants, Format!Replace
<1>3. v7' \in 1..Len(Draws) /\ v7' - 1 = v7
    BY <1>2
<1>4. SealedAt(a, v7')
    BY <1>1, <1>2, <1>3 DEF SealedAt
<1>5. v4' = FileOf(a) /\ v5' = v4
    BY <1>1 DEF Format!Replace, FileOf
<1>6. v6' = <<a>> \o SubSeq(v6, 1, IF v6 = <<>> THEN 0 ELSE 1)
    BY DEF Format!Replace
<1> HIDE DEF a
<1>7. CASE v6 = <<>>
    <2>1. v6' = <<a>> \o SubSeq(<<>>, 1, 0)
        BY <1>6, <1>7
    <2>2. SubSeq(<<>>, 1, 0) = <<>>
        BY SubSeqEmpty
    <2>3. <<a>> \in Seq({a}) /\ <<a>> \o <<>> = <<a>>
        BY ConcatEmptySeq
    <2>4. v6' = <<a>>
        BY <2>1, <2>2, <2>3
    <2>5. v4 = <<>>
        BY <1>7 DEF FileInv
    <2> QED BY <2>4, <2>5, <1>3, <1>4, <1>5 DEF FileInv
<1>8. CASE v6 # <<>>
    <2> DEFINE b == v6[1]
    <2>1. v4 = FileOf(b) /\ SealedAt(b, v7)
        BY <1>8 DEF FileInv
    <2>2. v6 = <<b>> \/ v6 = <<b, v6[2]>>
        BY <1>8 DEF FileInv
    <2>3. SubSeq(v6, 1, 1) = <<b>>
        <3>1. \A i \in 1..1 : v6[i] \in {b}
            OBVIOUS
        <3>2. /\ SubSeq(v6, 1, 1) \in Seq({b})
              /\ Len(SubSeq(v6, 1, 1)) = 1
              /\ SubSeq(v6, 1, 1)[1] = v6[1]
            BY <3>1, SubSeqProperties
        <3>3. <<b>> \in Seq({b}) /\ Len(<<b>>) = 1 /\ <<b>>[1] = b
            OBVIOUS
        <3>4. \A i \in 1..Len(SubSeq(v6, 1, 1)) : SubSeq(v6, 1, 1)[i] = <<b>>[i]
            BY <3>2
        <3> QED BY <3>2, <3>3, <3>4, SeqEqual
    <2>4. v6' = <<a>> \o <<b>>
        BY <1>6, <1>8, <2>3
    <2>5. <<a>> \o <<b>> = <<a, b>>
        <3>1. <<a>> \in Seq({a, b}) /\ <<b>> \in Seq({a, b}) /\ <<a, b>> \in Seq({a, b})
            OBVIOUS
        <3>2. /\ <<a>> \o <<b>> \in Seq({a, b})
              /\ Len(<<a>> \o <<b>>) = 2
              /\ \A i \in 1..2 : (<<a>> \o <<b>>)[i] = <<a, b>>[i]
            BY <3>1, ConcatProperties
        <3> QED BY <3>1, <3>2, SeqEqual
    <2> HIDE DEF b
    <2>6. v6' = <<a, b>> /\ v6'[1] = a /\ v6'[2] = b
        BY <2>4, <2>5
    <2>7. v6' = <<v6'[1], v6'[2]>> /\ v4' = FileOf(v6'[1]) /\ v5' = FileOf(v6'[2])
        BY <2>6, <2>1, <1>5
    <2>8. SealedAt(v6'[1], v7') /\ SealedAt(v6'[2], v7' - 1)
        BY <2>6, <2>1, <1>3, <1>4
    <2>9. v7' \in 0..Len(Draws)
        BY <1>2
    <2> QED BY <2>7, <2>8, <2>9 DEF FileInv
<1> QED BY <1>7, <1>8

LEMMA FileInvNext == ASSUME FileConstants, FileInv, Format!Next PROVE FileInv'
<1>1. v7 \in 0..Len(Draws) /\ Len(Draws) \in Nat /\ HeaderFields \subseteq DOMAIN v1
    BY DEF FileInv, FileConstants
<1>2. ASSUME NEW p \in Payloads, Format!Save(p) PROVE FileInv'
    <2> DEFINE h == Format!GenerateSalts(v1, Draws[v7 + 1])
    <2>1. HeaderFields \subseteq DOMAIN h /\ h.seed = Draws[v7 + 1]
        BY <1>1, SaltedHeader
    <2>2. Format!Replace(h, v3, p) /\ v1' = [h EXCEPT !.seed = "zeroed"]
        BY <1>2 DEF Format!Save
    <2> HIDE DEF h
    <2>3. HeaderFields \subseteq DOMAIN v1'
        BY <2>1, <2>2
    <2> QED BY <2>1, <2>2, <2>3, ReplaceFile
<1>3. ASSUME NEW h \in FileHeaders, NEW p \in Payloads, Format!OtherSaves(h, p) PROVE FileInv'
    <2>1. HeaderFields \subseteq DOMAIN h
        BY DEF FileConstants
    <2>2. /\ HeaderFields \subseteq DOMAIN Format!GenerateSalts(h, Draws[v7 + 1])
          /\ Format!GenerateSalts(h, Draws[v7 + 1]).seed = Draws[v7 + 1]
        BY <2>1, SaltedHeader
    <2>3. /\ Format!Replace(Format!GenerateSalts(h, Draws[v7 + 1]), v3, p)
          /\ v1' = v1
        BY <1>3 DEF Format!OtherSaves
    <2>4. HeaderFields \subseteq DOMAIN v1'
        BY <1>1, <2>3
    <2> QED BY <2>2, <2>3, <2>4, ReplaceFile
<1>4. ASSUME NEW algo, Format!SetKdf(algo) PROVE FileInv'
    <2>1. HeaderFields \subseteq DOMAIN v1'
        BY <1>1, <1>4 DEF Format!SetKdf
    <2> QED BY <2>1, <1>4 DEF FileInv, Format!SetKdf
<1>5. CASE Format!Upgrade
    <2>1. HeaderFields \subseteq DOMAIN v1'
        BY <1>1, <1>5 DEF Format!Upgrade
    <2> QED BY <2>1, <1>5 DEF FileInv, Format!Upgrade
<1>6. ASSUME NEW c, Format!Load(c) PROVE FileInv'
    <2>1. HeaderFields \subseteq DOMAIN v1'
        BY <1>6, OpenedHeader DEF Format!Load
    <2> QED BY <2>1, <1>6 DEF FileInv, Format!Load
<1> QED BY <1>2, <1>3, <1>4, <1>5, <1>6 DEF Format!Next

-----------------------------------------------------------------------------
(* The pieces that a save writes.                                          *)

HeaderLen(h) == IF h.public = None THEN 8 ELSE 9

\* s is a sequence of n pieces.
IsList(s, n) == s \in Seq(Range(s)) /\ Len(s) = n /\ n \in Nat /\ DOMAIN s = 1..n

LEMMA ListOf == ASSUME NEW S, NEW s \in Seq(S) PROVE IsList(s, Len(s))
<1>1. Len(s) \in Nat /\ s \in [1..Len(s) -> S] /\ DOMAIN s = 1..Len(s)
    BY LenProperties
<1>2. s \in [1..Len(s) -> Range(s)]
    BY <1>1 DEF Range
<1>3. s \in Seq(Range(s))
    BY <1>1, <1>2, SeqDef
<1> QED BY <1>1, <1>3 DEF IsList

\* r is s, of m pieces, and then t, of n.
IsJoin(r, s, t, m, n) ==
    /\ IsList(r, m + n)
    /\ \A i \in 1..m : r[i] = s[i]
    /\ \A i \in 1..n : r[m + i] = t[i]
    /\ \A i \in 1..(m + n) : r[i] = IF i <= m THEN s[i] ELSE t[i - m]

LEMMA Joined ==
    ASSUME NEW s, NEW t, NEW m, NEW n, IsList(s, m), IsList(t, n), NEW r, r = s \o t
    PROVE  IsJoin(r, s, t, m, n)
<1> DEFINE S == Range(s) \cup Range(t)
<1>1. s \in [1..m -> S] /\ t \in [1..n -> S] /\ m \in Nat /\ n \in Nat
    BY LenProperties DEF IsList, Range
<1>2. s \in Seq(S) /\ t \in Seq(S) /\ Len(s) = m /\ Len(t) = n
    BY <1>1, SeqDef DEF IsList
<1> HIDE DEF S
<1>3. /\ s \o t \in Seq(S) /\ Len(s \o t) = m + n
      /\ \A i \in 1..(m + n) : (s \o t)[i] = IF i <= m THEN s[i] ELSE t[i - m]
    BY <1>2, ConcatProperties
<1>4. IsList(s \o t, m + n)
    BY <1>3, ListOf
<1>5. \A i \in 1..m : i \in 1..(m + n) /\ i <= m
    BY <1>1
<1>6. \A i \in 1..n : m + i \in 1..(m + n) /\ ~(m + i <= m) /\ (m + i) - m = i
    BY <1>1
<1> QED BY <1>3, <1>4, <1>5, <1>6 DEF IsJoin

LEMMA HeaderPieces ==
    ASSUME NEW h, NEW W, W = Format!WriteHeader(h)
    PROVE  /\ IsList(W, HeaderLen(h))
           /\ W[1] = [signature |-> "kdbx"]
           /\ W[2] = [major |-> 4, minor |-> h.minor]
           /\ W[3] = Format!One("CipherID", h.cipher)
           /\ W[4] = Format!One("CompressionFlags", h.compression)
           /\ W[5] = Format!One("MasterSeed", h.seed)
           /\ W[6] = Format!One("EncryptionIV", h.iv)
           /\ W[7] = Format!Field("KdfParameters", h.kdf)
           /\ h.public # None => W[8] = Format!Field("PublicCustomData", h.public)
           /\ W[HeaderLen(h)] = Format!Field("EndOfHeader", <<>>)
<1> DEFINE s1 == <<[signature |-> "kdbx"], [major |-> 4, minor |-> h.minor]>>
           s2 == <<Format!One("CipherID", h.cipher), Format!One("CompressionFlags", h.compression),
                   Format!One("MasterSeed", h.seed), Format!One("EncryptionIV", h.iv),
                   Format!Field("KdfParameters", h.kdf)>>
           s3 == IF h.public = None THEN <<>> ELSE <<Format!Field("PublicCustomData", h.public)>>
           s4 == <<Format!Field("EndOfHeader", <<>>)>>
           s23 == s2 \o s3
           s234 == s23 \o s4
           m == HeaderLen(h) - 8
<1>1. IsList(s1, 2)
    <2>1. s1 \in Seq({s1[1], s1[2]}) /\ Len(s1) = 2
        OBVIOUS
    <2> QED BY <2>1, ListOf
<1>2. IsList(s2, 5)
    <2>1. s2 \in Seq({s2[1], s2[2], s2[3], s2[4], s2[5]}) /\ Len(s2) = 5
        OBVIOUS
    <2> QED BY <2>1, ListOf
<1>3. IsList(s3, m) /\ m \in {0, 1} /\ (h.public # None => s3[1] = Format!Field("PublicCustomData", h.public) /\ m = 1)
    <2>1. CASE h.public = None
        <3>1. s3 = <<>> /\ m = 0
            BY <2>1 DEF HeaderLen
        <3>2. <<>> \in Seq({}) /\ Len(<<>>) = 0
            BY EmptySeq
        <3>3. IsList(<<>>, 0)
            BY <3>2, ListOf
        <3> QED BY <3>1, <3>3, <2>1
    <2>2. CASE h.public # None
        <3>1. s3 = <<Format!Field("PublicCustomData", h.public)>> /\ m = 1
            BY <2>2 DEF HeaderLen
        <3> DEFINE x == Format!Field("PublicCustomData", h.public)
        <3>2. s3 = <<x>>
            BY <3>1
        <3> HIDE DEF s3, x
        <3>3. s3 \in Seq({x}) /\ Len(s3) = 1 /\ s3[1] = x
            BY <3>2
        <3>4. IsList(s3, 1)
            BY <3>3, ListOf
        <3> QED BY <3>1, <3>3, <3>4 DEF x
    <2> QED BY <2>1, <2>2
<1>4. IsList(s4, 1)
    <2>1. s4 \in Seq({s4[1]}) /\ Len(s4) = 1
        OBVIOUS
    <2> QED BY <2>1, ListOf
<1>5. W = s1 \o s234 /\ s234 = s23 \o s4 /\ s23 = s2 \o s3
    BY DEF Format!WriteHeader, Format!Fields
<1>6. /\ s1[1] = [signature |-> "kdbx"] /\ s1[2] = [major |-> 4, minor |-> h.minor]
      /\ s2[1] = Format!One("CipherID", h.cipher) /\ s2[2] = Format!One("CompressionFlags", h.compression)
      /\ s2[3] = Format!One("MasterSeed", h.seed) /\ s2[4] = Format!One("EncryptionIV", h.iv)
      /\ s2[5] = Format!Field("KdfParameters", h.kdf) /\ s4[1] = Format!Field("EndOfHeader", <<>>)
    OBVIOUS
<1>7. HeaderLen(h) = 8 + m
    BY DEF HeaderLen
<1> HIDE DEF s1, s2, s3, s4, s23, s234, m
<1>8. IsJoin(s23, s2, s3, 5, m)
    BY <1>2, <1>3, <1>5, Joined
<1>9. IsJoin(s234, s23, s4, 5 + m, 1)
    <2>1. IsList(s23, 5 + m)
        BY <1>8 DEF IsJoin
    <2> QED BY <1>4, <1>5, <2>1, Joined
<1>10. IsJoin(W, s1, s234, 2, 5 + m + 1)
    <2>1. IsList(s234, 5 + m + 1)
        BY <1>9 DEF IsJoin
    <2> QED BY <1>1, <1>5, <2>1, Joined
<1>11. /\ \A i \in 1..5 : s23[i] = s2[i]
       /\ \A i \in 1..m : s23[5 + i] = s3[i]
       /\ \A i \in 1..(5 + m) : s234[i] = s23[i]
       /\ s234[5 + m + 1] = s4[1]
       /\ IsList(W, 2 + (5 + m + 1))
       /\ \A i \in 1..2 : W[i] = s1[i]
       /\ \A i \in 1..(5 + m + 1) : W[2 + i] = s234[i]
    BY <1>8, <1>9, <1>10 DEF IsJoin
<1>12. 2 + (5 + m + 1) = HeaderLen(h) /\ 5 + m + 1 \in 6..7 /\ 5 + m \in 5..6 /\ m \in Nat
    BY <1>3, <1>7
<1>13. \A i \in 1..5 : W[2 + i] = s2[i]
    BY <1>11, <1>12
<1>14. W[3] = s2[1] /\ W[4] = s2[2] /\ W[5] = s2[3] /\ W[6] = s2[4] /\ W[7] = s2[5]
    <2>1. W[2 + 1] = s2[1] /\ W[2 + 2] = s2[2] /\ W[2 + 3] = s2[3] /\ W[2 + 4] = s2[4] /\ W[2 + 5] = s2[5]
        BY <1>13
    <2>2. 2 + 1 = 3 /\ 2 + 2 = 4 /\ 2 + 3 = 5 /\ 2 + 4 = 6 /\ 2 + 5 = 7
        OBVIOUS
    <2> QED BY <2>1, <2>2
<1>15. W[1] = s1[1] /\ W[2] = s1[2]
    BY <1>11
<1>16. ASSUME h.public # None PROVE W[8] = s3[1]
    <2>1. m = 1
        BY <1>3, <1>16
    <2>2. s23[6] = s3[1] /\ s234[6] = s23[6] /\ W[8] = s234[6]
        BY <2>1, <1>11
    <2> QED BY <2>2
<1>17. W[HeaderLen(h)] = s4[1]
    <2>1. s234[5 + m + 1] = s4[1]
        BY <1>11
    <2>2. W[2 + (5 + m + 1)] = s234[5 + m + 1]
        BY <1>11, <1>12
    <2> QED BY <2>1, <2>2, <1>12
<1> QED BY <1>3, <1>6, <1>11, <1>12, <1>14, <1>15, <1>16, <1>17

LEMMA TwoPieces == ASSUME NEW x, NEW y, NEW s, s = <<x, y>> PROVE IsList(s, 2) /\ s[1] = x /\ s[2] = y
<1>1. s \in Seq({x, y}) /\ Len(s) = 2
    OBVIOUS
<1> QED BY <1>1, ListOf

LEMMA OnePiece == ASSUME NEW x, NEW s, s = <<x>> PROVE IsList(s, 1) /\ s[1] = x
<1>1. s \in Seq({x}) /\ Len(s) = 1
    OBVIOUS
<1> QED BY <1>1, ListOf

LEMMA SameList ==
    ASSUME NEW s, NEW t, NEW n, IsList(s, n), IsList(t, n), \A i \in 1..n : s[i] = t[i]
    PROVE  s = t
<1> DEFINE S == Range(s) \cup Range(t)
<1>1. s \in [1..n -> S] /\ t \in [1..n -> S] /\ n \in Nat
    BY LenProperties DEF IsList, Range
<1>2. s \in Seq(S) /\ t \in Seq(S) /\ Len(s) = n /\ Len(t) = n
    BY <1>1, SeqDef DEF IsList
<1> QED BY <1>2, SeqEqual

LEMMA PayloadList ==
    ASSUME FileConstants, NEW p \in Payloads
    PROVE  /\ IsList(p, Len(p)) /\ Len(p) \in Nat \ {0}
           /\ \A i \in 1..Len(p) : p[i] # None
<1>1. p # <<>> /\ p \in Seq(Range(p)) /\ None \notin Range(p)
    BY DEF FileConstants
<1>2. IsList(p, Len(p)) /\ Len(p) \in Nat \ {0}
    BY <1>1, ListOf, EmptySeq
<1> QED BY <1>1, <1>2 DEF IsList, Range

LEMMA BlockPieces ==
    ASSUME NEW K, NEW p, NEW m, IsList(p, m), NEW B, B = Format!Blocks(K, p)
    PROVE  /\ IsList(B, m + 1)
           /\ \A i \in 1..m : B[i] = Format!Block(K, i - 1, p[i])
           /\ B[m + 1] = Format!Block(K, m, None)
<1> DEFINE s == [i \in 1..m |-> Format!Block(K, i - 1, p[i])]
           t == <<Format!Block(K, m, None)>>
<1>1. DOMAIN p = 1..m /\ m = Len(p) /\ m \in Nat
    BY DEF IsList
<1>2. B = s \o t
    BY <1>1 DEF Format!Blocks
<1>3. IsList(s, m)
    <2>1. s \in [1..m -> Range(s)]
        BY DEF Range
    <2>2. s \in Seq(Range(s)) /\ Len(s) = m
        BY <2>1, <1>1, SeqDef, LenProperties
    <2> QED BY <2>2, ListOf
<1>4. IsList(t, 1) /\ t[1] = Format!Block(K, m, None)
    BY OnePiece
<1>5. \A i \in 1..m : s[i] = Format!Block(K, i - 1, p[i])
    OBVIOUS
<1> HIDE DEF s, t
<1>6. IsJoin(B, s, t, m, 1)
    BY <1>2, <1>3, <1>4, Joined
<1> QED BY <1>1, <1>4, <1>5, <1>6 DEF IsJoin

\* F is a file: a header W of n pieces, its hash in two forms, m blocks and an end.
LaidOut(F, W, n, K, p, m) ==
    /\ n \in 8..9 /\ m \in Nat /\ IsList(W, n)
    /\ IsList(F, n + 2 + (m + 1))
    /\ \A i \in 1..n : F[i] = W[i]
    /\ F[n + 1] = [hash |-> W]
    /\ F[n + 2] = [hmac |-> K, over |-> W]
    /\ \A i \in 1..m : F[n + 2 + i] = Format!Block(K, i - 1, p[i])
    /\ F[n + 2 + m + 1] = Format!Block(K, m, None)

LEMMA FilePieces ==
    ASSUME NEW h, NEW c, NEW p, NEW m, IsList(p, m), NEW F, F = Format!Pieces(h, c, p),
           NEW n, n = HeaderLen(h), NEW W, W = Format!WriteHeader(h), NEW K, K = Format!Keys(h, c)
    PROVE  LaidOut(F, W, n, K, p, m)
<1> DEFINE s == <<[hash |-> W], [hmac |-> K, over |-> W]>>
           B == Format!Blocks(K, p)
           r == W \o s
<1>1. F = r \o B
    BY DEF Format!Pieces
<1>2. IsList(W, n) /\ n \in 8..9
    <2>1. IsList(W, HeaderLen(h))
        BY HeaderPieces
    <2>2. HeaderLen(h) \in 8..9
        BY DEF HeaderLen
    <2> QED BY <2>1, <2>2
<1>3. IsList(s, 2) /\ s[1] = [hash |-> W] /\ s[2] = [hmac |-> K, over |-> W]
    BY TwoPieces
<1>4. /\ IsList(B, m + 1)
      /\ \A i \in 1..m : B[i] = Format!Block(K, i - 1, p[i])
      /\ B[m + 1] = Format!Block(K, m, None)
    BY BlockPieces
<1>5. r = W \o s
    OBVIOUS
<1> HIDE DEF s, B, r
<1>6. IsJoin(r, W, s, n, 2)
    BY <1>2, <1>3, <1>5, Joined
<1>7. IsJoin(F, r, B, n + 2, m + 1)
    <2>1. IsList(r, n + 2)
        BY <1>6 DEF IsJoin
    <2> QED BY <1>1, <1>4, <2>1, Joined
<1>8. m \in Nat
    BY DEF IsList
<1>9. IsList(F, n + 2 + (m + 1)) /\ (\A i \in 1..(n + 2) : F[i] = r[i])
    BY <1>7 DEF IsJoin
<1>10. (\A i \in 1..n : r[i] = W[i]) /\ r[n + 1] = s[1] /\ r[n + 2] = s[2]
    BY <1>6 DEF IsJoin
<1>11. (\A i \in 1..n : i \in 1..(n + 2)) /\ n + 1 \in 1..(n + 2) /\ n + 2 \in 1..(n + 2)
    BY <1>2
<1>12. \A i \in 1..(m + 1) : F[n + 2 + i] = B[i]
    BY <1>7 DEF IsJoin
<1>13. (\A i \in 1..m : i \in 1..(m + 1)) /\ m + 1 \in 1..(m + 1) /\ n + 2 + m + 1 = n + 2 + (m + 1)
    BY <1>2, <1>8
<1>14. \A i \in 1..m : F[n + 2 + i] = Format!Block(K, i - 1, p[i])
    BY <1>4, <1>12, <1>13
<1>15. F[n + 2 + m + 1] = Format!Block(K, m, None)
    BY <1>4, <1>12, <1>13
<1> QED BY <1>2, <1>3, <1>8, <1>9, <1>10, <1>11, <1>14, <1>15 DEF LaidOut

LEMMA Cut ==
    ASSUME NEW F, NEW l, IsList(F, l), NEW m \in 1..(l + 1), NEW n \in (m - 1)..l
    PROVE  /\ IsList(SubSeq(F, m, n), n - m + 1)
           /\ \A i \in 1..(n - m + 1) : SubSeq(F, m, n)[i] = F[m + i - 1]
           /\ \A i \in 1..(n - m + 1) : m + i - 1 \in 1..l
<1>1. l \in Nat /\ m \in Int /\ n \in Int /\ DOMAIN F = 1..l
    BY DEF IsList
<1>2. \A i \in m..n : F[i] \in Range(F)
    BY <1>1 DEF Range
<1>3. /\ SubSeq(F, m, n) \in Seq(Range(F))
      /\ Len(SubSeq(F, m, n)) = IF m <= n THEN n - m + 1 ELSE 0
      /\ \A i \in 1..(n - m + 1) : SubSeq(F, m, n)[i] = F[m + i - 1]
    BY <1>1, <1>2, SubSeqProperties
<1>4. Len(SubSeq(F, m, n)) = n - m + 1
    BY <1>1, <1>3
<1>5. IsList(SubSeq(F, m, n), n - m + 1)
    BY <1>3, <1>4, ListOf
<1>6. \A i \in 1..(n - m + 1) : m + i - 1 \in 1..l
    BY <1>1
<1> QED BY <1>3, <1>5, <1>6

-----------------------------------------------------------------------------
(* Whatever is made of the pieces of two saves opens as one of them.       *)

\* The pieces that are in a damaged file: those of a save, or other bytes.
PiecesOf(a) == Range(FileOf(a))
Junk == [junk |-> "junk"]
AnyPiece(S) == (UNION {PiecesOf(b) : b \in S}) \cup {Junk}

\* The layout of the file of a save.
LEMMA SavedFile ==
    ASSUME FileConstants, NEW a, a.content \in Payloads
    PROVE  LaidOut(FileOf(a), Format!WriteHeader(a.header), HeaderLen(a.header), KeysOf(a), a.content,
                   Len(a.content))
<1>1. IsList(a.content, Len(a.content))
    BY PayloadList
<1> QED BY <1>1, FilePieces DEF FileOf, KeysOf

LEMMA HeaderFieldsOnly ==
    ASSUME NEW h, NEW W, W = Format!WriteHeader(h), NEW n, n = HeaderLen(h)
    PROVE  \A j \in 3..n : \E id, items : W[j] = Format!Field(id, items)
<1>1. /\ W[3] = Format!One("CipherID", h.cipher)
      /\ W[4] = Format!One("CompressionFlags", h.compression)
      /\ W[5] = Format!One("MasterSeed", h.seed)
      /\ W[6] = Format!One("EncryptionIV", h.iv)
      /\ W[7] = Format!Field("KdfParameters", h.kdf)
      /\ h.public # None => W[8] = Format!Field("PublicCustomData", h.public)
      /\ W[n] = Format!Field("EndOfHeader", <<>>)
    BY HeaderPieces
<1>2. \A j \in 3..n : j \in {3, 4, 5, 6, 7, n} \/ (j = 8 /\ h.public # None)
    BY DEF HeaderLen
<1>3. \A id, v : Format!One(id, v) = Format!Field(id, <<Format!Item(id, v)>>)
    BY DEF Format!One
<1> QED BY <1>1, <1>2, <1>3, ZenonT(30)

\* A piece of a save says its keys only where it has a hash of the header or a block,
\* and a block its number and its data.
LEMMA PieceKinds ==
    ASSUME FileConstants, NEW a, a.content \in Payloads, NEW x \in PiecesOf(a)
    PROVE  /\ "hmac" \in DOMAIN x => x.hmac = KeysOf(a)
           /\ "data" \in DOMAIN x =>
                \/ \E i \in 1..Len(a.content) : x = Format!Block(KeysOf(a), i - 1, a.content[i])
                \/ x = Format!Block(KeysOf(a), Len(a.content), None)
<1>1. PICK F, W, n, K, p, m :
        /\ F = FileOf(a) /\ W = Format!WriteHeader(a.header) /\ n = HeaderLen(a.header)
        /\ K = KeysOf(a) /\ p = a.content /\ m = Len(a.content)
    OBVIOUS
<1>2. LaidOut(F, W, n, K, p, m)
    BY <1>1, SavedFile
<1>3. n \in 8..9 /\ m \in Nat
    BY <1>2 DEF LaidOut
<1>4. PICK i \in 1..(n + 2 + (m + 1)) : x = F[i]
    BY <1>1, <1>2 DEF LaidOut, IsList, PiecesOf, Range
<1>5. CASE i \in 1..n
    <2>1. x = W[i]
        BY <1>2, <1>4, <1>5 DEF LaidOut
    <2>2. /\ W[1] = [signature |-> "kdbx"]
          /\ W[2] = [major |-> 4, minor |-> a.header.minor]
        BY <1>1, HeaderPieces
    <2>3. \A j \in 3..n : \E id, items : W[j] = Format!Field(id, items)
        BY <1>1, HeaderFieldsOnly
    <2>4. i = 1 \/ i = 2 \/ i \in 3..n
        BY <1>3, <1>5
    <2>5. \A id, items : {"hmac", "data"} \cap DOMAIN Format!Field(id, items) = {}
        BY DEF Format!Field
    <2>6. "hmac" \notin DOMAIN x /\ "data" \notin DOMAIN x
        BY <2>1, <2>2, <2>3, <2>4, <2>5
    <2> QED BY <2>6
<1>6. CASE i = n + 1
    <2>1. x = [hash |-> W]
        BY <1>2, <1>4, <1>6 DEF LaidOut
    <2> QED BY <2>1
<1>7. CASE i = n + 2
    <2>1. x = [hmac |-> K, over |-> W]
        BY <1>2, <1>4, <1>7 DEF LaidOut
    <2> QED BY <1>1, <2>1
<1>8. CASE i - (n + 2) \in 1..m
    <2>1. n + 2 + (i - (n + 2)) = i
        BY <1>3
    <2>2. x = Format!Block(K, i - (n + 2) - 1, p[i - (n + 2)])
        BY <1>2, <1>4, <1>8, <2>1 DEF LaidOut
    <2>3. "hmac" \notin DOMAIN x
        BY <2>2 DEF Format!Block
    <2> QED BY <1>1, <1>8, <2>2, <2>3
<1>9. CASE i = n + 2 + m + 1
    <2>1. x = Format!Block(K, m, None)
        BY <1>2, <1>4, <1>9 DEF LaidOut
    <2>2. "hmac" \notin DOMAIN x
        BY <2>1 DEF Format!Block
    <2> QED BY <1>1, <2>1, <2>2
<1> QED BY <1>3, <1>4, <1>5, <1>6, <1>7, <1>8, <1>9

\* A set of naturals that is not empty has a least element.
LEMMA LeastOf ==
    ASSUME NEW S \in SUBSET Nat, S # {}
    PROVE  \E n \in S : \A k \in S : n <= k
<1>1. IsWellFoundedOn(OpToRel(<, Nat), Nat)
    BY NatLessThanWellFounded
<1>2. PICK x \in S : \A y \in S : ~(<<y, x>> \in OpToRel(<, Nat))
    BY <1>1, WFMin
<1>3. \A y \in S : ~(y < x)
    BY <1>2 DEF OpToRel
<1>4. \A y \in S : x <= y
    BY <1>3
<1> QED BY <1>4

\* Blocks that are verified are read up to the first empty one.
LEMMA VerifiedData ==
    ASSUME NEW K, NEW q, NEW l, IsList(q, l), Format!Verified(K, q)
    PROVE  \E e \in 1..l :
            /\ \A i \in 1..(e - 1) :
                /\ "data" \in DOMAIN q[i] /\ q[i].data # None
                /\ q[i].mac = <<K, i - 1, q[i].data>>
            /\ Format!Data(q) = [i \in 1..(e - 1) |-> q[i].data]
<1> DEFINE Ends == {i \in DOMAIN q : Format!Is(q[i], "data") /\ q[i].data = None}
           e == CHOOSE i \in Ends : \A j \in Ends : i <= j
<1>1. DOMAIN q = 1..l /\ l \in Nat
    BY DEF IsList
<1>2. /\ Ends # {}
      /\ \A i \in 1..(e - 1) : Format!Is(q[i], "data") /\ q[i].mac = <<K, i - 1, q[i].data>>
    BY DEF Format!Verified
<1>3. Ends \in SUBSET Nat
    BY <1>1
<1>4. e \in Ends /\ \A j \in Ends : e <= j
    <2>1. \E i \in Ends : \A j \in Ends : i <= j
        <3> HIDE DEF Ends
        <3> QED BY <1>2, <1>3, LeastOf
    <2> QED BY <2>1
<1>5. e \in 1..l /\ Format!Is(q[e], "data") /\ q[e].data = None
    BY <1>1, <1>4
<1>6. \A i \in 1..(e - 1) : i \in 1..l /\ i < e
    BY <1>1, <1>5
<1>7. \A i \in 1..(e - 1) : q[i].data # None
    <2> HIDE DEF e
    <2>1. ASSUME NEW i \in 1..(e - 1), q[i].data = None PROVE FALSE
        <3>1. i \in Ends
            BY <1>1, <1>2, <1>6, <2>1
        <3>2. e <= i
            BY <1>4, <3>1
        <3> HIDE DEF Ends
        <3> QED BY <1>1, <1>5, <1>6, <3>2
    <2> QED BY <2>1
<1> HIDE DEF e, Ends
<1>8. Format!Data(q) = [i \in 1..(e - 1) |-> q[i].data]
    <2> DEFINE P(i) == /\ Format!Is(q[i], "data") /\ q[i].data = None
                       /\ \A j \in 1..(i - 1) : q[j].data # None
               d == CHOOSE i \in DOMAIN q : P(i)
    <2>1. e \in DOMAIN q /\ P(e)
        BY <1>1, <1>5, <1>7
    <2>2. d \in DOMAIN q /\ P(d)
        BY <2>1
    <2>3. d \in 1..l /\ e \in 1..l /\ l \in Nat
        BY <1>1, <1>5, <2>2
    <2> HIDE DEF d
    <2>4. ~(d < e)
        <3>1. ASSUME d < e PROVE FALSE
            <4>1. d \in 1..(e - 1)
                BY <2>3, <3>1
            <4> QED BY <1>7, <2>2, <4>1
        <3> QED BY <3>1
    <2>5. ~(e < d)
        <3>1. ASSUME e < d PROVE FALSE
            <4>1. e \in 1..(d - 1)
                BY <2>3, <3>1
            <4> QED BY <1>5, <2>2, <4>1
        <3> QED BY <3>1
    <2>6. d = e
        BY <2>3, <2>4, <2>5
    <2>7. Format!Data(q) = [i \in 1..(d - 1) |-> q[i].data]
        BY DEF Format!Data, d
    <2> QED BY <2>6, <2>7
<1> QED BY <1>2, <1>5, <1>7, <1>8 DEF Format!Is

LEMMA HeaderEnds ==
    ASSUME NEW q, NEW l, IsList(q, l), Format!EndPos(q) # 0
    PROVE  Format!EndPos(q) \in 1..l
<1> DEFINE Ends == {i \in DOMAIN q : Format!Is(q[i], "field") /\ q[i].field = "EndOfHeader"}
           e == CHOOSE i \in Ends : \A j \in Ends : i <= j
<1>1. Format!EndPos(q) = e /\ Ends # {}
    BY DEF Format!EndPos
<1>2. Ends \subseteq 1..l /\ Ends \in SUBSET Nat
    BY DEF IsList
<1>3. e \in Ends
    <2>1. \E i \in Ends : \A j \in Ends : i <= j
        <3> HIDE DEF Ends
        <3> QED BY <1>1, <1>2, LeastOf
    <2> QED BY <2>1
<1> QED BY <1>1, <1>2, <1>3

\* The blocks that are verified with the keys of a save are the first of its blocks.
LEMMA VerifiedPrefix ==
    ASSUME FileConstants, NEW S, \A a \in S : a.content \in Payloads,
           NEW a \in S, \A b \in S : KeysOf(b) = KeysOf(a) => b = a,
           NEW q, NEW l, IsList(q, l), Range(q) \subseteq AnyPiece(S),
           Format!Verified(KeysOf(a), q)
    PROVE  \E n \in 0..Len(a.content) : Format!Data(q) = [i \in 1..n |-> a.content[i]]
<1> DEFINE p == a.content
<1>1. PICK e \in 1..l :
        /\ \A i \in 1..(e - 1) :
            /\ "data" \in DOMAIN q[i] /\ q[i].data # None
            /\ q[i].mac = <<KeysOf(a), i - 1, q[i].data>>
        /\ Format!Data(q) = [i \in 1..(e - 1) |-> q[i].data]
    BY VerifiedData
<1>2. l \in Nat /\ DOMAIN q = 1..l
    BY DEF IsList
<1>3. ASSUME NEW i \in 1..(e - 1) PROVE i \in 1..Len(p) /\ q[i].data = p[i]
    <2>1. "data" \in DOMAIN q[i] /\ q[i].data # None /\ q[i].mac = <<KeysOf(a), i - 1, q[i].data>>
        BY <1>1
    <2>2. i \in 1..l
        BY <1>2
    <2>3. q[i] \in AnyPiece(S)
        BY <1>2, <2>2 DEF Range
    <2>4. "data" \notin DOMAIN Junk
        BY DEF Junk
    <2>5. PICK b \in S : q[i] \in PiecesOf(b)
        BY <2>1, <2>3, <2>4 DEF AnyPiece
    <2>6. PICK x : x = q[i]
        OBVIOUS
    <2>7. \/ \E j \in 1..Len(b.content) : x = Format!Block(KeysOf(b), j - 1, b.content[j])
          \/ x = Format!Block(KeysOf(b), Len(b.content), None)
        BY <2>1, <2>5, <2>6, PieceKinds
    <2>8. x.data # None /\ x.mac = <<KeysOf(a), i - 1, x.data>>
        BY <2>1, <2>6
    <2>9. PICK j \in 1..Len(b.content) : x = Format!Block(KeysOf(b), j - 1, b.content[j])
        BY <2>7, <2>8 DEF Format!Block
    <2>10. x.mac = <<KeysOf(b), j - 1, b.content[j]>> /\ x.data = b.content[j]
        BY <2>9 DEF Format!Block
    <2>11. KeysOf(b) = KeysOf(a) /\ j - 1 = i - 1
        BY <2>8, <2>10
    <2>12. b = a
        BY <2>11
    <2>13. Len(p) \in Nat
        BY PayloadList
    <2>14. j = i
        BY <2>11, <2>12, <2>13, <1>1, <1>2
    <2> QED BY <2>6, <2>9, <2>10, <2>12, <2>14
<1>4. Len(p) \in Nat
    BY PayloadList
<1>5. e - 1 \in 0..Len(p)
    <2>1. e - 1 \in Nat
        BY <1>1, <1>2
    <2>2. e - 1 > 0 => e - 1 \in 1..Len(p)
        <3>1. e - 1 > 0 => e - 1 \in 1..(e - 1)
            BY <2>1
        <3> HIDE DEF p
        <3> QED BY <1>3, <3>1
    <2> HIDE DEF p
    <2> QED BY <1>4, <2>1, <2>2
<1>6. Format!Data(q) = [i \in 1..(e - 1) |-> p[i]]
    <2>1. [i \in 1..(e - 1) |-> q[i].data] = [i \in 1..(e - 1) |-> p[i]]
        BY <1>3
    <2> QED BY <1>1, <2>1
<1> QED BY <1>5, <1>6

\* The first parts of a payload can be read only when they are all of it.
LEMMA ReadablePrefix ==
    ASSUME FileConstants, NEW p \in Payloads, NEW n \in 0..Len(p),
           NEW d, d = [i \in 1..n |-> p[i]], NEW compression, Format!Readable(d, compression)
    PROVE  d = p
<1>1. IsList(p, Len(p)) /\ Len(p) \in Nat \ {0}
    BY PayloadList
<1>2. IsList(d, n) /\ n \in Nat
    <2>1. d \in [1..n -> Range(d)] /\ n \in Nat
        BY <1>1 DEF Range
    <2>2. d \in Seq(Range(d)) /\ Len(d) = n
        BY <2>1, SeqDef, LenProperties
    <2> QED BY <2>1, <2>2, ListOf
<1>3. Len(d) = n
    BY <1>2 DEF IsList
<1>4. \E q \in Payloads : Len(q) = n /\ (n # 0 => q[n] = d[n])
    BY <1>3 DEF Format!Readable
<1>5. PICK q \in Payloads : Len(q) = n /\ (n # 0 => q[n] = d[n])
    BY <1>4
<1>6. n # 0
    BY <1>5, PayloadList
<1>7. n \in 1..Len(p) /\ d[n] = p[n]
    BY <1>1, <1>2, <1>6
<1>8. n = Len(p)
    BY <1>5, <1>6, <1>7 DEF FileConstants
<1>9. \A i \in 1..Len(p) : d[i] = p[i]
    BY <1>8
<1> QED BY <1>1, <1>2, <1>8, <1>9, SameList

\* Whatever is made of the pieces of saves that each have keys of their own, it opens
\* as the whole of one of them or not at all.
LEMMA WholeOrNothing ==
    ASSUME FileConstants, NEW S, \A a \in S : a.content \in Payloads,
           \A a, b \in S : KeysOf(a) = KeysOf(b) => a = b,
           NEW q, NEW l, IsList(q, l), Range(q) \subseteq AnyPiece(S),
           NEW c, Format!Outcome(q, c) = "ok"
    PROVE  \E a \in S : Format!Payload(q) = a.content
<1> DEFINE end == Format!EndPos(q)
           h == Format!ReadHeader(q)
           top == SubSeq(q, 1, end)
           rest == SubSeq(q, end + 3, Len(q))
<1>1. /\ end # 0 /\ ~(Len(q) <= end + 2)
      /\ q[end + 2] = [hmac |-> Format!Keys(h, c), over |-> top]
      /\ Format!Verified(Format!Keys(h, c), rest)
      /\ Format!Readable(Format!Data(rest), h.compression)
    BY DEF Format!Outcome
<1>2. Len(q) = l /\ DOMAIN q = 1..l /\ l \in Nat
    BY DEF IsList
<1>3. end \in 1..l
    BY <1>1, HeaderEnds
<1> HIDE DEF end, h, top
<1>4. end + 2 \in 1..l /\ end + 3 \in 1..(l + 1) /\ l \in ((end + 3) - 1)..l
    BY <1>1, <1>2, <1>3
<1>5. q[end + 2] \in AnyPiece(S)
    BY <1>2, <1>4 DEF Range
<1>6. \E K, t : q[end + 2] = [hmac |-> K, over |-> t] /\ K = Format!Keys(h, c)
    BY <1>1
<1>7. PICK a \in S : q[end + 2] \in PiecesOf(a)
    <2>1. "hmac" \notin DOMAIN Junk
        BY DEF Junk
    <2> QED BY <1>5, <1>6, <2>1 DEF AnyPiece
<1>8. KeysOf(a) = Format!Keys(h, c)
    <2>1. PICK x : x = q[end + 2]
        OBVIOUS
    <2>2. "hmac" \in DOMAIN x /\ x.hmac = Format!Keys(h, c)
        BY <1>6, <2>1
    <2> QED BY <1>7, <2>1, <2>2, PieceKinds
<1>9. /\ IsList(SubSeq(q, end + 3, l), l - (end + 3) + 1)
      /\ \A i \in 1..(l - (end + 3) + 1) : SubSeq(q, end + 3, l)[i] = q[(end + 3) + i - 1]
      /\ \A i \in 1..(l - (end + 3) + 1) : (end + 3) + i - 1 \in 1..l
    BY <1>4, Cut
<1>10. rest = SubSeq(q, end + 3, l)
    BY <1>2
<1> HIDE DEF rest
<1>11. Range(rest) \subseteq AnyPiece(S)
    <2>1. Range(rest) \subseteq Range(q)
        BY <1>2, <1>9, <1>10 DEF Range, IsList
    <2> QED BY <2>1
<1>12. PICK n \in 0..Len(a.content) : Format!Data(rest) = [i \in 1..n |-> a.content[i]]
    <2>1. Format!Verified(KeysOf(a), rest) /\ \A b \in S : KeysOf(b) = KeysOf(a) => b = a
        BY <1>1, <1>8
    <2>2. PICK k : IsList(rest, k)
        BY <1>9, <1>10
    <2>3. \A b \in S : b.content \in Payloads
        OBVIOUS
    <2> QED BY <1>11, <2>1, <2>2, <2>3, VerifiedPrefix
<1>13. Format!Data(rest) = a.content
    <2>1. a.content \in Payloads
        OBVIOUS
    <2>2. PICK d : d = Format!Data(rest)
        OBVIOUS
    <2> QED BY <1>1, <1>12, <2>1, <2>2, ReadablePrefix
<1>14. Format!Payload(q) = Format!Data(rest)
    BY DEF Format!Payload, rest, end
<1> QED BY <1>13, <1>14

-----------------------------------------------------------------------------
(* What can be made of the file on disk.                                   *)

\* s is a sequence of elements of S.
Made(s, S) == \E l : IsList(s, l) /\ Range(s) \subseteq S

LEMMA MadeCut ==
    ASSUME NEW S, NEW F, NEW l, IsList(F, l), Range(F) \subseteq S, NEW m \in 1..(l + 1), NEW n \in (m - 1)..l,
           NEW s, s = SubSeq(F, m, n)
    PROVE  Made(s, S)
<1>1. /\ IsList(s, n - m + 1)
      /\ \A i \in 1..(n - m + 1) : s[i] = F[m + i - 1]
      /\ \A i \in 1..(n - m + 1) : m + i - 1 \in 1..l
    <2>1. /\ IsList(SubSeq(F, m, n), n - m + 1)
          /\ \A i \in 1..(n - m + 1) : SubSeq(F, m, n)[i] = F[m + i - 1]
          /\ \A i \in 1..(n - m + 1) : m + i - 1 \in 1..l
        BY Cut
    <2> QED BY <2>1
<1>2. Range(s) \subseteq Range(F)
    BY <1>1 DEF Range, IsList
<1> QED BY <1>1, <1>2 DEF Made

LEMMA MadeJoined ==
    ASSUME NEW S, NEW s, NEW t, Made(s, S), Made(t, S), NEW r, r = s \o t
    PROVE  Made(r, S)
<1>1. PICK m, n : IsList(s, m) /\ IsList(t, n) /\ Range(s) \subseteq S /\ Range(t) \subseteq S
    BY DEF Made
<1>2. IsJoin(r, s, t, m, n)
    BY <1>1, Joined
<1>3. IsList(r, m + n) /\ m \in Nat /\ n \in Nat
    BY <1>1, <1>2 DEF IsJoin, IsList
<1>4. \A i \in 1..(m + n) : r[i] \in S
    <2>1. \A i \in 1..m : s[i] \in S
        BY <1>1 DEF IsList, Range
    <2>2. \A i \in 1..n : t[i] \in S
        BY <1>1 DEF IsList, Range
    <2>3. \A i \in 1..(m + n) : i \in 1..m \/ (~(i <= m) /\ i - m \in 1..n)
        BY <1>3
    <2>4. \A i \in 1..(m + n) : r[i] = IF i <= m THEN s[i] ELSE t[i - m]
        BY <1>2 DEF IsJoin
    <2>5. \A i \in 1..m : i <= m
        BY <1>3
    <2> QED BY <2>1, <2>2, <2>3, <2>4, <2>5
<1>5. Range(r) \subseteq S
    BY <1>3, <1>4 DEF Range, IsList
<1> QED BY <1>3, <1>5 DEF Made

LEMMA MadeOne == ASSUME NEW S, NEW x \in S, NEW s, s = <<x>> PROVE Made(s, S)
<1>1. IsList(s, 1) /\ s[1] = x
    BY OnePiece
<1>2. Range(s) \subseteq S
    BY <1>1 DEF IsList, Range
<1> QED BY <1>1, <1>2 DEF Made

LEMMA MadeChanged ==
    ASSUME NEW S, NEW F, Made(F, S), NEW k \in DOMAIN F, NEW x \in S, NEW s, s = [F EXCEPT ![k] = x]
    PROVE  Made(s, S)
<1>1. PICK l : IsList(F, l) /\ Range(F) \subseteq S
    BY DEF Made
<1>2. k \in 1..l /\ l \in Nat /\ DOMAIN s = 1..l /\ DOMAIN F = 1..l
    BY <1>1 DEF IsList
<1>3. \A i \in 1..l : s[i] = IF i = k THEN x ELSE F[i]
    BY <1>2
<1>4. \A i \in 1..l : s[i] \in S
    BY <1>1, <1>2, <1>3 DEF Range
<1>5. s \in [1..l -> S]
    BY <1>1, <1>2, <1>4
<1>6. s \in Seq(S) /\ Len(s) = l
    <2>1. s \in Seq(S)
        BY <1>2, <1>5, SeqDef, ZenonT(30)
    <2>2. Len(s) \in Nat /\ DOMAIN s = 1..Len(s)
        BY <2>1, LenProperties
    <2>3. 1..Len(s) = 1..l
        BY <1>2, <2>2
    <2>4. Len(s) = l
        BY <1>2, <2>2, <2>3
    <2> QED BY <2>1, <2>4
<1>7. IsList(s, l)
    BY <1>6, ListOf
<1>8. Range(s) \subseteq S
    BY <1>2, <1>4 DEF Range
<1> QED BY <1>7, <1>8 DEF Made

LEMMA DamagedMade ==
    ASSUME NEW S, Made(v4, S), Made(v5, S), Junk \in S, NEW q \in Format!Damaged
    PROVE  Made(q, S)
<1>1. PICK k \in DOMAIN v4 :
        q \in {SubSeq(v4, 1, k), SubSeq(v4, 1, k) \o SubSeq(v5, k + 1, Len(v5)),
               Format!RemoveAt(v4, k), Format!InsertAt(v4, k, v4[k]),
               [v4 EXCEPT ![k] = Junk],
               IF k = Len(v4) THEN v4 ELSE [v4 EXCEPT ![k] = v4[k + 1], ![k + 1] = v4[k]]}
    BY DEF Format!Damaged, Junk
<1>2. PICK l : IsList(v4, l) /\ Range(v4) \subseteq S
    BY DEF Made
<1>3. PICK o : IsList(v5, o) /\ Range(v5) \subseteq S
    BY DEF Made
<1>4. l \in Nat /\ k \in 1..l /\ Len(v4) = l /\ DOMAIN v4 = 1..l /\ o \in Nat /\ Len(v5) = o
    BY <1>2, <1>3 DEF IsList
<1>5. Made(SubSeq(v4, 1, k), S)
    <2>1. 1 \in 1..(l + 1) /\ k \in (1 - 1)..l
        BY <1>4
    <2> QED BY <1>2, <2>1, MadeCut
<1>6. Made(SubSeq(v4, 1, k - 1), S)
    <2>1. 1 \in 1..(l + 1) /\ k - 1 \in (1 - 1)..l
        BY <1>4
    <2> QED BY <1>2, <2>1, MadeCut
<1>7. Made(SubSeq(v4, k + 1, l), S)
    <2>1. k + 1 \in 1..(l + 1) /\ l \in ((k + 1) - 1)..l
        BY <1>4
    <2> QED BY <1>2, <2>1, MadeCut
<1>8. Made(SubSeq(v4, k, l), S)
    <2>1. k \in 1..(l + 1) /\ l \in (k - 1)..l
        BY <1>4
    <2> QED BY <1>2, <2>1, MadeCut
<1>9. Made(SubSeq(v5, k + 1, o), S)
    <2>1. CASE k + 1 <= o + 1
        <3>1. k + 1 \in 1..(o + 1) /\ o \in ((k + 1) - 1)..o
            BY <1>4, <2>1
        <3> QED BY <1>3, <3>1, MadeCut
    <2>2. CASE ~(k + 1 <= o + 1)
        <3>1. k + 1 \in Int /\ o \in Int /\ o < k + 1
            BY <1>4, <2>2
        <3>2. SubSeq(v5, k + 1, o) = <<>>
            BY <3>1, SubSeqEmpty
        <3>3. <<>> \in Seq({}) /\ Len(<<>>) = 0
            BY EmptySeq
        <3>4. IsList(<<>>, 0)
            BY <3>3, ListOf
        <3>5. Range(<<>>) \subseteq S
            BY DEF Range
        <3> QED BY <3>2, <3>4, <3>5 DEF Made
    <2> QED BY <2>1, <2>2
<1>10. v4[k] \in S
    BY <1>2, <1>4 DEF Range
<1>11. CASE q = SubSeq(v4, 1, k)
    BY <1>5, <1>11
<1>12. CASE q = SubSeq(v4, 1, k) \o SubSeq(v5, k + 1, Len(v5))
    <2>1. PICK s, t : s = SubSeq(v4, 1, k) /\ t = SubSeq(v5, k + 1, o)
        OBVIOUS
    <2> QED BY <1>4, <1>5, <1>9, <1>12, <2>1, MadeJoined
<1>13. CASE q = Format!RemoveAt(v4, k)
    <2>1. PICK s, t : s = SubSeq(v4, 1, k - 1) /\ t = SubSeq(v4, k + 1, l)
        OBVIOUS
    <2>2. q = s \o t
        BY <1>4, <1>13, <2>1 DEF Format!RemoveAt
    <2> QED BY <1>6, <1>7, <2>1, <2>2, MadeJoined
<1>14. CASE q = Format!InsertAt(v4, k, v4[k])
    <2>1. PICK s, t, u : s = SubSeq(v4, 1, k - 1) /\ t = <<v4[k]>> /\ u = SubSeq(v4, k, l)
        OBVIOUS
    <2>2. q = (s \o t) \o u
        BY <1>4, <1>14, <2>1 DEF Format!InsertAt
    <2>3. PICK r : r = s \o t
        OBVIOUS
    <2>4. Made(t, S)
        BY <1>10, <2>1, MadeOne
    <2>5. Made(r, S)
        BY <1>6, <2>1, <2>3, <2>4, MadeJoined
    <2>6. q = r \o u
        BY <2>2, <2>3
    <2> QED BY <1>8, <2>1, <2>5, <2>6, MadeJoined
<1>15. CASE q = [v4 EXCEPT ![k] = Junk]
    BY <1>15, MadeChanged
<1>16. CASE q = v4
    BY <1>16
<1>17. CASE k # Len(v4) /\ q = [v4 EXCEPT ![k] = v4[k + 1], ![k + 1] = v4[k]]
    <2>1. k + 1 \in 1..l
        BY <1>4, <1>17
    <2>2. v4[k + 1] \in S
        BY <1>2, <1>4, <2>1 DEF Range
    <2>3. PICK r : r = [v4 EXCEPT ![k] = v4[k + 1]]
        OBVIOUS
    <2>4. Made(r, S) /\ k + 1 \in DOMAIN r
        BY <1>4, <2>1, <2>2, <2>3, MadeChanged
    <2>5. q = [r EXCEPT ![k + 1] = v4[k]]
        BY <1>17, <2>3
    <2> QED BY <1>10, <2>4, <2>5, MadeChanged
<1> QED BY <1>1, <1>11, <1>12, <1>13, <1>14, <1>15, <1>16, <1>17

LEMMA SaltedKeys ==
    ASSUME NEW a, NEW b, a.header.seed # b.header.seed
    PROVE  KeysOf(a) # KeysOf(b)
<1>1. \A x : KeysOf(x).seed = x.header.seed
    BY DEF KeysOf, Format!Keys
<1> QED BY <1>1

\* The last two saves, as a set.
Saved == {v6[i] : i \in DOMAIN v6}

LEMMA SavedApart ==
    ASSUME FileConstants, FileInv
    PROVE  /\ \A a \in Saved : a.content \in Payloads
           /\ \A a, b \in Saved : KeysOf(a) = KeysOf(b) => a = b
           /\ v4 # <<>> => Made(v4, AnyPiece(Saved)) /\ Made(v5, AnyPiece(Saved))
<1>1. Made(<<>>, AnyPiece(Saved))
    <2>1. <<>> \in Seq({}) /\ Len(<<>>) = 0
        BY EmptySeq
    <2>2. IsList(<<>>, 0)
        BY <2>1, ListOf
    <2>3. Range(<<>>) \subseteq AnyPiece(Saved)
        BY DEF Range
    <2> QED BY <2>2, <2>3 DEF Made
<1>2. ASSUME NEW a \in Saved, a.content \in Payloads PROVE Made(FileOf(a), AnyPiece(Saved))
    <2>1. PICK l : IsList(FileOf(a), l)
        BY <1>2, SavedFile DEF LaidOut
    <2>2. Range(FileOf(a)) \subseteq AnyPiece(Saved)
        BY DEF AnyPiece, PiecesOf
    <2> QED BY <2>1, <2>2 DEF Made
<1>3. CASE v6 = <<>> /\ v4 = <<>> /\ v5 = <<>>
    <2>1. Saved = {}
        BY <1>3 DEF Saved
    <2> QED BY <1>3, <2>1
<1>4. CASE v6 = <<v6[1]>> /\ v4 = FileOf(v6[1]) /\ v5 = <<>> /\ SealedAt(v6[1], v7)
    <2>1. PICK a : a = v6[1]
        OBVIOUS
    <2>2. v6 = <<a>>
        BY <1>4, <2>1
    <2>3. Saved = {a}
        BY <2>2 DEF Saved
    <2>4. a.content \in Payloads
        BY <1>4, <2>1 DEF SealedAt
    <2>5. Made(v4, AnyPiece(Saved))
        BY <1>2, <1>4, <2>1, <2>3, <2>4
    <2>6. Made(v5, AnyPiece(Saved))
        BY <1>1, <1>4
    <2> QED BY <2>3, <2>4, <2>5, <2>6
<1>5. CASE /\ v6 = <<v6[1], v6[2]>> /\ v4 = FileOf(v6[1]) /\ v5 = FileOf(v6[2])
           /\ SealedAt(v6[1], v7) /\ SealedAt(v6[2], v7 - 1)
    <2>1. PICK a, b : a = v6[1] /\ b = v6[2]
        OBVIOUS
    <2>2. v6 = <<a, b>>
        BY <1>5, <2>1
    <2>3. Saved = {a, b}
        BY <2>2 DEF Saved
    <2>4. a.content \in Payloads /\ b.content \in Payloads
        BY <1>5, <2>1 DEF SealedAt
    <2>5. Made(v4, AnyPiece(Saved)) /\ Made(v5, AnyPiece(Saved))
        BY <1>2, <1>5, <2>1, <2>3, <2>4
    <2>6. a.header.seed # b.header.seed
        <3>1. /\ v7 \in 1..Len(Draws) /\ v7 - 1 \in 1..Len(Draws) /\ Len(Draws) \in Nat
              /\ a.header.seed = Draws[v7] /\ b.header.seed = Draws[v7 - 1]
            BY <1>5, <2>1 DEF SealedAt, FileConstants
        <3>2. v7 # v7 - 1
            BY <3>1
        <3> QED BY <3>1, <3>2 DEF FileConstants
    <2>7. KeysOf(a) # KeysOf(b)
        BY <2>6, SaltedKeys
    <2> QED BY <2>3, <2>4, <2>5, <2>7
<1> QED BY <1>3, <1>4, <1>5 DEF FileInv

LEMMA FileInvSafe == ASSUME FileConstants, FileInv PROVE Format!NeverOpensDamaged
<1>1. SUFFICES ASSUME NEW q \in Format!Damaged, NEW c, Format!Outcome(q, c) = "ok"
               PROVE  \E j \in DOMAIN v6 : Format!Payload(q) = v6[j].content
    BY DEF Format!NeverOpensDamaged
<1>2. v4 # <<>>
    <2>1. DOMAIN v4 # {}
        BY DEF Format!Damaged
    <2> QED BY <2>1
<1>3. Junk \in AnyPiece(Saved)
    BY DEF AnyPiece
<1>4. Made(q, AnyPiece(Saved))
    BY <1>2, <1>3, SavedApart, DamagedMade
<1>5. PICK l : IsList(q, l) /\ Range(q) \subseteq AnyPiece(Saved)
    BY <1>4 DEF Made
<1>6. \E a \in Saved : Format!Payload(q) = a.content
    BY <1>1, <1>5, SavedApart, WholeOrNothing
<1> QED BY <1>6 DEF Saved

LEMMA FileKept == ASSUME FileConstants PROVE FormatsSpec => [](subject = "KdbxFile" => FileInv)
<1> DEFINE Inv == subject = "KdbxFile" => FileInv
<1>1. FormatsInit => Inv
    BY FileInvInit DEF FormatsInit
<1>2. Inv /\ [FormatsNext]_<<subject, vars, shared>> => Inv'
    <2> SUFFICES ASSUME Inv, [FormatsNext]_<<subject, vars, shared>>, subject' = "KdbxFile" PROVE FileInv'
        OBVIOUS
    <2>1. subject' = subject
        BY DEF FormatsNext
    <2>2. FileInv
        BY <2>1
    <2>3. Format!Next \/ UNCHANGED <<v1, v2, v3, v4, v5, v6, v7>>
        BY <2>1 DEF FormatsNext, shared
    <2>4. CASE Format!Next
        BY <2>2, <2>4, FileInvNext
    <2>5. CASE UNCHANGED <<v1, v2, v3, v4, v5, v6, v7>>
        BY <2>2, <2>5 DEF FileInv
    <2> QED BY <2>3, <2>4, <2>5
<1> QED BY <1>1, <1>2, PTL DEF FormatsSpec

\* Whatever a disk or a sync client makes of a file (a save that was half done over the
\* older file or over nothing, a piece lost, repeated, moved or with other bytes), it
\* opens as the whole of one of the two saves or not at all.
THEOREM FormatsOpenWhole == ASSUME FileConstants PROVE FormatsSpec => []NeverOpensDamaged
<1>1. (subject = "KdbxFile" => FileInv) => NeverOpensDamaged
    BY FileInvSafe DEF NeverOpensDamaged
<1> QED BY <1>1, FileKept, PTL

-----------------------------------------------------------------------------
(* A file that nothing happened to.                                        *)

\* W has the fields of h, each once and in their order.
Fielded(W, h, n) ==
    /\ n \in 8..9 /\ (n = 9 <=> h.public # None)
    /\ DOMAIN W[1] = {"signature"}
    /\ DOMAIN W[2] = {"major", "minor"} /\ W[2].major = 4 /\ W[2].minor = h.minor
    /\ \A i \in 3..n : DOMAIN W[i] = {"field", "items"}
    /\ W[3].field = "CipherID" /\ W[3].items[1].value = h.cipher
    /\ W[4].field = "CompressionFlags" /\ W[4].items[1].value = h.compression
    /\ W[5].field = "MasterSeed" /\ W[5].items[1].value = h.seed
    /\ W[6].field = "EncryptionIV" /\ W[6].items[1].value = h.iv
    /\ W[7].field = "KdfParameters" /\ W[7].items = h.kdf
    /\ n = 9 => W[8].field = "PublicCustomData" /\ W[8].items = h.public
    /\ W[n].field = "EndOfHeader"

LEMMA HeaderFielded ==
    ASSUME NEW h, NEW W, W = Format!WriteHeader(h), NEW n, n = HeaderLen(h)
    PROVE  Fielded(W, h, n)
<1>1. /\ W[1] = [signature |-> "kdbx"]
      /\ W[2] = [major |-> 4, minor |-> h.minor]
      /\ W[3] = Format!One("CipherID", h.cipher)
      /\ W[4] = Format!One("CompressionFlags", h.compression)
      /\ W[5] = Format!One("MasterSeed", h.seed)
      /\ W[6] = Format!One("EncryptionIV", h.iv)
      /\ W[7] = Format!Field("KdfParameters", h.kdf)
      /\ h.public # None => W[8] = Format!Field("PublicCustomData", h.public)
      /\ W[n] = Format!Field("EndOfHeader", <<>>)
    BY HeaderPieces
<1>2. n \in 8..9 /\ (n = 9 <=> h.public # None)
    BY DEF HeaderLen
<1>3. \A id, items :
        /\ DOMAIN Format!Field(id, items) = {"field", "items"}
        /\ Format!Field(id, items).field = id /\ Format!Field(id, items).items = items
    BY DEF Format!Field
<1>4. \A id, v :
        /\ Format!One(id, v).field = id
        /\ Format!One(id, v).items[1].value = v
    BY DEF Format!One, Format!Field, Format!Item
<1>5. \A i \in 3..n : \E id, items : W[i] = Format!Field(id, items)
    BY HeaderFieldsOnly
<1>6. DOMAIN W[1] = {"signature"} /\ DOMAIN W[2] = {"major", "minor"} /\ W[2].major = 4 /\ W[2].minor = h.minor
    BY <1>1
<1>7. \A i \in 3..n : DOMAIN W[i] = {"field", "items"}
    BY <1>3, <1>5
<1>8. /\ W[3].field = "CipherID" /\ W[3].items[1].value = h.cipher
      /\ W[4].field = "CompressionFlags" /\ W[4].items[1].value = h.compression
      /\ W[5].field = "MasterSeed" /\ W[5].items[1].value = h.seed
      /\ W[6].field = "EncryptionIV" /\ W[6].items[1].value = h.iv
    BY <1>1, <1>4
<1>9. /\ W[7].field = "KdfParameters" /\ W[7].items = h.kdf
      /\ n = 9 => W[8].field = "PublicCustomData" /\ W[8].items = h.public
      /\ W[n].field = "EndOfHeader"
    BY <1>1, <1>2, <1>3
<1> QED BY <1>2, <1>6, <1>7, <1>8, <1>9 DEF Fielded

LEMMA FileFielded ==
    ASSUME NEW F, NEW W, NEW n, NEW K, NEW p, NEW m, LaidOut(F, W, n, K, p, m), NEW h, Fielded(W, h, n)
    PROVE  Fielded(F, h, n)
<1>1. n \in 8..9 /\ \A i \in 1..n : F[i] = W[i]
    BY DEF LaidOut
<1>2. F[1] = W[1] /\ F[2] = W[2] /\ F[3] = W[3] /\ F[4] = W[4] /\ F[5] = W[5] /\ F[6] = W[6] /\ F[7] = W[7]
    BY <1>1
<1>3. (n = 9 => F[8] = W[8]) /\ F[n] = W[n]
    BY <1>1
<1>4. \A i \in 3..n : F[i] = W[i]
    BY <1>1
<1> QED BY <1>2, <1>3, <1>4 DEF Fielded

LEMMA FieldNames ==
    ASSUME NEW F, NEW h, NEW n, Fielded(F, h, n)
    PROVE  /\ \A i \in 3..n : F[i].field = "CipherID" <=> i = 3
           /\ \A i \in 3..n : F[i].field = "CompressionFlags" <=> i = 4
           /\ \A i \in 3..n : F[i].field = "MasterSeed" <=> i = 5
           /\ \A i \in 3..n : F[i].field = "EncryptionIV" <=> i = 6
           /\ \A i \in 3..n : F[i].field = "KdfParameters" <=> i = 7
           /\ \A i \in 3..n : F[i].field = "PublicCustomData" <=> i = 8 /\ n = 9
           /\ \A i \in 3..n : F[i].field = "EndOfHeader" <=> i = n
<1>1. n \in 8..9
    BY DEF Fielded
<1>2. \A i \in 3..n : i \in {3, 4, 5, 6, 7, n} \/ (i = 8 /\ n = 9)
    BY <1>1
<1>3. n # 3 /\ n # 4 /\ n # 5 /\ n # 6 /\ n # 7
    BY <1>1
<1>4. /\ F[3].field = "CipherID" /\ F[4].field = "CompressionFlags" /\ F[5].field = "MasterSeed"
      /\ F[6].field = "EncryptionIV" /\ F[7].field = "KdfParameters"
      /\ n = 9 => F[8].field = "PublicCustomData"
      /\ F[n].field = "EndOfHeader"
    BY DEF Fielded
<1> QED BY <1>2, <1>3, <1>4

LEMMA HeaderFound ==
    ASSUME NEW F, NEW l, IsList(F, l), NEW h, NEW n, Fielded(F, h, n), n \in 1..l, h.minor <= 1
    PROVE  Format!EndPos(F) = n
<1> DEFINE Ends == {i \in DOMAIN F : Format!Is(F[i], "field") /\ F[i].field = "EndOfHeader"}
           e == CHOOSE i \in Ends : \A j \in Ends : i <= j
           names == {F[i].field : i \in 3..n}
<1>1. n \in 8..9 /\ l \in Nat /\ DOMAIN F = 1..l /\ Len(F) = l
    BY DEF Fielded, IsList
<1>2. \A i \in 3..n : Format!Is(F[i], "field")
    BY DEF Fielded, Format!Is
<1>3. n \in Ends
    <2>1. n \in 3..n
        BY <1>1
    <2> QED BY <1>1, <1>2, <2>1 DEF Fielded
<1>4. \A i \in Ends : n <= i
    <2>1. SUFFICES ASSUME NEW i \in Ends, ~(n <= i) PROVE FALSE
        OBVIOUS
    <2>2. i \in 1..l /\ "field" \in DOMAIN F[i] /\ F[i].field = "EndOfHeader"
        BY <1>1 DEF Format!Is
    <2>3. i = 1 \/ i = 2 \/ i \in 3..n
        BY <1>1, <2>1, <2>2
    <2>4. "field" \notin DOMAIN F[1] /\ "field" \notin DOMAIN F[2]
        BY DEF Fielded
    <2>5. i \in 3..n /\ i # n
        BY <1>1, <2>1, <2>2, <2>3, <2>4
    <2> QED BY <2>2, <2>5, FieldNames
<1>5. e = n
    <2>1. \A i \in Ends : (\A j \in Ends : i <= j) => i <= n /\ n <= i
        BY <1>3, <1>4
    <2>2. Ends \subseteq Nat
        BY <1>1
    <2> HIDE DEF Ends
    <2>3. e \in Ends /\ \A j \in Ends : e <= j
        BY <1>3, <1>4
    <2>4. e \in Nat /\ e <= n /\ n <= e
        BY <2>1, <2>2, <2>3
    <2> HIDE DEF e
    <2> QED BY <1>1, <2>4
<1>6. names \subseteq Format!Known
    <2>1. \A i \in 3..n : i \in {3, 4, 5, 6, 7, n} \/ (i = 8 /\ n = 9)
        BY <1>1
    <2>2. \A i \in 3..n : F[i].field \in {"CipherID", "CompressionFlags", "MasterSeed", "EncryptionIV",
                                          "KdfParameters", "PublicCustomData", "EndOfHeader"}
        BY <2>1, FieldNames
    <2> QED BY <2>2 DEF Format!Known
<1>7. Format!Required \subseteq names
    <2>1. 3 \in 3..n /\ 4 \in 3..n /\ 5 \in 3..n /\ 6 \in 3..n /\ 7 \in 3..n
        BY <1>1
    <2>2. /\ F[3].field = "CipherID" /\ F[4].field = "CompressionFlags" /\ F[5].field = "MasterSeed"
          /\ F[6].field = "EncryptionIV" /\ F[7].field = "KdfParameters"
        BY DEF Fielded
    <2> QED BY <2>1, <2>2 DEF Format!Required
<1>8. /\ Len(F) >= 2 /\ Ends # {}
      /\ Format!Is(F[1], "signature")
      /\ Format!Is(F[2], "major") /\ F[2].major = 4 /\ F[2].minor <= 1
    <2>1. Len(F) >= 2
        BY <1>1
    <2> QED BY <1>3, <2>1 DEF Fielded, Format!Is
<1>9. Format!EndPos(F) =
        IF /\ Len(F) >= 2 /\ Ends # {}
           /\ Format!Is(F[1], "signature")
           /\ Format!Is(F[2], "major") /\ F[2].major = 4 /\ F[2].minor <= 1
           /\ \A i \in 3..e : Format!Is(F[i], "field")
           /\ {F[i].field : i \in 3..e} \subseteq Format!Known
           /\ Format!Required \subseteq {F[i].field : i \in 3..e}
        THEN e ELSE 0
    BY DEF Format!EndPos
<1> HIDE DEF e, Ends
<1> QED BY <1>2, <1>5, <1>6, <1>7, <1>8, <1>9

\* The last field of a name, where there is one.
LastField(F, n, name) ==
    CHOOSE j \in {i \in 3..n : F[i].field = name} : \A k \in {i \in 3..n : F[i].field = name} : k <= j

LEMMA OnlyField ==
    ASSUME NEW F, NEW n \in 8..9, NEW name, NEW i \in 3..n, \A j \in 3..n : F[j].field = name <=> j = i
    PROVE  LastField(F, n, name) = i
<1>1. {j \in 3..n : F[j].field = name} = {i}
    OBVIOUS
<1>2. LastField(F, n, name) = CHOOSE j \in {i} : \A k \in {i} : k <= j
    BY <1>1 DEF LastField
<1> QED BY <1>2

LEMMA HeaderRead ==
    ASSUME NEW F, NEW h, NEW n, Fielded(F, h, n), Format!EndPos(F) = n, NEW r, r = Format!ReadHeader(F)
    PROVE  /\ r.minor = h.minor /\ r.cipher = h.cipher /\ r.compression = h.compression
           /\ r.seed = h.seed /\ r.iv = h.iv /\ r.kdf = h.kdf /\ r.public = h.public
<1>1. n \in 8..9 /\ (n = 9 <=> h.public # None)
    BY DEF Fielded
<1>2. 3 \in 3..n /\ 4 \in 3..n /\ 5 \in 3..n /\ 6 \in 3..n /\ 7 \in 3..n /\ (n = 9 => 8 \in 3..n)
    BY <1>1
<1>3. r = [minor |-> F[2].minor, cipher |-> F[LastField(F, n, "CipherID")].items[1].value,
           compression |-> F[LastField(F, n, "CompressionFlags")].items[1].value,
           seed |-> F[LastField(F, n, "MasterSeed")].items[1].value,
           iv |-> F[LastField(F, n, "EncryptionIV")].items[1].value,
           kdf |-> F[LastField(F, n, "KdfParameters")].items,
           public |-> IF {i \in 3..n : F[i].field = "PublicCustomData"} = {} THEN None
                      ELSE F[LastField(F, n, "PublicCustomData")].items]
    BY DEF Format!ReadHeader, LastField
<1>4. LastField(F, n, "CipherID") = 3
    BY <1>1, <1>2, FieldNames, OnlyField
<1>5. LastField(F, n, "CompressionFlags") = 4
    BY <1>1, <1>2, FieldNames, OnlyField
<1>6. LastField(F, n, "MasterSeed") = 5
    BY <1>1, <1>2, FieldNames, OnlyField
<1>7. LastField(F, n, "EncryptionIV") = 6
    BY <1>1, <1>2, FieldNames, OnlyField
<1>8. LastField(F, n, "KdfParameters") = 7
    BY <1>1, <1>2, FieldNames, OnlyField
<1>9. r.public = h.public
    <2>1. CASE n = 9
        <3>1. \A i \in 3..n : F[i].field = "PublicCustomData" <=> i = 8
            BY <2>1, FieldNames
        <3>2. LastField(F, n, "PublicCustomData") = 8
            BY <1>1, <1>2, <2>1, <3>1, OnlyField
        <3>3. {i \in 3..n : F[i].field = "PublicCustomData"} # {}
            BY <1>2, <2>1, <3>1
        <3>4. F[8].items = h.public
            BY <2>1 DEF Fielded
        <3> QED BY <1>3, <3>2, <3>3, <3>4
    <2>2. CASE n # 9
        <3>1. {i \in 3..n : F[i].field = "PublicCustomData"} = {}
            BY <2>2, FieldNames
        <3>2. h.public = None
            BY <1>1, <2>2
        <3> QED BY <1>3, <3>1, <3>2
    <2> QED BY <2>1, <2>2
<1>10. r.minor = F[2].minor /\ r.cipher = F[3].items[1].value /\ r.compression = F[4].items[1].value
    BY <1>3, <1>4, <1>5
<1>11. r.seed = F[5].items[1].value /\ r.iv = F[6].items[1].value /\ r.kdf = F[7].items
    BY <1>3, <1>6, <1>7, <1>8
<1> QED BY <1>9, <1>10, <1>11 DEF Fielded

\* The blocks of a save are verified with its keys, and give its payload.
LEMMA BlocksRead ==
    ASSUME NEW K, NEW p, NEW m, IsList(p, m), \A i \in 1..m : p[i] # None,
           NEW B, IsList(B, m + 1), \A i \in 1..m : B[i] = Format!Block(K, i - 1, p[i]),
           B[m + 1] = Format!Block(K, m, None)
    PROVE  Format!Verified(K, B) /\ Format!Data(B) = p
<1> DEFINE Ends == {i \in DOMAIN B : Format!Is(B[i], "data") /\ B[i].data = None}
           e == CHOOSE i \in Ends : \A j \in Ends : i <= j
           Q(i) == /\ Format!Is(B[i], "data") /\ B[i].data = None
                   /\ \A j \in 1..(i - 1) : B[j].data # None
           d == CHOOSE i \in DOMAIN B : Q(i)
<1>1. m \in Nat /\ DOMAIN B = 1..(m + 1) /\ DOMAIN p = 1..m /\ p \in Seq(Range(p))
    BY DEF IsList
<1>2. \A i, x : /\ Format!Is(Format!Block(K, i, x), "data")
                /\ Format!Block(K, i, x).data = x
                /\ Format!Block(K, i, x).mac = <<K, i, x>>
    BY DEF Format!Is, Format!Block
<1>3. \A i \in 1..m : /\ Format!Is(B[i], "data") /\ B[i].data = p[i] /\ B[i].data # None
                      /\ B[i].mac = <<K, i - 1, B[i].data>>
    BY <1>2
<1>4. Format!Is(B[m + 1], "data") /\ B[m + 1].data = None /\ m + 1 \in DOMAIN B
    BY <1>1, <1>2
<1>5. \A i \in DOMAIN B : i \in 1..m \/ i = m + 1
    BY <1>1
<1>6. Ends = {m + 1}
    BY <1>3, <1>4, <1>5
<1>7. e = m + 1
    <2>1. e = CHOOSE i \in {m + 1} : \A j \in {m + 1} : i <= j
        BY <1>6
    <2>2. m + 1 <= m + 1
        BY <1>1
    <2> HIDE DEF e
    <2> QED BY <2>1, <2>2
<1>8. \A i \in 1..(e - 1) : Format!Is(B[i], "data") /\ B[i].mac = <<K, i - 1, B[i].data>>
    <2>1. e - 1 = m
        <3> HIDE DEF e
        <3> QED BY <1>1, <1>7
    <2> HIDE DEF e
    <2> QED BY <1>3, <2>1
<1>9. Format!Verified(K, B)
    BY <1>6, <1>8 DEF Format!Verified
<1>10. d = m + 1
    <2>1. Q(m + 1)
        <3>1. (m + 1) - 1 = m
            BY <1>1
        <3> QED BY <1>3, <1>4, <3>1
    <2>2. \A i \in DOMAIN B : Q(i) => i = m + 1
        BY <1>3, <1>5
    <2>3. d \in DOMAIN B /\ Q(d)
        BY <1>4, <2>1
    <2> HIDE DEF d, Q
    <2> QED BY <2>2, <2>3
<1>11. Format!Data(B) = [i \in 1..(d - 1) |-> B[i].data]
    BY DEF Format!Data
<1> HIDE DEF d, e, Ends
<1>12. d - 1 = m
    BY <1>1, <1>10
<1>13. Format!Data(B) = [i \in 1..m |-> p[i]]
    BY <1>3, <1>11, <1>12
<1>14. p = [i \in 1..m |-> p[i]]
    <2>1. p \in [1..m -> Range(p)]
        BY <1>1, LenProperties DEF IsList
    <2> QED BY <2>1
<1> QED BY <1>9, <1>13, <1>14

LEMMA FreshFile ==
    ASSUME FileConstants, NEW a, a.content \in Payloads, Format!Supported(a.header), NEW F, F = FileOf(a)
    PROVE  LET n == HeaderLen(a.header)
               r == Format!ReadHeader(F)
               rest == SubSeq(F, n + 3, Len(F))
           IN  /\ Format!EndPos(F) = n /\ n \in 8..9 /\ Len(F) \in Nat /\ ~(Len(F) <= n + 2)
               /\ SubSeq(F, 1, n) = Format!WriteHeader(a.header)
               /\ F[n + 1] = [hash |-> Format!WriteHeader(a.header)]
               /\ F[n + 2] = [hmac |-> KeysOf(a), over |-> Format!WriteHeader(a.header)]
               /\ r.minor = a.header.minor /\ r.cipher = a.header.cipher
               /\ r.compression = a.header.compression /\ r.seed = a.header.seed
               /\ r.iv = a.header.iv /\ r.kdf = a.header.kdf /\ r.public = a.header.public
               /\ Format!Verified(KeysOf(a), rest) /\ Format!Data(rest) = a.content
<1>1. PICK W, n, K, p, m :
        /\ W = Format!WriteHeader(a.header) /\ n = HeaderLen(a.header)
        /\ K = KeysOf(a) /\ p = a.content /\ m = Len(a.content)
    OBVIOUS
<1>2. LaidOut(F, W, n, K, p, m)
    BY <1>1, SavedFile
<1>3. n \in 8..9 /\ m \in Nat /\ IsList(W, n) /\ IsList(F, n + 2 + (m + 1))
    BY <1>2 DEF LaidOut
<1>4. Fielded(F, a.header, n)
    <2>1. Fielded(W, a.header, n)
        BY <1>1, HeaderFielded
    <2> QED BY <1>2, <2>1, FileFielded
<1>5. Len(F) = n + 2 + (m + 1) /\ n \in 1..(n + 2 + (m + 1)) /\ ~(Len(F) <= n + 2) /\ Len(F) \in Nat
    <2>1. Len(F) = n + 2 + (m + 1)
        BY <1>3 DEF IsList
    <2> QED BY <1>3, <2>1
<1>6. Format!EndPos(F) = n
    <2>1. a.header.minor <= 1
        BY DEF Format!Supported
    <2> QED BY <1>3, <1>4, <1>5, <2>1, HeaderFound
<1>7. PICK r : r = Format!ReadHeader(F)
    OBVIOUS
<1>8. /\ r.minor = a.header.minor /\ r.cipher = a.header.cipher
      /\ r.compression = a.header.compression /\ r.seed = a.header.seed
      /\ r.iv = a.header.iv /\ r.kdf = a.header.kdf /\ r.public = a.header.public
    BY <1>4, <1>6, <1>7, HeaderRead
<1>9. SubSeq(F, 1, n) = W
    <2>1. PICK l : l = n + 2 + (m + 1)
        OBVIOUS
    <2>2. IsList(F, l) /\ 1 \in 1..(l + 1) /\ n \in (1 - 1)..l
        BY <1>3, <2>1
    <2>3. /\ IsList(SubSeq(F, 1, n), n - 1 + 1)
          /\ \A i \in 1..(n - 1 + 1) : SubSeq(F, 1, n)[i] = F[1 + i - 1]
        BY <2>2, Cut
    <2>4. n - 1 + 1 = n /\ \A i \in 1..n : 1 + i - 1 = i
        BY <1>3
    <2>5. IsList(SubSeq(F, 1, n), n) /\ \A i \in 1..n : SubSeq(F, 1, n)[i] = W[i]
        BY <1>2, <2>3, <2>4 DEF LaidOut
    <2> QED BY <1>3, <2>5, SameList
<1>10. Format!Verified(K, SubSeq(F, n + 3, Len(F))) /\ Format!Data(SubSeq(F, n + 3, Len(F))) = p
    <2>1. PICK l : l = n + 2 + (m + 1)
        OBVIOUS
    <2>2. IsList(F, l) /\ n + 3 \in 1..(l + 1) /\ l \in ((n + 3) - 1)..l /\ Len(F) = l
        BY <1>3, <1>5, <2>1
    <2>3. PICK B : B = SubSeq(F, n + 3, l)
        OBVIOUS
    <2>4. /\ IsList(SubSeq(F, n + 3, l), l - (n + 3) + 1)
          /\ \A i \in 1..(l - (n + 3) + 1) : SubSeq(F, n + 3, l)[i] = F[(n + 3) + i - 1]
        BY <2>2, Cut
    <2>5. l - (n + 3) + 1 = m + 1 /\ \A i \in 1..(m + 1) : (n + 3) + i - 1 = n + 2 + i
        BY <1>3, <2>1
    <2>6. IsList(B, m + 1) /\ \A i \in 1..(m + 1) : B[i] = F[n + 2 + i]
        BY <2>3, <2>4, <2>5
    <2>7. (\A i \in 1..m : i \in 1..(m + 1)) /\ m + 1 \in 1..(m + 1) /\ n + 2 + (m + 1) = n + 2 + m + 1
        BY <1>3
    <2>8. /\ \A i \in 1..m : B[i] = Format!Block(K, i - 1, p[i])
          /\ B[m + 1] = Format!Block(K, m, None)
        BY <1>2, <2>6, <2>7 DEF LaidOut
    <2>9. IsList(p, m) /\ \A i \in 1..m : p[i] # None
        BY <1>1, PayloadList
    <2>10. Format!Verified(K, B) /\ Format!Data(B) = p
        BY <2>6, <2>8, <2>9, BlocksRead
    <2> QED BY <2>2, <2>3, <2>10
<1>11. F[n + 1] = [hash |-> W] /\ F[n + 2] = [hmac |-> K, over |-> W]
    BY <1>2 DEF LaidOut
<1> QED BY <1>1, <1>3, <1>5, <1>6, <1>7, <1>8, <1>9, <1>10, <1>11

LEMMA FreshOpens ==
    ASSUME FileConstants, NEW a, a.content \in Payloads, Format!Supported(a.header), NEW F, F = FileOf(a),
           NEW c, Format!Accepted(c)
    PROVE  IF Format!CredentialHash(c) = Format!CredentialHash(a.credentials)
           THEN /\ Format!Outcome(F, c) = "ok"
                /\ Format!Payload(F) = a.content
                /\ \A f \in {"minor", "cipher", "compression", "kdf", "public", "iv"} :
                        Format!Opened(F)[f] = a.header[f]
           ELSE Format!Outcome(F, c) = "InvalidKey"
<1>1. PICK n, r, W, rest :
        /\ n = HeaderLen(a.header) /\ r = Format!ReadHeader(F) /\ W = Format!WriteHeader(a.header)
        /\ rest = SubSeq(F, n + 3, Len(F))
    OBVIOUS
<1>2. /\ Format!EndPos(F) = n /\ n \in 8..9 /\ ~(Len(F) <= n + 2)
      /\ SubSeq(F, 1, n) = W
      /\ F[n + 1] = [hash |-> W]
      /\ F[n + 2] = [hmac |-> KeysOf(a), over |-> W]
      /\ Format!Verified(KeysOf(a), rest) /\ Format!Data(rest) = a.content
    BY <1>1, FreshFile
<1>3. /\ r.minor = a.header.minor /\ r.cipher = a.header.cipher
      /\ r.compression = a.header.compression /\ r.seed = a.header.seed
      /\ r.iv = a.header.iv /\ r.kdf = a.header.kdf /\ r.public = a.header.public
    BY <1>1, FreshFile
<1>4. n # 0 /\ Format!Is(F[n + 1], "hash") /\ Format!Derivable(r.kdf)
      /\ r.cipher \in {"Aes", "ChaCha20"}
    BY <1>2, <1>3 DEF Format!Is, Format!Supported
<1>5. /\ Format!Keys(r, c).seed = a.header.seed /\ KeysOf(a).seed = a.header.seed
      /\ Format!Keys(r, c).credentials = Format!CredentialHash(c)
      /\ KeysOf(a).credentials = Format!CredentialHash(a.credentials)
    BY <1>3 DEF Format!Keys, KeysOf
<1>6. Format!Outcome(F, c) =
        IF F[n + 2] # [hmac |-> Format!Keys(r, c), over |-> W] THEN "InvalidKey"
        ELSE IF ~Format!Verified(Format!Keys(r, c), rest) THEN "FileCorrupt"
        ELSE IF ~Format!Readable(Format!Data(rest), r.compression) THEN "FileCorrupt"
        ELSE "ok"
    BY <1>1, <1>2, <1>4 DEF Format!Outcome
<1>7. CASE Format!CredentialHash(c) = Format!CredentialHash(a.credentials)
    <2>1. Format!Keys(r, c) = KeysOf(a)
        BY <1>3, <1>7 DEF Format!Keys, KeysOf
    <2>2. Format!Readable(Format!Data(rest), r.compression)
        BY <1>2 DEF Format!Readable
    <2>3. Format!Outcome(F, c) = "ok"
        BY <1>2, <1>6, <2>1, <2>2
    <2>4. Format!Payload(F) = a.content
        BY <1>1, <1>2 DEF Format!Payload
    <2>5. \A f \in {"minor", "cipher", "compression", "kdf", "public", "iv"} : Format!Opened(F)[f] = a.header[f]
        <3>1. Format!Opened(F) = [r EXCEPT !.seed = "zeroed"]
            BY <1>1 DEF Format!Opened
        <3>2. DOMAIN r = {"minor", "cipher", "compression", "seed", "iv", "kdf", "public"}
            BY <1>1 DEF Format!ReadHeader
        <3>3. \A f \in {"minor", "cipher", "compression", "kdf", "public", "iv"} : Format!Opened(F)[f] = r[f]
            BY <3>1, <3>2
        <3> QED BY <1>3, <3>3
    <2> QED BY <1>7, <2>3, <2>4, <2>5
<1>8. CASE Format!CredentialHash(c) # Format!CredentialHash(a.credentials)
    <2>1. Format!Keys(r, c) # KeysOf(a)
        BY <1>5, <1>8
    <2>2. F[n + 2] # [hmac |-> Format!Keys(r, c), over |-> W]
        <3>1. F[n + 2].hmac = KeysOf(a)
            BY <1>2
        <3> QED BY <2>1, <3>1
    <2> QED BY <1>6, <1>8, <2>2
<1> QED BY <1>7, <1>8

LEMMA FileInvOpens == ASSUME FileConstants, FileInv PROVE Format!OpensAsSealed
<1>1. SUFFICES ASSUME v4 # <<>>, Format!Supported(v6[1].header), NEW c, Format!Accepted(c)
               PROVE  IF Format!CredentialHash(c) = Format!CredentialHash(v6[1].credentials)
                      THEN /\ Format!Outcome(v4, c) = "ok"
                           /\ Format!Payload(v4) = v6[1].content
                           /\ \A f \in {"minor", "cipher", "compression", "kdf", "public", "iv"} :
                                   Format!Opened(v4)[f] = v6[1].header[f]
                      ELSE Format!Outcome(v4, c) = "InvalidKey"
    BY DEF Format!OpensAsSealed
<1>2. v4 = FileOf(v6[1]) /\ v6[1].content \in Payloads
    BY <1>1 DEF FileInv, SealedAt
<1>3. PICK a, F : a = v6[1] /\ F = v4
    OBVIOUS
<1>4. F = FileOf(a) /\ a.content \in Payloads /\ Format!Supported(a.header)
    BY <1>1, <1>2, <1>3
<1> QED BY <1>1, <1>3, <1>4, FreshOpens

\* A file that nothing happened to opens with the credentials it was sealed with, in any
\* form of its key file, with the payload and the settings it had; others are told of a
\* wrong key.
THEOREM FormatsOpenAsSealed == ASSUME FileConstants PROVE FormatsSpec => []OpensAsSealed
<1>1. (subject = "KdbxFile" => FileInv) => OpensAsSealed
    BY FileInvOpens DEF OpensAsSealed
<1> QED BY <1>1, FileKept, PTL

-----------------------------------------------------------------------------
(* The strings of an entry (ProtectedText): what is written is read back.  *)

\* The elements that take a salt are the same on both sides, so both read the same salts.
LEMMA TakersAgree ==
    {p \in DOMAIN Text!Texts : Text!Taking(Text!Texts[p])} = Text!Takers
<1>1. DOMAIN Text!Texts = Text!Places
    BY DEF Text!Texts
<1>2. ASSUME NEW p \in Text!Places
      PROVE  Text!Taking(Text!Texts[p]) <=> Text!At(p).obj # None /\ v2[Text!At(p).obj].text # ""
    <2>1. CASE Text!At(p).obj = None
        <3>1. Text!Texts[p] = Text!Element(Text!At(p).text, 0, FALSE)
            BY <1>2, <2>1 DEF Text!Texts
        <3>2. ~Text!Texts[p].protected
            BY <3>1 DEF Text!Element
        <3> QED BY <2>1, <3>2, Zenon DEF Text!Taking
    <2>2. CASE Text!At(p).obj # None
        <3>1. Text!Texts[p] = Text!Element(v2[Text!At(p).obj].text, Text!SaltAt(p, Text!Takers), TRUE)
            BY <1>2, <2>2 DEF Text!Texts
        <3>2. Text!Texts[p].text = v2[Text!At(p).obj].text /\ Text!Texts[p].protected
            BY <3>1 DEF Text!Element
        <3> QED BY <2>2, <3>2, Zenon DEF Text!Taking
    <2> QED BY <2>1, <2>2
<1>3. Text!Takers = {p \in Text!Places : Text!At(p).obj # None /\ v2[Text!At(p).obj].text # ""}
    BY Zenon DEF Text!Takers
<1>4. \A p \in Text!Places : Text!Taking(Text!Texts[p]) <=> p \in Text!Takers
    BY <1>2, <1>3, Zenon
<1>5. Text!Takers \subseteq Text!Places
    BY <1>3, Zenon
<1> QED BY <1>1, <1>4, <1>5


\* A plain text is read without its control characters.
LEMMA PlainRead ==
    ASSUME NEW p \in Text!Places, Text!At(p).obj = None
    PROVE  /\ Text!Decrypted(Text!Texts)[p].text = Text!Stripped(Text!At(p).text)
           /\ Text!Decrypted(Text!Texts)[p].protected = FALSE
<1>1. DOMAIN Text!Texts = Text!Places
    BY DEF Text!Texts
<1>2. Text!Texts[p] = Text!Element(Text!At(p).text, 0, FALSE)
    BY DEF Text!Texts
<1>3. Text!Texts[p].protected = FALSE /\ Text!Texts[p].text = Text!At(p).text
    BY <1>2 DEF Text!Element
<1>4. ~Text!Taking(Text!Texts[p])
    BY <1>3, Zenon DEF Text!Taking
<1>5. Text!Decrypted(Text!Texts)[p] = Text!Element(Text!Stripped(Text!At(p).text), 0, FALSE)
    BY <1>1, <1>3, <1>4 DEF Text!Decrypted
<1> QED BY <1>5 DEF Text!Element

\* A protected text is read as it was, with its protection when it is not empty.
LEMMA ProtectedRead ==
    ASSUME NEW p \in Text!Places, Text!At(p).obj # None, NEW t, t = v2[Text!At(p).obj].text
    PROVE  /\ Text!Decrypted(Text!Texts)[p].text = t
           /\ Text!Decrypted(Text!Texts)[p].protected = (t # "")
<1> DEFINE q == Text!Texts[p]
<1>1. DOMAIN Text!Texts = Text!Places
    BY DEF Text!Texts
<1>2. q = Text!Element(t, Text!SaltAt(p, Text!Takers), TRUE)
    BY DEF Text!Texts
<1> HIDE DEF q
<1>3. q.protected = TRUE /\ q.text = t /\ q.salt = Text!SaltAt(p, Text!Takers)
    BY <1>2 DEF Text!Element
<1>4. Text!Taking(q) <=> t # ""
    BY <1>3, Zenon DEF Text!Taking
<1>5. Text!Decrypted(Text!Texts)[p] =
        IF ~Text!Taking(q) THEN Text!Element(Text!Stripped(t), 0, FALSE)
        ELSE Text!Element(IF q.salt = Text!SaltAt(p, Text!Takers) THEN t ELSE "garbage", q.salt, TRUE)
    BY <1>1, <1>3, TakersAgree DEF q, Text!Decrypted
<1>6. CASE ~Text!Taking(q)
    <2>1. t = ""
        BY <1>4, <1>6, Zenon
    <2>2. Text!Stripped(t) = t
        BY <2>1, Zenon DEF Text!Stripped
    <2>3. Text!Decrypted(Text!Texts)[p] = Text!Element(t, 0, FALSE)
        BY <1>5, <1>6, <2>2
    <2>4. PICK e : e = Text!Decrypted(Text!Texts)[p]
        OBVIOUS
    <2>5. e.text = t /\ e.protected = FALSE
        BY <2>3, <2>4 DEF Text!Element
    <2> QED BY <2>1, <2>4, <2>5, Zenon
<1>7. CASE Text!Taking(q)
    <2>1. Text!Decrypted(Text!Texts)[p] = Text!Element(t, q.salt, TRUE)
        BY <1>3, <1>5, <1>7
    <2>2. Text!Decrypted(Text!Texts)[p].text = t /\ Text!Decrypted(Text!Texts)[p].protected = TRUE
        BY <2>1 DEF Text!Element
    <2> QED BY <1>4, <1>7, <2>2, Zenon
<1> QED BY <1>6, <1>7

\* The elements of an exported XML are plain, and lose their control characters.
LEMMA ExportRead ==
    ASSUME NEW p \in Text!Places, NEW e, e = Text!Protected(Text!Unprotected)[p]
    PROVE  /\ Text!At(p).obj = None => e.text = Text!Stripped(Text!At(p).text) /\ e.protected = FALSE
           /\ Text!At(p).obj # None => e.text = Text!Stripped(v2[Text!At(p).obj].text) /\ e.protected = TRUE
<1>1. DOMAIN Text!Unprotected = Text!Places
    BY DEF Text!Unprotected
<1>2. PICK q : q = Text!Unprotected[p]
    OBVIOUS
<1>3. e = Text!Element(Text!Stripped(q.text), q.salt, q.protected)
    BY <1>1, <1>2 DEF Text!Protected
<1>4. e.text = Text!Stripped(q.text) /\ e.protected = q.protected
    BY <1>3 DEF Text!Element
<1>5. CASE Text!At(p).obj = None
    <2>1. q = Text!Element(Text!At(p).text, 0, FALSE)
        BY <1>2, <1>5 DEF Text!Unprotected
    <2>2. q.text = Text!At(p).text /\ q.protected = FALSE
        BY <2>1 DEF Text!Element
    <2> QED BY <1>4, <1>5, <2>2
<1>6. CASE Text!At(p).obj # None
    <2>1. q = Text!Element(v2[Text!At(p).obj].text, 0, TRUE)
        BY <1>2, <1>6 DEF Text!Unprotected
    <2>2. q.text = v2[Text!At(p).obj].text /\ q.protected = TRUE
        BY <2>1 DEF Text!Element
    <2> QED BY <1>4, <1>6, <2>2
<1> QED BY <1>5, <1>6


\* What the strings say where a value is plain and where it is protected.
LEMMA StringRead ==
    ASSUME NEW p \in Text!Places, NEW r, r = Text!Reading[p]
    PROVE  /\ Text!At(p).obj = None => r.text = Text!At(p).text /\ r.protected = FALSE
           /\ Text!At(p).obj # None => r.text = v2[Text!At(p).obj].text /\ r.protected = TRUE
<1>1. CASE Text!At(p).obj = None
    <2>1. r = [text |-> Text!At(p).text, protected |-> FALSE]
        BY <1>1 DEF Text!Reading
    <2>2. r.text = Text!At(p).text /\ r.protected = FALSE
        BY <2>1
    <2> QED BY <1>1, <2>2
<1>2. CASE Text!At(p).obj # None
    <2>1. r = [text |-> v2[Text!At(p).obj].text, protected |-> TRUE]
        BY <1>2 DEF Text!Reading
    <2>2. r.text = v2[Text!At(p).obj].text /\ r.protected = TRUE
        BY <2>1
    <2> QED BY <1>2, <2>2
<1> QED BY <1>1, <1>2

\* What is read at a place of a saved database and of an exported one.
ReadAs(r, e, exact, kept) ==
    /\ e.text = IF exact THEN r.text ELSE Text!Stripped(r.text)
    /\ e.protected = (r.protected /\ (kept \/ e.text # ""))

LEMMA SavedRead ==
    ASSUME NEW p \in Text!Places, NEW r, r = Text!Reading[p], NEW e, e = Text!Decrypted(Text!Texts)[p]
    PROVE  ReadAs(r, e, r.protected /\ ~FALSE, FALSE)
<1>1. CASE Text!At(p).obj = None
    <2>1. r.text = Text!At(p).text /\ r.protected = FALSE
        BY <1>1, StringRead
    <2>2. e.text = Text!Stripped(Text!At(p).text) /\ e.protected = FALSE
        BY <1>1, PlainRead
    <2> QED BY <2>1, <2>2, Zenon DEF ReadAs
<1>2. CASE Text!At(p).obj # None
    <2>1. PICK t : t = v2[Text!At(p).obj].text
        OBVIOUS
    <2>2. r.text = t /\ r.protected = TRUE
        BY <1>2, <2>1, StringRead
    <2>3. e.text = t /\ e.protected = (t # "")
        BY <1>2, <2>1, ProtectedRead
    <2> QED BY <2>2, <2>3, Zenon DEF ReadAs
<1> QED BY <1>1, <1>2

LEMMA ExportedRead ==
    ASSUME NEW p \in Text!Places, NEW r, r = Text!Reading[p], NEW e, e = Text!Protected(Text!Unprotected)[p]
    PROVE  ReadAs(r, e, r.protected /\ ~TRUE, TRUE)
<1>1. CASE Text!At(p).obj = None
    <2>1. r.text = Text!At(p).text /\ r.protected = FALSE
        BY <1>1, StringRead
    <2>2. e.text = Text!Stripped(Text!At(p).text) /\ e.protected = FALSE
        BY <1>1, ExportRead
    <2> QED BY <2>1, <2>2, Zenon DEF ReadAs
<1>2. CASE Text!At(p).obj # None
    <2>1. r.text = v2[Text!At(p).obj].text /\ r.protected = TRUE
        BY <1>2, StringRead
    <2>2. e.text = Text!Stripped(v2[Text!At(p).obj].text) /\ e.protected = TRUE
        BY <1>2, ExportRead
    <2> QED BY <2>1, <2>2, Zenon DEF ReadAs
<1> QED BY <1>1, <1>2

LEMMA StringsKeptNext == ASSUME Text!StringsKept, Text!Next PROVE Text!StringsKept'
<1>1. CASE Text!Save \/ Text!SaveXml
    <2>1. SUFFICES ASSUME v3' # None
                   PROVE  /\ DOMAIN Text!Opened' = DOMAIN v4'
                          /\ \A p \in DOMAIN v4' :
                                ReadAs(v4'[p], Text!Opened'[p], v4'[p].protected /\ ~v3'.xml, v3'.xml)
        BY Zenon DEF Text!StringsKept, ReadAs
    <2>2. v4' = Text!Reading /\ DOMAIN v4' = Text!Places /\ v1' = v1
        BY <1>1 DEF Text!Save, Text!SaveXml, Text!Reading
    <2>3. CASE Text!Save
        <3>1. v3'.xml = FALSE /\ v3'.texts = Text!Texts
            BY <2>3 DEF Text!Save
        <3>2. Text!Opened' = Text!Decrypted(Text!Texts)
            BY <2>2, <3>1 DEF Text!Opened, Text!Decrypted, Text!SaltAt, Text!Before, Text!Rank
        <3>3. DOMAIN Text!Opened' = Text!Places
            BY <3>2 DEF Text!Decrypted, Text!Texts
        <3> QED BY <2>2, <3>1, <3>2, <3>3, SavedRead, Zenon
    <2>4. CASE Text!SaveXml
        <3>1. v3'.xml = TRUE /\ v3'.texts = Text!Unprotected
            BY <2>4 DEF Text!SaveXml
        <3>2. Text!Opened' = Text!Protected(Text!Unprotected)
            BY <3>1 DEF Text!Opened, Text!Protected
        <3>3. DOMAIN Text!Opened' = Text!Places
            BY <3>2 DEF Text!Protected, Text!Unprotected
        <3> QED BY <2>2, <3>1, <3>2, <3>3, ExportedRead, Zenon
    <2> QED BY <1>1, <2>3, <2>4
<1>2. CASE Text!Continue \/ Text!Load
    BY <1>2 DEF Text!Continue, Text!Load, Text!StringsKept
<1>3. CASE Text!PushHistory \/ \E k \in FieldNumbers : Text!RemoveField(k)
                            \/ \E t \in {"", "t", "t~"}, b \in BOOLEAN : Text!SetField(k, t, b)
    <2>1. v3 = None /\ v3' = None
        BY <1>3, Zenon DEF Text!PushHistory, Text!RemoveField, Text!SetField, Text!Step
    <2> QED BY <2>1 DEF Text!StringsKept
<1> QED BY <1>1, <1>2, <1>3, Zenon DEF Text!Next

-----------------------------------------------------------------------------
(* The elements of a database (KdbxXml): what is written is read back.     *)

\* The versions of the format, and that None is neither one of the
\* strings nor an object.
Strings == {"empty", "0", "5", "null", "True", "False", "d", "d.5", "zero", "u", "random", "b",
            "t", "t~", "a", "a, b", "a;b"}
XmlConstants ==
    /\ XmlMinors \subseteq {0, 1}
    /\ None \notin Strings
    /\ \A S, T : None \notin [S -> T]

Kinds == {"text", "number", "zeroed", "flag", "plainFlag", "yes", "date", "uuid", "own", "bytes", "tags"}
\* What a field can hold: a value of its kind, or the identity that an object without
\* one was given.
Holds(kind, v) == v \in Xml!Values[kind] \/ (kind = "own" /\ v = "random")

LEMMA KindsOf ==
    ASSUME NEW c \in DOMAIN Xml!Classes, NEW f \in DOMAIN Xml!Classes[c]
    PROVE  Xml!Classes[c][f] \in Kinds
<1>1. \A g \in DOMAIN Xml!Times : Xml!Times[g] \in Kinds
    BY DEF Xml!Times, Kinds
<1>2. \A g \in DOMAIN Xml!AutoType : Xml!AutoType[g] \in Kinds
    BY DEF Xml!AutoType, Kinds
<1>3. \A g \in DOMAIN Xml!AutoTypeItem : Xml!AutoTypeItem[g] \in Kinds
    BY DEF Xml!AutoTypeItem, Kinds
<1>4. \A g \in DOMAIN Xml!Entry : Xml!Entry[g] \in Kinds
    BY DEF Xml!Entry, Kinds
<1>5. \A g \in DOMAIN Xml!Group : Xml!Group[g] \in Kinds
    BY DEF Xml!Group, Kinds
<1>6. \A g \in DOMAIN Xml!Meta : Xml!Meta[g] \in Kinds
    BY DEF Xml!Meta, Kinds
<1>7. \A g \in DOMAIN Xml!MemoryProtection : Xml!MemoryProtection[g] \in Kinds
    BY DEF Xml!MemoryProtection, Kinds
<1>8. \A g \in DOMAIN Xml!CustomIcon : Xml!CustomIcon[g] \in Kinds
    BY DEF Xml!CustomIcon, Kinds
<1>9. \A g \in DOMAIN Xml!CustomDataItem : Xml!CustomDataItem[g] \in Kinds
    BY DEF Xml!CustomDataItem, Kinds
<1>10. \A g \in DOMAIN Xml!DeletedObject : Xml!DeletedObject[g] \in Kinds
    BY DEF Xml!DeletedObject, Kinds
<1>11. Xml!Classes[c] \in {Xml!Times, Xml!AutoType, Xml!AutoTypeItem, Xml!Entry, Xml!Group, Xml!Meta,
                           Xml!MemoryProtection, Xml!CustomIcon, Xml!CustomDataItem, Xml!DeletedObject}
    BY DEF Xml!Classes
<1> QED BY <1>1, <1>2, <1>3, <1>4, <1>5, <1>6, <1>7, <1>8, <1>9, <1>10, <1>11

LEMMA ValuesOf ==
    /\ Xml!Values["text"] = {None, "empty", "t", "t~"}
    /\ Xml!Values["number"] = {None, "0", "5"}
    /\ Xml!Values["zeroed"] = {None, "0", "5"}
    /\ Xml!Values["flag"] = {None, "null", "True", "False"}
    /\ Xml!Values["plainFlag"] = {None, "True", "False"}
    /\ Xml!Values["yes"] = {"True", "False"}
    /\ Xml!Values["date"] = {None, "d", "d.5"}
    /\ Xml!Values["uuid"] = {None, "zero", "u"}
    /\ Xml!Values["own"] = {"zero", "u"}
    /\ Xml!Values["bytes"] = {None, "empty", "b"}
    /\ Xml!Values["tags"] = {"empty", "a", "a, b", "a;b"}
BY DEF Xml!Values

\* An undefined value may come back as an empty text, a zero or a flag.
LEMMA FromUndefined ==
    ASSUME NEW v, v = None, NEW w, w \in {"empty", "0", "True", None}, NEW c, NEW f
    PROVE  Xml!Same(c, f, v, w)
BY DEF Xml!Same

\* What is read of an element that was written.
LEMMA WrittenBack ==
    ASSUME XmlConstants, NEW kind \in Kinds, NEW v, Holds(kind, v),
           NEW w, w = Xml!FromXml(kind, Xml!ToXml(kind, v)),
           NEW c, NEW f
    PROVE  Holds(kind, w) /\ Xml!Same(c, f, v, w) /\ (kind \in {"text", "bytes"} /\ Xml!Nothing(w) => Xml!Nothing(v))
<1>0. None \notin {"empty", "0", "5", "null", "True", "False", "d", "d.5", "zero", "u", "random", "b",
                   "t", "t~", "a", "a, b", "a;b"}
    BY DEF XmlConstants, Strings
<1> DEFINE t == Xml!ToXml(kind, v)
<1> USE DEF Xml!Nothing
<1>1. CASE kind = "text"
    <2>1. v \in {None, "empty", "t", "t~"}
        BY <1>1, ValuesOf DEF Holds
    <2>2. t = IF v = None THEN "empty" ELSE v
        BY <1>1 DEF Xml!ToXml
    <2>3. w = Xml!Stripped(t)
        BY <1>1 DEF Xml!FromXml
    <2> HIDE DEF t
    <2>4. w = IF v = None \/ v = "empty" THEN "empty" ELSE IF v = "t~" THEN "t" ELSE v
        BY <1>0, <2>1, <2>2, <2>3 DEF Xml!Stripped
    <2>5. Holds(kind, w)
        BY <1>1, <2>1, <2>4, ValuesOf DEF Holds
    <2>6. v = None => Xml!Same(c, f, v, w)
        BY <2>1, <2>4, FromUndefined
    <2>7. v # None => Xml!Same(c, f, v, w)
        BY <2>1, <2>4, <1>0 DEF Xml!Same
    <2>8. Xml!Nothing(w) => Xml!Nothing(v)
        BY <1>0, <2>1, <2>4
    <2> QED BY <2>5, <2>6, <2>7, <2>8
<1>2. CASE kind = "number"
    <2>1. v \in {None, "0", "5"}
        BY <1>2, ValuesOf DEF Holds
    <2>2. t = IF v = None THEN "empty" ELSE v
        BY <1>2 DEF Xml!ToXml
    <2>3. w = IF t = "empty" THEN None ELSE t
        BY <1>2 DEF Xml!FromXml
    <2> HIDE DEF t
    <2>4. w = v
        BY <1>0, <2>1, <2>2, <2>3
    <2>5. Holds(kind, w)
        BY <1>2, <2>1, <2>4, ValuesOf DEF Holds
    <2>6. Xml!Same(c, f, v, w)
        BY <2>1, <2>4, <1>0 DEF Xml!Same
    <2> QED BY <1>2, <2>5, <2>6
<1>3. CASE kind = "zeroed"
    <2>1. v \in {None, "0", "5"}
        BY <1>3, ValuesOf DEF Holds
    <2>2. t = IF v = None THEN "empty" ELSE v
        BY <1>3 DEF Xml!ToXml
    <2>3. w = IF t = "empty" THEN "0" ELSE t
        BY <1>3 DEF Xml!FromXml
    <2> HIDE DEF t
    <2>4. w = IF v = None THEN "0" ELSE v
        BY <1>0, <2>1, <2>2, <2>3
    <2>5. Holds(kind, w)
        BY <1>3, <2>1, <2>4, ValuesOf DEF Holds
    <2>6. v = None => Xml!Same(c, f, v, w)
        BY <2>1, <2>4, FromUndefined
    <2>7. v # None => Xml!Same(c, f, v, w)
        BY <2>1, <2>4, <1>0 DEF Xml!Same
    <2> QED BY <1>3, <2>5, <2>6, <2>7
<1>4. CASE kind = "flag"
    <2>1. v \in {None, "null", "True", "False"}
        BY <1>4, ValuesOf DEF Holds
    <2>2. t = IF v = None THEN "empty" ELSE v
        BY <1>4 DEF Xml!ToXml
    <2>3. w = IF t = "empty" THEN None ELSE t
        BY <1>4 DEF Xml!FromXml
    <2> HIDE DEF t
    <2>4. w = v
        BY <1>0, <2>1, <2>2, <2>3
    <2>5. Holds(kind, w)
        BY <1>4, <2>1, <2>4, ValuesOf DEF Holds
    <2>6. Xml!Same(c, f, v, w)
        BY <2>1, <2>4, <1>0 DEF Xml!Same
    <2> QED BY <1>4, <2>5, <2>6
<1>5. CASE kind = "plainFlag"
    <2>1. v \in {None, "True", "False"}
        BY <1>5, ValuesOf DEF Holds
    <2>2. t = IF v = None THEN "empty" ELSE v
        BY <1>5 DEF Xml!ToXml
    <2>3. w = IF t \in {"empty", "null"} THEN None ELSE t
        BY <1>5 DEF Xml!FromXml
    <2> HIDE DEF t
    <2>4. w = v
        BY <1>0, <2>1, <2>2, <2>3
    <2>5. Holds(kind, w)
        BY <1>5, <2>1, <2>4, ValuesOf DEF Holds
    <2>6. Xml!Same(c, f, v, w)
        BY <2>1, <2>4, <1>0 DEF Xml!Same
    <2> QED BY <1>5, <2>5, <2>6
<1>6. CASE kind = "yes"
    <2>1. v \in {"True", "False"}
        BY <1>6, ValuesOf DEF Holds
    <2>2. t = IF v = None THEN "empty" ELSE v
        BY <1>6 DEF Xml!ToXml
    <2>3. w = IF t \in {"empty", "null"} THEN "True" ELSE t
        BY <1>6 DEF Xml!FromXml
    <2> HIDE DEF t
    <2>4. w = v
        BY <1>0, <2>1, <2>2, <2>3
    <2>5. Holds(kind, w)
        BY <1>6, <2>1, <2>4, ValuesOf DEF Holds
    <2>6. Xml!Same(c, f, v, w)
        BY <2>1, <2>4, <1>0 DEF Xml!Same
    <2> QED BY <1>6, <2>5, <2>6
<1>7. CASE kind = "date"
    <2>1. v \in {None, "d", "d.5"}
        BY <1>7, ValuesOf DEF Holds
    <2>2. t = IF v = None THEN "empty" ELSE IF v = "d.5" THEN "d" ELSE v
        BY <1>7 DEF Xml!ToXml
    <2>3. w = IF t = "empty" THEN None ELSE t
        BY <1>7 DEF Xml!FromXml
    <2> HIDE DEF t
    <2>4. w = IF v = "d.5" THEN "d" ELSE v
        BY <1>0, <2>1, <2>2, <2>3
    <2>5. Holds(kind, w)
        BY <1>7, <2>1, <2>4, ValuesOf DEF Holds
    <2>6. Xml!Same(c, f, v, w)
        BY <2>1, <2>4, <1>0 DEF Xml!Same
    <2> QED BY <1>7, <2>5, <2>6
<1>8. CASE kind = "uuid"
    <2>1. v \in {None, "zero", "u"}
        BY <1>8, ValuesOf DEF Holds
    <2>2. t = IF v = None THEN "empty" ELSE v
        BY <1>8 DEF Xml!ToXml
    <2>3. w = IF t = "empty" THEN None ELSE t
        BY <1>8 DEF Xml!FromXml
    <2> HIDE DEF t
    <2>4. w = v
        BY <1>0, <2>1, <2>2, <2>3
    <2>5. Holds(kind, w)
        BY <1>8, <2>1, <2>4, ValuesOf DEF Holds
    <2>6. Xml!Same(c, f, v, w)
        BY <2>1, <2>4, <1>0 DEF Xml!Same
    <2> QED BY <1>8, <2>5, <2>6
<1>9. CASE kind = "own"
    <2>1. v \in {"zero", "u", "random"}
        BY <1>9, ValuesOf DEF Holds
    <2>2. t = IF v = None THEN "empty" ELSE v
        BY <1>9 DEF Xml!ToXml
    <2>3. w = IF t \in {"empty", "zero"} THEN "random" ELSE t
        BY <1>9 DEF Xml!FromXml
    <2> HIDE DEF t
    <2>4. w = IF v = "zero" THEN "random" ELSE v
        BY <1>0, <2>1, <2>2, <2>3
    <2>5. Holds(kind, w)
        BY <1>9, <2>1, <2>4, ValuesOf DEF Holds
    <2>6. Xml!Same(c, f, v, w)
        BY <2>1, <2>4, <1>0 DEF Xml!Same
    <2> QED BY <1>9, <2>5, <2>6
<1>10. CASE kind = "bytes"
    <2>1. v \in {None, "empty", "b"}
        BY <1>10, ValuesOf DEF Holds
    <2>2. t = IF v = None THEN "empty" ELSE v
        BY <1>10 DEF Xml!ToXml
    <2>3. w = IF t = "empty" THEN None ELSE t
        BY <1>10 DEF Xml!FromXml
    <2> HIDE DEF t
    <2>4. w = IF v = "empty" THEN None ELSE v
        BY <1>0, <2>1, <2>2, <2>3
    <2>5. Holds(kind, w)
        BY <1>10, <2>1, <2>4, ValuesOf DEF Holds
    <2>6. Xml!Same(c, f, v, w)
        BY <2>1, <2>4, <1>0 DEF Xml!Same
    <2>8. Xml!Nothing(w) => Xml!Nothing(v)
        BY <1>0, <2>1, <2>4
    <2> QED BY <2>5, <2>6, <2>8
<1>11. CASE kind = "tags"
    <2>1. v \in {"empty", "a", "a, b", "a;b"}
        BY <1>11, ValuesOf DEF Holds
    <2>2. t = IF v = None THEN "empty" ELSE v
        BY <1>11 DEF Xml!ToXml
    <2>3. w = Xml!Split(t)
        BY <1>11 DEF Xml!FromXml
    <2> HIDE DEF t
    <2>4. w = IF v = "a;b" THEN "a, b" ELSE v
        BY <1>0, <2>1, <2>2, <2>3 DEF Xml!Split
    <2>5. Holds(kind, w)
        BY <1>11, <2>1, <2>4, ValuesOf DEF Holds
    <2>6. Xml!Same(c, f, v, w)
        BY <2>1, <2>4, <1>0 DEF Xml!Same
    <2> QED BY <1>11, <2>5, <2>6
<1> QED BY <1>1, <1>2, <1>3, <1>4, <1>5, <1>6, <1>7, <1>8, <1>9, <1>10, <1>11 DEF Kinds

\* What is read of an element that was not.
LEMMA LeftOut ==
    ASSUME XmlConstants, NEW kind \in Kinds, NEW v, Holds(kind, v), NEW w, w = Xml!Missing(kind), NEW c, NEW f
    PROVE  /\ kind # "own" => Holds(kind, w)
           /\ Xml!Nothing(v) => Xml!Same(c, f, v, w)
<1>1. /\ kind = "tags" => w = "empty"
      /\ kind = "zeroed" => w = "0"
      /\ kind = "yes" => w = "True"
      /\ kind \notin {"tags", "zeroed", "yes"} => w = None
    BY DEF Xml!Missing
<1>2. v = None => Xml!Same(c, f, v, w)
    BY <1>1, FromUndefined
<1>3. v = "empty" => Xml!Same(c, f, v, w)
    BY <1>1, ValuesOf DEF XmlConstants, Kinds, Holds, Xml!Same
<1>4. kind # "own" => Holds(kind, w)
    <2>1. CASE kind \in {"tags", "zeroed", "yes"}
        BY <1>1, <2>1, ValuesOf DEF Holds
    <2>2. CASE kind \in {"text", "number", "flag", "plainFlag", "date", "uuid", "bytes"}
        BY <1>1, <2>2, ValuesOf DEF Holds
    <2> QED BY <2>1, <2>2 DEF Kinds
<1> QED BY <1>2, <1>3, <1>4 DEF Xml!Nothing

\* An object of a class: it has the class's fields, and each holds a value of its kind.
Typed(c, x) ==
    /\ DOMAIN x = DOMAIN Xml!Classes[c]
    /\ \A f \in DOMAIN Xml!Classes[c] : Holds(Xml!Classes[c][f], x[f])
AllTyped(objects) == \A c \in DOMAIN Xml!Classes : objects[c] = None \/ Typed(c, objects[c])

\* The identity of an object is always written.
LEMMA OwnWritten ==
    ASSUME NEW c \in DOMAIN Xml!Classes, NEW f \in DOMAIN Xml!Classes[c], Xml!Classes[c][f] = "own", NEW v, NEW n
    PROVE  Xml!Written(c, f, v, n)
<1>1. Xml!Classes["entry"]["customIcon"] = "uuid" /\ Xml!Classes["entry"]["qualityCheck"] = "plainFlag"
      /\ Xml!Classes["entry"]["previousParentGroup"] = "uuid"
    BY DEF Xml!Classes, Xml!Entry
<1>2. Xml!Classes["group"]["tags"] = "tags" /\ Xml!Classes["group"]["customIcon"] = "uuid"
      /\ Xml!Classes["group"]["previousParentGroup"] = "uuid"
    BY DEF Xml!Classes, Xml!Group
<1>3. Xml!Classes["autoType"]["defaultSequence"] = "text" /\ Xml!Classes["meta"]["settingsChanged"] = "date"
    BY DEF Xml!Classes, Xml!AutoType, Xml!Meta
<1>4. Xml!Classes["customIcon"]["name"] = "text" /\ Xml!Classes["customIcon"]["lastModified"] = "date"
      /\ Xml!Classes["customDataItem"]["lastModified"] = "date"
    BY DEF Xml!Classes, Xml!CustomIcon, Xml!CustomDataItem
<1>5. <<c, f>> \notin Xml!Optional
    BY <1>1, <1>2, <1>3, <1>4 DEF Xml!Optional
<1>6. Xml!Newer \subseteq Xml!Optional
    BY DEF Xml!Newer, Xml!Optional
<1> QED BY <1>5, <1>6 DEF Xml!Written

\* What is read for a field, from its element or without one.
FieldRead(c, f, v, n) ==
    IF Xml!Written(c, f, v, n) THEN Xml!FromXml(Xml!Classes[c][f], Xml!ToXml(Xml!Classes[c][f], v))
    ELSE Xml!Missing(Xml!Classes[c][f])

LEMMA FieldBack ==
    ASSUME XmlConstants, v1 \in {0, 1}, NEW c \in DOMAIN Xml!Classes, NEW f \in DOMAIN Xml!Classes[c],
           NEW v, Holds(Xml!Classes[c][f], v), NEW w, w = FieldRead(c, f, v, v1)
    PROVE  /\ Holds(Xml!Classes[c][f], w) /\ Xml!Same(c, f, v, w)
           /\ <<c, f>> \notin Xml!Optional /\ Xml!Classes[c][f] \in {"text", "bytes"} /\ Xml!Nothing(w) => Xml!Nothing(v)
<1>1. PICK kind \in Kinds : kind = Xml!Classes[c][f]
    BY KindsOf
<1>2. CASE Xml!Written(c, f, v, v1)
    <2>1. w = Xml!FromXml(kind, Xml!ToXml(kind, v))
        BY <1>1, <1>2 DEF FieldRead
    <2> QED BY <1>1, <2>1, WrittenBack
<1>3. CASE ~Xml!Written(c, f, v, v1)
    <2>1. w = Xml!Missing(kind)
        BY <1>1, <1>3 DEF FieldRead
    <2>2. kind # "own"
        BY <1>1, <1>3, OwnWritten
    <2>3. Holds(kind, w) /\ (Xml!Nothing(v) => Xml!Same(c, f, v, w))
        BY <1>1, <2>1, <2>2, LeftOut
    <2>4. Xml!Nothing(v) \/ (<<c, f>> \in Xml!Newer /\ v1 = 0)
        BY <1>3 DEF Xml!Written
    <2>5. <<c, f>> \in Xml!Newer /\ v1 = 0 => Xml!Same(c, f, v, w)
        BY <1>1, <2>1 DEF Xml!Same
    <2>6. <<c, f>> \in Xml!Optional
        BY <1>3, <2>4 DEF Xml!Written, Xml!Newer, Xml!Optional
    <2> QED BY <1>1, <2>3, <2>4, <2>5, <2>6
<1> QED BY <1>2, <1>3

LEMMA ObjectBack ==
    ASSUME XmlConstants, v1 \in {0, 1}, NEW c \in DOMAIN Xml!Classes, NEW x, Typed(c, x), x # None,
           NEW y, y = Xml!Read(c, Xml!Write(c, x, v1))
    PROVE  /\ y = None \/ Typed(c, y)
           /\ IF y = None THEN Xml!Dispensable(c, x)
              ELSE \A f \in DOMAIN Xml!Classes[c] : Xml!Same(c, f, x[f], y[f])
<1>1. CASE ~Xml!WrittenAtAll(c, x)
    <2>1. y = None
        BY <1>1 DEF Xml!Write, Xml!Read
    <2>2. \E g \in DOMAIN x : Xml!Nothing(x[g]) /\ c \in {"customIcon", "customDataItem"}
        <3>1. CASE c = "customIcon" /\ x.data = None
            <4>1. "data" \in DOMAIN x
                BY <3>1 DEF Typed, Xml!Classes, Xml!CustomIcon
            <4> QED BY <3>1, <4>1 DEF Xml!Nothing
        <3>2. CASE c = "customDataItem" /\ Xml!Nothing(x.value)
            <4>1. "value" \in DOMAIN x
                BY <3>2 DEF Typed, Xml!Classes, Xml!CustomDataItem
            <4> QED BY <3>2, <4>1
        <3> QED BY <1>1, <3>1, <3>2 DEF Xml!WrittenAtAll
    <2> QED BY <2>1, <2>2 DEF Xml!Dispensable
<1>2. CASE Xml!WrittenAtAll(c, x)
    <2> DEFINE fields == {g \in DOMAIN Xml!Classes[c] : Xml!Written(c, g, x[g], v1)}
               node == [f \in fields |-> Xml!ToXml(Xml!Classes[c][f], x[f])]
               z == [f \in DOMAIN Xml!Classes[c] |-> FieldRead(c, f, x[f], v1)]
    <2>1. Xml!Write(c, x, v1) = node
        BY <1>2 DEF Xml!Write
    <2>2. node # None /\ z # None
        <3>1. \A S, T : None \notin [S -> T]
            BY DEF XmlConstants
        <3>2. node \in [fields -> {node[f] : f \in fields}]
            OBVIOUS
        <3>3. z \in [DOMAIN Xml!Classes[c] -> {z[f] : f \in DOMAIN Xml!Classes[c]}]
            OBVIOUS
        <3> HIDE DEF node, z, fields
        <3>4. ASSUME NEW q, NEW S, NEW T, q \in [S -> T] PROVE q # None
            BY <3>1, <3>4
        <3>5. node # None
            BY <3>2, <3>4
        <3>6. z # None
            BY <3>3, <3>4
        <3> QED BY <3>5, <3>6
    <2>3. [f \in DOMAIN Xml!Classes[c] |->
                IF f \in DOMAIN node THEN Xml!FromXml(Xml!Classes[c][f], node[f]) ELSE Xml!Missing(Xml!Classes[c][f])]
          = z
        BY DEF FieldRead
    <2>4. y = IF Xml!Complete(c, z) THEN z ELSE None
        <3>1. PICK nd : nd = node
            OBVIOUS
        <3>2. Xml!Read(c, nd) = IF Xml!Complete(c, z) THEN z ELSE None
            BY <2>2, <2>3, <3>1 DEF Xml!Read
        <3> QED BY <2>1, <3>1, <3>2
    <2>5. \A f \in DOMAIN Xml!Classes[c] : z[f] = FieldRead(c, f, x[f], v1)
        OBVIOUS
    <2>6. DOMAIN z = DOMAIN Xml!Classes[c]
        OBVIOUS
    <2> HIDE DEF z, node
    <2>7. \A f \in DOMAIN Xml!Classes[c] :
            /\ Holds(Xml!Classes[c][f], z[f]) /\ Xml!Same(c, f, x[f], z[f])
            /\ <<c, f>> \notin Xml!Optional /\ Xml!Classes[c][f] \in {"text", "bytes"} /\ Xml!Nothing(z[f])
                    => Xml!Nothing(x[f])
        BY <2>5, FieldBack DEF Typed
    <2>8. Typed(c, z)
        BY <2>6, <2>7 DEF Typed
    <2>9. ~Xml!Complete(c, z) => Xml!Dispensable(c, x)
        <3>1. ASSUME c = "autoTypeItem", Xml!Nothing(z.window) \/ Xml!Nothing(z.keystrokeSequence)
              PROVE  Xml!Dispensable(c, x)
            <4>1. \A f \in {"window", "keystrokeSequence"} :
                    f \in DOMAIN Xml!Classes[c] /\ Xml!Classes[c][f] = "text" /\ <<c, f>> \notin Xml!Optional
                BY <3>1 DEF Xml!Classes, Xml!AutoTypeItem, Xml!Optional
            <4>2. \E f \in {"window", "keystrokeSequence"} : Xml!Nothing(z[f])
                BY <3>1
            <4> QED BY <2>7, <3>1, <4>1, <4>2 DEF Xml!Dispensable, Typed
        <3>2. ASSUME c = "customIcon", Xml!Nothing(z.data)
              PROVE  Xml!Dispensable(c, x)
            <4>1. "data" \in DOMAIN Xml!Classes[c] /\ Xml!Classes[c]["data"] = "bytes" /\ <<c, "data">> \notin Xml!Optional
                BY <3>2 DEF Xml!Classes, Xml!CustomIcon, Xml!Optional
            <4> QED BY <2>7, <3>2, <4>1 DEF Xml!Dispensable, Typed
        <3>3. ASSUME c = "customDataItem", Xml!Nothing(z.key)
              PROVE  Xml!Dispensable(c, x)
            <4>1. "key" \in DOMAIN Xml!Classes[c] /\ Xml!Classes[c]["key"] = "text" /\ <<c, "key">> \notin Xml!Optional
                BY <3>3 DEF Xml!Classes, Xml!CustomDataItem, Xml!Optional
            <4> QED BY <2>7, <3>3, <4>1 DEF Xml!Dispensable, Typed
        <3> QED BY <3>1, <3>2, <3>3 DEF Xml!Complete
    <2> QED BY <2>2, <2>4, <2>7, <2>8, <2>9
<1> QED BY <1>1, <1>2

\* The database holds values of their kinds, and so does what a reader makes of the file.
XmlInv ==
    /\ v1 \in {0, 1}
    /\ AllTyped(v2)
    /\ v3 # None => AllTyped(Xml!ReadAll(v3))
    /\ Xml!KeptBySave

LEMMA XmlInvInit == ASSUME XmlConstants, Xml!Init PROVE XmlInv
<1>1. v1 \in {0, 1} /\ v2 = Xml!NewDatabase /\ v3 = None
    BY DEF Xml!Init, XmlConstants
<1>2. ASSUME NEW c \in DOMAIN Xml!Classes
      PROVE  Typed(c, v2[c])
    <2>1. DOMAIN v2[c] = DOMAIN Xml!Classes[c]
          /\ \A f \in DOMAIN Xml!Classes[c] : v2[c][f] = Xml!NewValue(c, Xml!Classes[c][f])
        BY <1>1 DEF Xml!NewDatabase
    <2>2. ASSUME NEW f \in DOMAIN Xml!Classes[c]
          PROVE  Holds(Xml!Classes[c][f], Xml!NewValue(c, Xml!Classes[c][f]))
        <3>1. PICK kind \in Kinds : kind = Xml!Classes[c][f]
            BY KindsOf
        <3>2. c \in {"customIcon", "customDataItem", "autoTypeItem"} => kind \in {"own", "bytes", "text", "date"}
            BY <3>1 DEF Xml!Classes, Xml!CustomIcon, Xml!CustomDataItem, Xml!AutoTypeItem
        <3>3. \A k \in {"number", "flag", "plainFlag", "uuid"} : kind = k => Xml!NewValue(c, kind) = None
            BY <3>2 DEF Xml!NewValue
        <3>4. \A k \in {"number", "flag", "plainFlag", "uuid"} : Holds(k, None)
            BY ValuesOf DEF Holds
        <3>5. kind = "own" => Xml!NewValue(c, kind) = "u"
            BY DEF Xml!NewValue
        <3>6. Holds("own", "u")
            BY ValuesOf DEF Holds
        <3>7. kind = "tags" => Xml!NewValue(c, kind) = "empty"
            BY DEF Xml!NewValue
        <3>8. Holds("tags", "empty")
            BY ValuesOf DEF Holds
        <3>9. kind = "zeroed" => Xml!NewValue(c, kind) = "0"
            BY DEF Xml!NewValue
        <3>10. Holds("zeroed", "0")
            BY ValuesOf DEF Holds
        <3>11. kind = "yes" => Xml!NewValue(c, kind) = "True"
            BY DEF Xml!NewValue
        <3>12. Holds("yes", "True")
            BY ValuesOf DEF Holds
        <3>13. kind = "date" => Xml!NewValue(c, kind) = "d.5"
            BY DEF Xml!NewValue
        <3>14. Holds("date", "d.5")
            BY ValuesOf DEF Holds
        <3>15. kind = "text" => Xml!NewValue(c, kind) \in {None, "t"}
            BY DEF Xml!NewValue
        <3>16. Holds("text", None) /\ Holds("text", "t")
            BY ValuesOf DEF Holds
        <3>17. kind = "bytes" => Xml!NewValue(c, kind) \in {None, "b"}
            BY DEF Xml!NewValue
        <3>18. Holds("bytes", None) /\ Holds("bytes", "b")
            BY ValuesOf DEF Holds
        <3> QED BY <3>1, <3>3, <3>4, <3>5, <3>6, <3>7, <3>8, <3>9, <3>10, <3>11, <3>12, <3>13, <3>14, <3>15, <3>16, <3>17, <3>18 DEF Kinds
    <2> QED BY <2>1, <2>2 DEF Typed
<1> QED BY <1>1, <1>2 DEF XmlInv, AllTyped, Xml!KeptBySave

LEMMA ChangeTyped ==
    ASSUME AllTyped(v2), NEW c \in DOMAIN Xml!Classes, NEW f \in DOMAIN Xml!Classes[c],
           NEW v \in Xml!Values[Xml!Classes[c][f]], Xml!Change(c, f, v)
    PROVE  AllTyped(v2')
<1>1. v2[c] # None /\ Typed(c, v2[c]) /\ v2' = [v2 EXCEPT ![c][f] = v]
    BY DEF Xml!Change, AllTyped
<1>2. \A b \in DOMAIN Xml!Classes : b # c => v2'[b] = v2[b]
    BY <1>1
<1>3. v2'[c] = v2[c] \/ v2'[c] = [v2[c] EXCEPT ![f] = v]
    BY <1>1
<1>4. Typed(c, [v2[c] EXCEPT ![f] = v])
    BY <1>1 DEF Typed, Holds
<1>5. Typed(c, v2'[c])
    BY <1>1, <1>3, <1>4
<1> QED BY <1>2, <1>5 DEF AllTyped

LEMMA SaveKeeps ==
    ASSUME XmlConstants, XmlInv, Xml!Save
    PROVE  AllTyped(Xml!ReadAll(v3')) /\ Xml!KeptBySave'
<1>1. v3' = Xml!WriteAll(v2, v1) /\ v4' = v2 /\ v1' = v1 /\ v1 \in {0, 1} /\ AllTyped(v2)
    BY DEF Xml!Save, XmlInv
<1>2. ASSUME NEW c \in DOMAIN Xml!Classes
      PROVE  Xml!ReadAll(v3')[c] = Xml!Read(c, Xml!Write(c, v2[c], v1))
    BY <1>1 DEF Xml!ReadAll, Xml!WriteAll
<1>3. ASSUME NEW c \in DOMAIN Xml!Classes, v2[c] = None
      PROVE  Xml!ReadAll(v3')[c] = None
    BY <1>2, <1>3 DEF Xml!Write, Xml!Read
<1>4. ASSUME NEW c \in DOMAIN Xml!Classes, v2[c] # None
      PROVE  LET y == Xml!ReadAll(v3')[c]
             IN  /\ y = None \/ Typed(c, y)
                 /\ IF y = None THEN Xml!Dispensable(c, v2[c])
                    ELSE \A f \in DOMAIN Xml!Classes[c] : Xml!Same(c, f, v2[c][f], y[f])
    <2>1. Typed(c, v2[c])
        BY <1>1, <1>4 DEF AllTyped
    <2> QED BY <1>1, <1>2, <1>4, <2>1, ObjectBack
<1>5. AllTyped(Xml!ReadAll(v3'))
    BY <1>3, <1>4 DEF AllTyped
<1>6. \A c, f, v, w : Xml!Same(c, f, v, w)' <=> Xml!Same(c, f, v, w)
    BY <1>1 DEF Xml!Same
<1>7. Xml!KeptBySave'
    <2>1. SUFFICES ASSUME NEW c \in DOMAIN Xml!Classes, v4'[c] # None
                   PROVE  IF Xml!ReadAll(v3')[c] = None THEN Xml!Dispensable(c, v4'[c])
                          ELSE \A f \in DOMAIN Xml!Classes[c] : Xml!Same(c, f, v4[c][f], Xml!ReadAll(v3)[c][f])'
        BY DEF Xml!KeptBySave
    <2> QED BY <1>1, <1>4, <1>6, <2>1
<1> QED BY <1>5, <1>7

LEMMA XmlInvNext == ASSUME XmlConstants, XmlInv, Xml!Next PROVE XmlInv'
<1>1. CASE \E c \in DOMAIN Xml!Classes : \E f \in DOMAIN Xml!Classes[c] :
                \E v \in Xml!Values[Xml!Classes[c][f]] : Xml!Change(c, f, v)
    <2>1. AllTyped(v2')
        BY <1>1, ChangeTyped DEF XmlInv
    <2>2. v3' = None /\ v1' = v1
        BY <1>1 DEF Xml!Change
    <2> QED BY <2>1, <2>2 DEF XmlInv, AllTyped, Xml!KeptBySave
<1>2. CASE Xml!Save
    <2>1. v1' = v1 /\ v2' = v2
        BY <1>2 DEF Xml!Save
    <2> QED BY <1>2, <2>1, SaveKeeps DEF XmlInv, AllTyped
<1>3. CASE Xml!Load \/ Xml!LoadXml
    <2>1. v2' = Xml!ReadAll(v3) /\ v3 # None /\ v3' = None /\ v1' \in {v1, 0}
        BY <1>3 DEF Xml!Load, Xml!LoadXml
    <2> QED BY <2>1 DEF XmlInv, AllTyped, Xml!KeptBySave
<1> QED BY <1>1, <1>2, <1>3 DEF Xml!Next

-----------------------------------------------------------------------------
(* What is written is what is read.                                        *)

LEMMA XmlKept == ASSUME XmlConstants PROVE FormatsSpec => [](subject = "KdbxXml" => XmlInv)
<1> DEFINE Inv == subject = "KdbxXml" => XmlInv
<1>1. FormatsInit => Inv
    BY XmlInvInit DEF FormatsInit
<1>2. Inv /\ [FormatsNext]_<<subject, vars, shared>> => Inv'
    <2> SUFFICES ASSUME Inv, [FormatsNext]_<<subject, vars, shared>>, subject' = "KdbxXml" PROVE XmlInv'
        OBVIOUS
    <2>1. subject' = subject
        BY DEF FormatsNext
    <2>2. XmlInv
        BY <2>1
    <2>3. Xml!Next \/ UNCHANGED <<v1, v2, v3, v4, v5>>
        BY <2>1 DEF FormatsNext, shared
    <2>4. CASE Xml!Next
        BY <2>2, <2>4, XmlInvNext
    <2>5. CASE UNCHANGED <<v1, v2, v3, v4, v5>>
        <3>1. v1' = v1 /\ v2' = v2 /\ v3' = v3 /\ v4' = v4
            BY <2>5
        <3>2. Xml!KeptBySave' <=> Xml!KeptBySave
            BY <3>1 DEF Xml!KeptBySave, Xml!Same
        <3> QED BY <2>2, <3>1, <3>2 DEF XmlInv
    <2> QED BY <2>3, <2>4, <2>5
<1> QED BY <1>1, <1>2, PTL DEF FormatsSpec

LEMMA TextKept == FormatsSpec => [](subject = "ProtectedText" => Text!StringsKept)
<1> DEFINE Inv == subject = "ProtectedText" => Text!StringsKept
<1>1. FormatsInit => Inv
    BY DEF FormatsInit, Text!Init, Text!StringsKept
<1>2. Inv /\ [FormatsNext]_<<subject, vars, shared>> => Inv'
    <2> SUFFICES ASSUME Inv, [FormatsNext]_<<subject, vars, shared>>, subject' = "ProtectedText"
                 PROVE  Text!StringsKept'
        OBVIOUS
    <2>1. subject' = subject
        BY DEF FormatsNext
    <2>2. Text!StringsKept
        BY <2>1
    <2>3. Text!Next \/ UNCHANGED <<v1, v2, v3, v4, v5>>
        BY <2>1 DEF FormatsNext, shared
    <2>4. CASE Text!Next
        BY <2>2, <2>4, StringsKeptNext
    <2>5. CASE UNCHANGED <<v1, v2, v3, v4, v5>>
        <3>1. Text!Opened' = Text!Opened
            BY <2>5 DEF Text!Opened, Text!Protected, Text!Decrypted, Text!SaltAt, Text!Before, Text!Rank
        <3> QED BY <2>2, <2>5, <3>1, Zenon DEF Text!StringsKept
    <2> QED BY <2>3, <2>4, <2>5
<1> QED BY <1>1, <1>2, PTL DEF FormatsSpec

\* A database that is saved and opened again has the same fields, but for what the format
\* has no element for and what the parser drops; the strings of an entry and its history,
\* each version of which has protected values of its own, are read as they were, and an
\* exported XML gives them all.
THEOREM FormatsFieldsKept == ASSUME XmlConstants PROVE FormatsSpec => []FieldsKept
<1>1. (subject = "KdbxXml" => XmlInv) /\ (subject = "ProtectedText" => Text!StringsKept) => FieldsKept
    BY DEF XmlInv, FieldsKept
<1> QED BY <1>1, XmlKept, TextKept, PTL
=============================================================================

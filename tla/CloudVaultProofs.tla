-------------------------- MODULE CloudVaultProofs --------------------------
(***************************************************************************)
(* Theorems of CloudVault for every set of edits and every bound.          *)
(*                                                                         *)
(* TypeCorrect needs no assumption about how calls overlap.  That edits    *)
(* last once acknowledged holds for calls that do not overlap (OneCall).   *)
(* The theorems about the revision guard also need a user who never        *)
(* chooses keep-cloud (KeepLocalOnly); the runs show counterexamples when  *)
(* either is dropped.                                                      *)
(***************************************************************************)
EXTENDS CloudVault, TLAPS

OneCall == \A s, t \in Slots : s = t
KeepLocalOnly == Resolutions \subseteq {"keep-local"}

(* What a call may rely on at each of its steps, and the state it relies on. *)

\* Content c holds all of revision r.
Holds(c, r) == r # NoRev => revisions[r] \subseteq c

UnlockPcs == {"read", "cache", "rev", "media", "ublob", "umeta", "load"}
WritePcs == {"check", "upload", "pblob", "pmeta", "fblob", "fread", "fmeta",
             "force", "xblob", "xmeta"}

RevisionsBounded ==
    /\ \A g \in Sessions : known[g] <= HeadRev
    /\ meta # None => meta.eTag <= HeadRev
    /\ \A s \in Slots : op[s].rev <= HeadRev

\* Sessions not opened yet know nothing.
FreshSessions ==
    \A g \in Sessions : g > opened => tree[g] = None /\ known[g] = NoRev

\* The head and the cached blob hold all of the revision the cache names.
CacheCovered ==
    meta # None => /\ Holds(Cloud, meta.eTag)
                   /\ blob # None => Holds(blob, meta.eTag)

\* The unlocked session's tree holds all of the cached blob.
SessionCovered ==
    session # 0 => /\ blob # None /\ tree[session] # None
                   /\ blob \subseteq tree[session]

UnlockCovered(s) ==
    op[s].pc \in UnlockPcs =>
        /\ session = 0 /\ tree[op[s].gen] = None
        /\ op[s].gen \in Sessions /\ op[s].gen <= opened
        /\ At(s, "read") => op[s].meta = meta /\ known[op[s].gen] = NoRev
        /\ At(s, "cache") => (blob # None => Holds(blob, known[op[s].gen]))
        /\ op[s].pc \in {"rev", "media", "ublob", "umeta"} => Holds(Cloud, op[s].rev)
        /\ At(s, "media") => Holds(Cloud, known[op[s].gen])
        /\ op[s].pc \in {"ublob", "umeta"} => Holds(op[s].data, op[s].rev)
        /\ op[s].pc \in {"ublob", "umeta", "load"} => Holds(op[s].data, known[op[s].gen])
        /\ At(s, "ublob") => (meta # None => Holds(op[s].data, meta.eTag))
        /\ op[s].pc \in {"umeta", "load"} => blob = op[s].data

WriteCovered(s) ==
    op[s].pc \in WritePcs =>
        /\ session # 0 => op[s].data \subseteq tree[session]
        /\ op[s].gen # Options => op[s].data = tree[op[s].gen]
        /\ op[s].pc \in {"check", "upload"} => op[s].gen # Options
        /\ meta # None => Holds(op[s].data, meta.eTag)
        /\ op[s].pc \in {"pblob", "pmeta", "xblob", "xmeta"} =>
               Holds(op[s].data, op[s].rev) /\ Holds(Cloud, op[s].rev)
        /\ op[s].pc \in {"pmeta", "fread", "fmeta", "xmeta"} => blob = op[s].data
        /\ At(s, "fmeta") => op[s].meta = meta

CallCovered(s) ==
    /\ op[s].pc \in {"idle", "lread"} \cup UnlockPcs \cup WritePcs
    /\ At(s, "lread") => op[s].gen = Options
    /\ UnlockCovered(s)
    /\ WriteCovered(s)

StateCovered ==
    /\ RevisionsBounded
    /\ FreshSessions
    /\ CacheCovered
    /\ SessionCovered
    /\ KnownRevisionSeen

GuardInv ==
    /\ TypeOK
    /\ StateCovered
    /\ \A s \in Slots : CallCovered(s)

(* What keeps an acknowledged edit, as long as calls do not overlap.       *)

\* The blob and the unlocked tree hold every acknowledged edit, and so does Drive
\* unless the cache says that it does not.
DurableState ==
    /\ blob = None => acked = {}
    /\ blob # None => acked \subseteq blob
    /\ meta = None \/ ~meta.dirty => acked \subseteq Cloud
    /\ session # 0 => acked \subseteq tree[session]

SavePcs == {"check", "upload", "pblob", "pmeta", "fblob", "fread", "fmeta"}

\* What each call relies on: the content it is about to leave as the only copy holds
\* every acknowledged edit, and all it will acknowledge is in that copy and in the tree.
DurableCall(s) ==
    /\ At(s, "read") => op[s].meta = meta
    /\ At(s, "lread") => op[s].gen = Options
    /\ op[s].pc \in {"rev", "media", "ublob", "umeta"} => acked \subseteq Cloud
    /\ op[s].pc \in {"ublob", "umeta", "load"} \cup WritePcs => acked \subseteq op[s].data
    /\ op[s].pc \in {"pmeta", "fread", "fmeta", "xmeta", "kmeta"} => blob = op[s].data
    /\ op[s].pc \in {"pblob", "pmeta", "xblob", "xmeta", "krev", "kblob", "kmeta"} =>
           op[s].data \subseteq Cloud
    /\ op[s].pc \in SavePcs => op[s].gen # Options
    /\ op[s].pc \in WritePcs /\ op[s].gen # Options /\ session # 0 => op[s].data \subseteq tree[session]

DurableInv ==
    /\ TypeOK
    /\ DurableState
    /\ \A s \in Slots : DurableCall(s)

----------------------------------------------------------------------------
(* Type correctness.                                                       *)

LEMMA Constants == MaxSessions \in Nat /\ MaxSessions > 0 /\ \A c \in Content : c # None
  BY ConstantsAssumption DEF ConstantsAssumption

\* A cache record is not the absent one.
LEMMA NoneIsNoMeta == \A m \in CacheMeta : m # None
  BY ConstantsAssumption DEF ConstantsAssumption

LEMMA PcValues ==
    /\ "idle" \in Pc /\ "read" \in Pc /\ "cache" \in Pc /\ "rev" \in Pc /\ "media" \in Pc
    /\ "ublob" \in Pc /\ "umeta" \in Pc /\ "load" \in Pc /\ "check" \in Pc /\ "upload" \in Pc
    /\ "pblob" \in Pc /\ "pmeta" \in Pc /\ "fblob" \in Pc /\ "fread" \in Pc /\ "fmeta" \in Pc
    /\ "lread" \in Pc /\ "force" \in Pc /\ "xblob" \in Pc /\ "xmeta" \in Pc
    /\ "kmedia" \in Pc /\ "krev" \in Pc /\ "kblob" \in Pc /\ "kmeta" \in Pc
  BY DEF Pc, Online

LEMMA IdleType == Idle \in Op
  BY Constants, PcValues DEF Idle, Op, Options, NoRev, Content

\* The head of Drive and what a new revision does to it.
LEMMA HeadType == TypeOK => HeadRev \in Nat /\ HeadRev > 0 /\ Cloud \in Content
  BY DEF TypeOK, HeadRev, Cloud

LEMMA AppendType ==
    ASSUME TypeOK, NEW c \in Content
    PROVE  Append(revisions, c) \in Seq(Content) /\ Append(revisions, c) # <<>>
  BY DEF TypeOK

\* The cache record a call holds is a record or absent.
LEMMA OpFields ==
    ASSUME TypeOK, NEW s \in Slots
    PROVE  /\ op[s] \in Op /\ op[s].pc \in Pc /\ op[s].gen \in 0..MaxSessions
           /\ op[s].data \in Content /\ op[s].rev \in Nat
           /\ op[s].meta \in {None} \cup CacheMeta
  BY DEF TypeOK, Op

LEMMA InitType == Init => TypeOK
<1> SUFFICES ASSUME Init PROVE TypeOK
  OBVIOUS
<1>1. revisions \in Seq(Content) /\ revisions # <<>>
  BY DEF Init, Content
<1>2. known \in [Sessions -> Nat] /\ tree \in [Sessions -> {None} \cup Content]
  BY DEF Init, NoRev
<1>3. op \in [Slots -> Op]
  BY IdleType DEF Init
<1>4. blob = None /\ meta = None /\ session = 0 /\ opened = 0 /\ prompt = FALSE /\ acked = {}
  BY DEF Init
<1>5. session \in 0..MaxSessions /\ opened \in 0..MaxSessions
  BY <1>4, Constants
<1>6. acked \in SUBSET Edits /\ prompt \in BOOLEAN
  BY <1>4
<1> QED BY <1>1, <1>2, <1>3, <1>4, <1>5, <1>6 DEF TypeOK

\* A call that moves on to another step, ...
LEMMA GotoType ==
    ASSUME TypeOK, NEW s \in Slots, NEW p \in Pc, Goto(s, p)
    PROVE  op' \in [Slots -> Op]
  BY DEF TypeOK, Goto, Op

LEMMA FinishType ==
    ASSUME TypeOK, NEW s \in Slots, Finish(s)
    PROVE  op' \in [Slots -> Op]
  BY IdleType DEF TypeOK, Finish

\* ... taking a revision, or the content of a file, with it.
LEMMA GotoRevType ==
    ASSUME TypeOK, NEW s \in Slots, NEW p \in Pc, NEW r \in Nat,
           op' = [op EXCEPT ![s].pc = p, ![s].rev = r]
    PROVE  op' \in [Slots -> Op]
<1>1. op \in [Slots -> Op]
  BY DEF TypeOK
<1> QED BY <1>1 DEF Op

LEMMA GotoDataType ==
    ASSUME TypeOK, NEW s \in Slots, NEW p \in Pc, NEW d \in Content,
           op' = [op EXCEPT ![s].pc = p, ![s].data = d]
    PROVE  op' \in [Slots -> Op]
<1>1. op \in [Slots -> Op]
  BY DEF TypeOK
<1> QED BY <1>1 DEF Op

LEMMA LearnType ==
    ASSUME TypeOK, NEW g, NEW r \in Nat, Learn(g, r)
    PROVE  known' \in [Sessions -> Nat]
  BY DEF TypeOK, Learn

\* A call that begins in slot s.
LEMMA StartType ==
    ASSUME NEW p \in Pc, NEW g \in 0..MaxSessions, NEW d \in Content, NEW m \in {None} \cup CacheMeta
    PROVE  /\ [Idle EXCEPT !.pc = p, !.gen = g, !.meta = m] \in Op
           /\ [Idle EXCEPT !.pc = p, !.gen = g, !.data = d] \in Op
           /\ [Idle EXCEPT !.pc = p] \in Op
  BY IdleType DEF Op

\* Every step of an unlock keeps the types.
LEMMA UnlockType ==
    ASSUME TypeOK, NEW s \in Slots, UnlockStep(s) PROVE TypeOK'
<1>1. CASE StartUnlock(s)
  <2>1. opened + 1 \in 0..MaxSessions /\ meta \in {None} \cup CacheMeta
    BY <1>1, Constants DEF StartUnlock, TypeOK
  <2>2. [Idle EXCEPT !.pc = "read", !.gen = opened + 1, !.meta = meta] \in Op
    BY <2>1, StartType, PcValues DEF Content
  <2> QED BY <1>1, <2>1, <2>2 DEF StartUnlock, TypeOK
<1>2. CASE UnlockMetadata(s)
  <2>1. HeadRev \in Nat
    BY HeadType
  <2>2. known' \in [Sessions -> Nat]
    BY <1>2, <2>1, LearnType DEF UnlockMetadata
  <2>3. op' \in [Slots -> Op]
    BY <1>2, <2>1, PcValues, GotoRevType, GotoType, FinishType DEF UnlockMetadata
  <2> QED BY <1>2, <2>2, <2>3 DEF UnlockMetadata, TypeOK
<1>3. CASE UnlockOffline(s)
  BY <1>3, PcValues, GotoType DEF UnlockOffline, TypeOK
<1>4. CASE ReadCache(s)
  <2>1. CASE blob = None
    BY <1>4, <2>1, FinishType DEF ReadCache, TypeOK
  <2>2. CASE blob # None
    <3>1. op' \in [Slots -> Op]
      BY <1>4, <2>2, PcValues, GotoDataType DEF ReadCache, TypeOK
    <3> QED BY <1>4, <3>1 DEF ReadCache, TypeOK
  <2> QED BY <2>1, <2>2
<1>5. CASE FetchRevision(s)
  BY <1>5, PcValues, HeadType, LearnType, GotoType DEF FetchRevision, TypeOK
<1>6. CASE FetchMedia(s)
  BY <1>6, PcValues, HeadType DEF FetchMedia, TypeOK, Op
<1>7. CASE LoadVault(s)
  <2>1. op' \in [Slots -> Op] /\ op[s].data \in Content /\ op[s].gen \in 0..MaxSessions
    BY <1>7, OpFields, FinishType DEF LoadVault
  <2>2. tree' \in [Sessions -> {None} \cup Content]
    BY <1>7, <2>1 DEF LoadVault, TypeOK
  <2>3. session' # 0 => tree'[session'] # None
    BY <1>7, <2>1, Constants DEF LoadVault, TypeOK, Sessions
  <2> QED BY <1>7, <2>1, <2>2, <2>3 DEF LoadVault, TypeOK
<1> QED BY <1>1, <1>2, <1>3, <1>4, <1>5, <1>6, <1>7 DEF UnlockStep

\* A save starts from the tree of the unlocked session.
LEMMA OpenedType ==
    ASSUME TypeOK, session # 0
    PROVE  session \in Sessions /\ tree[session] \in Content
  BY Constants DEF TypeOK, Sessions

LEMMA StartSaveType ==
    ASSUME TypeOK, session # 0, NEW s \in Slots, NEW p \in Pc, NEW d \in Content,
           op' = [op EXCEPT ![s] = [Idle EXCEPT !.pc = p, !.gen = session, !.data = d]]
    PROVE  op' \in [Slots -> Op]
<1>1. session \in 0..MaxSessions /\ None \in {None} \cup CacheMeta
  BY DEF TypeOK
<1> QED BY <1>1, StartType DEF TypeOK

\* Every step of a save keeps the types.
LEMMA SaveType ==
    ASSUME TypeOK, NEW s \in Slots, SaveStep(s) PROVE TypeOK'
<1>1. ASSUME NEW e \in Edits, Mutate(s, e) PROVE TypeOK'
  <2>1. session \in Sessions /\ tree[session] \cup {e} \in Content
    BY <1>1, OpenedType DEF Mutate, Content
  <2>2. tree' \in [Sessions -> {None} \cup Content] /\ tree'[session] # None
    BY <1>1, <2>1, Constants DEF Mutate, TypeOK
  <2>3. op' \in [Slots -> Op]
    BY <1>1, <2>1, StartSaveType, PcValues DEF Mutate
  <2> QED BY <1>1, <2>2, <2>3 DEF Mutate, TypeOK
<1>2. CASE RetrySync(s)
  <2>1. op' \in [Slots -> Op]
    BY <1>2, OpenedType, StartSaveType, PcValues DEF RetrySync
  <2> QED BY <1>2, <2>1 DEF RetrySync, TypeOK
<1>3. CASE CheckRevision(s)
  <2>1. HeadRev \in Nat
    BY HeadType
  <2>2. op' \in [Slots -> Op]
    BY <1>3, <2>1, PcValues, GotoRevType, FinishType DEF CheckRevision
  <2> QED BY <1>3, <2>2 DEF CheckRevision, TypeOK
<1>4. CASE Upload(s)
  <2>1. HeadRev + 1 \in Nat /\ op[s].data \in Content
    BY HeadType, OpFields
  <2>2. known' \in [Sessions -> Nat]
    BY <1>4, <2>1, LearnType DEF Upload
  <2>3. op' \in [Slots -> Op]
    BY <1>4, <2>1, GotoRevType, PcValues DEF Upload
  <2> QED BY <1>4, <2>1, <2>2, <2>3, AppendType DEF Upload, TypeOK
<1>5. CASE UploadAnswerLost(s)
  BY <1>5, OpFields, AppendType, GotoType, PcValues DEF UploadAnswerLost, TypeOK
<1>6. CASE SaveFallsBack(s)
  BY <1>6, GotoType, PcValues DEF SaveFallsBack, TypeOK
<1> QED BY <1>1, <1>2, <1>3, <1>4, <1>5, <1>6 DEF SaveStep

\* Every step of a forced save or of a resolution keeps the types.
LEMMA ForceType ==
    ASSUME TypeOK, NEW s \in Slots, ForceStep(s) PROVE TypeOK'
<1>1. CASE ForceResync(s)
  <2>1. op' \in [Slots -> Op]
    BY <1>1, OpenedType, StartSaveType, PcValues DEF ForceResync
  <2> QED BY <1>1, <2>1 DEF ForceResync, TypeOK
<1>2. ASSUME NEW resolution \in Resolutions, ResolveConflict(s, resolution) PROVE TypeOK'
  <2>1. 0 \in 0..MaxSessions /\ {} \in Content /\ None \in {None} \cup CacheMeta
    BY Constants DEF Content
  <2>2. op' \in [Slots -> Op]
    BY <1>2, <2>1, StartType, PcValues DEF ResolveConflict, TypeOK
  <2> QED BY <1>2, <2>2 DEF ResolveConflict, TypeOK
<1>3. CASE ReadLocalCopy(s)
  <2>1. CASE blob = None
    BY <1>3, <2>1, FinishType DEF ReadLocalCopy, TypeOK
  <2>2. CASE blob # None
    <3>1. op' \in [Slots -> Op]
      BY <1>3, <2>2, PcValues, GotoDataType DEF ReadLocalCopy, TypeOK
    <3> QED BY <1>3, <3>1 DEF ReadLocalCopy, TypeOK
  <2> QED BY <2>1, <2>2
<1>4. CASE ForceUpload(s)
  <2>1. HeadRev + 1 \in Nat /\ op[s].data \in Content
    BY HeadType, OpFields
  <2>2. known' \in [Sessions -> Nat]
    BY <1>4, <2>1, LearnType DEF ForceUpload
  <2>3. op' \in [Slots -> Op]
    BY <1>4, <2>1, GotoRevType, PcValues DEF ForceUpload
  <2> QED BY <1>4, <2>1, <2>2, <2>3, AppendType DEF ForceUpload, TypeOK
<1>5. CASE ReadCloudCopy(s)
  BY <1>5, PcValues, HeadType DEF ReadCloudCopy, TypeOK, Op
<1>6. CASE ReadCloudRevision(s)
  <2>1. HeadRev \in Nat
    BY HeadType
  <2>2. op' \in [Slots -> Op]
    BY <1>6, <2>1, PcValues DEF ReadCloudRevision, TypeOK, Op
  <2> QED BY <1>6, <2>2 DEF ReadCloudRevision, TypeOK
<1> QED BY <1>1, <1>2, <1>3, <1>4, <1>5, <1>6 DEF ForceStep

\* Every write to the cache, and every failure, keeps the types.
LEMMA CacheType ==
    ASSUME TypeOK, NEW s \in Slots, CacheStep(s) PROVE TypeOK'
<1>1. CASE WriteCacheBlob(s)
  <2>1. \A p \in DOMAIN AfterBlob : AfterBlob[p] \in Pc
    BY PcValues DEF AfterBlob
  <2>2. op' \in [Slots -> Op] /\ blob' \in Content
    BY <1>1, <2>1, GotoType, OpFields DEF WriteCacheBlob
  <2>3. acked' \in SUBSET Edits
    BY <1>1 DEF WriteCacheBlob, TypeOK
  <2> QED BY <1>1, <2>2, <2>3 DEF WriteCacheBlob, TypeOK
<1>2. CASE WriteCacheMeta(s)
  <2>1. meta' \in {None} \cup CacheMeta
    BY <1>2, OpFields DEF WriteCacheMeta, CleanMeta, CacheMeta
  <2>2. op' \in [Slots -> Op]
    BY <1>2, PcValues, GotoType, FinishType DEF WriteCacheMeta
  <2>3. acked' \in SUBSET Edits
    BY <1>2 DEF WriteCacheMeta, Acknowledge, TypeOK
  <2>4. prompt' \in BOOLEAN
    BY <1>2 DEF WriteCacheMeta
  <2> QED BY <1>2, <2>1, <2>2, <2>3, <2>4 DEF WriteCacheMeta, TypeOK
<1>3. CASE ReadFallbackMeta(s)
  BY <1>3, PcValues DEF ReadFallbackMeta, TypeOK, Op
<1>4. CASE WriteFallbackMeta(s)
  <2>1. meta' \in CacheMeta
    BY <1>4, OpFields DEF WriteFallbackMeta, DirtyMeta, CacheMeta, NoRev
  <2>2. acked' \in SUBSET Edits
    BY <1>4 DEF WriteFallbackMeta, Acknowledge, TypeOK
  <2> QED BY <1>4, <2>1, <2>2, FinishType DEF WriteFallbackMeta, TypeOK
<1>5. CASE StorageFails(s)
  BY <1>5, PcValues, GotoType, FinishType DEF StorageFails, TypeOK
<1>6. CASE RequestThrows(s)
  BY <1>6, FinishType DEF RequestThrows, TypeOK
<1> QED BY <1>1, <1>2, <1>3, <1>4, <1>5, <1>6 DEF CacheStep

\* Locks, crashes, the status check and the other client keep the types.
LEMMA EnvironmentType == ASSUME TypeOK, Environment PROVE TypeOK'
<1>1. CASE Lock
  BY <1>1, Constants DEF Lock, TypeOK
<1>2. CASE CheckSyncStatus
  BY <1>2 DEF CheckSyncStatus, TypeOK
<1>3. ASSUME NEW dead \in {Background, Slots}, Crash(dead) PROVE TypeOK'
  <2>1. op' \in [Slots -> Op] /\ session' = 0
    BY <1>3, IdleType DEF Crash, TypeOK
  <2> QED BY <1>3, <2>1, Constants DEF Crash, TypeOK
<1>4. ASSUME NEW r \in RemoteEdits, RemoteWrite(r) PROVE TypeOK'
  <2>1. Cloud \cup {r} \in Content
    BY <1>4, HeadType DEF Content
  <2> QED BY <1>4, <2>1, AppendType DEF RemoteWrite, TypeOK
<1> QED BY <1>1, <1>2, <1>3, <1>4 DEF Environment

LEMMA NextType == TypeOK /\ [Next]_vars => TypeOK'
<1> SUFFICES ASSUME TypeOK, [Next]_vars PROVE TypeOK'
  OBVIOUS
<1>1. CASE UNCHANGED vars
  BY <1>1 DEF vars, TypeOK
<1> QED BY <1>1, UnlockType, SaveType, ForceType, CacheType, EnvironmentType DEF Next

\* Whatever calls overlap and whatever fails, every variable keeps its type, and
\* an unlocked session has a tree (the state of vault-session.ts's VaultSession).
THEOREM TypeCorrect == Spec => []TypeOK
  BY InitType, NextType, PTL DEF Spec

----------------------------------------------------------------------------
(* The revision guard.                                                     *)

(* What a step does to the fields of its call. *)
LEMMA GotoFields ==
    ASSUME TypeOK, NEW s \in Slots, NEW p, Goto(s, p)
    PROVE  /\ op'[s].pc = p /\ op'[s].gen = op[s].gen /\ op'[s].data = op[s].data
           /\ op'[s].rev = op[s].rev /\ op'[s].meta = op[s].meta
  BY DEF TypeOK, Op, Goto

LEMMA GotoRevFields ==
    ASSUME TypeOK, NEW s \in Slots, NEW p, NEW r, op' = [op EXCEPT ![s].pc = p, ![s].rev = r]
    PROVE  /\ op'[s].pc = p /\ op'[s].gen = op[s].gen /\ op'[s].data = op[s].data
           /\ op'[s].rev = r /\ op'[s].meta = op[s].meta
  BY DEF TypeOK, Op

LEMMA GotoDataFields ==
    ASSUME TypeOK, NEW s \in Slots, NEW p, NEW d, op' = [op EXCEPT ![s].pc = p, ![s].data = d]
    PROVE  /\ op'[s].pc = p /\ op'[s].gen = op[s].gen /\ op'[s].data = d
           /\ op'[s].rev = op[s].rev /\ op'[s].meta = op[s].meta
  BY DEF TypeOK, Op

LEMMA FinishFields ==
    ASSUME TypeOK, NEW s \in Slots, Finish(s)
    PROVE  op'[s].pc = "idle" /\ op'[s].rev = 0
  BY DEF TypeOK, Finish, Idle, NoRev

\* An ended call relies on nothing.
LEMMA EndedCovered ==
    ASSUME NEW s \in Slots, op'[s].pc = "idle" PROVE CallCovered(s)'
  BY DEF CallCovered, UnlockCovered, WriteCovered, UnlockPcs, WritePcs, At

\* A step that only moves its call keeps what the shared state promises.
LEMMA StateKept ==
    ASSUME TypeOK, TypeOK', OneCall, StateCovered, NEW s \in Slots, op'[s].rev <= HeadRev,
           opened' >= opened, UNCHANGED <<revisions, blob, meta, session, tree, known>>
    PROVE  StateCovered'
<1>1. RevisionsBounded'
  BY DEF RevisionsBounded, StateCovered, HeadRev, OneCall
<1>2. FreshSessions'
  BY Constants DEF FreshSessions, StateCovered, TypeOK, Sessions
<1>3. CacheCovered' /\ SessionCovered' /\ KnownRevisionSeen'
  BY DEF CacheCovered, SessionCovered, KnownRevisionSeen, StateCovered, Holds, Cloud, HeadRev
<1> QED BY <1>1, <1>2, <1>3 DEF StateCovered

\* A session that has no tree yet may learn any revision.
LEMMA LearnKept ==
    ASSUME TypeOK, TypeOK', OneCall, StateCovered, NEW s \in Slots, op'[s].rev <= HeadRev,
           NEW g \in Sessions, tree[g] = None, g <= opened, Learn(g, HeadRev),
           UNCHANGED <<revisions, blob, meta, session, tree, opened>>
    PROVE  StateCovered'
<1>h. HeadRev \in Nat
  BY HeadType
<1>1. RevisionsBounded'
  BY <1>h DEF RevisionsBounded, StateCovered, HeadRev, OneCall, Learn
<1>2. FreshSessions'
  BY Constants DEF FreshSessions, StateCovered, TypeOK, Sessions, Learn
<1>3. CacheCovered' /\ SessionCovered'
  BY DEF CacheCovered, SessionCovered, StateCovered, Holds, Cloud, HeadRev
<1>4. KnownRevisionSeen'
  BY DEF KnownRevisionSeen, StateCovered, Learn
<1> QED BY <1>1, <1>2, <1>3, <1>4 DEF StateCovered

LEMMA GuardUnlock ==
    ASSUME GuardInv, TypeOK', OneCall, NEW s \in Slots, UnlockStep(s)
    PROVE  StateCovered' /\ CallCovered(s)'
<1>0. /\ TypeOK /\ StateCovered /\ CallCovered(s) /\ \A t \in Slots : t = s
  BY DEF GuardInv, OneCall
<1>h. HeadRev \in Nat /\ HeadRev > 0
  BY <1>0, HeadType
<1>o. op[s].gen \in 0..MaxSessions /\ op[s].data \in Content /\ op[s].rev \in Nat
  BY <1>0, OpFields
<1>1. CASE StartUnlock(s)
  <2>1. /\ op'[s].pc = "read" /\ op'[s].gen = opened + 1 /\ op'[s].rev = 0 /\ op'[s].meta = meta
    BY <1>0, <1>1 DEF StartUnlock, TypeOK, Idle, NoRev
  <2>2. StateCovered'
    BY <1>0, <1>1, <2>1, <1>h, StateKept, Constants DEF StartUnlock, TypeOK
  <2>3. CallCovered(s)'
    BY <1>0, <1>1, <2>1, Constants DEF StartUnlock, CallCovered, UnlockCovered, WriteCovered,
       UnlockPcs, WritePcs, At, StateCovered, FreshSessions, Sessions, TypeOK
  <2> QED BY <2>2, <2>3
<1>2. CASE UnlockMetadata(s)
  <2>1. \/ op'[s].pc = "rev" /\ op'[s].rev = HeadRev /\ op'[s].gen = op[s].gen
        \/ op'[s].pc = "idle" /\ op'[s].rev = 0
        \/ op'[s].pc = "cache" /\ op'[s].rev = op[s].rev /\ op'[s].gen = op[s].gen /\ meta # None /\ meta.eTag = HeadRev
    BY <1>0, <1>2, GotoFields, GotoRevFields, FinishFields DEF UnlockMetadata, Refetches, Conflicts,
       Unchanged, CallCovered, UnlockCovered, UnlockPcs, At
  <2>2. StateCovered'
    <3>1. op[s].gen \in Sessions /\ tree[op[s].gen] = None /\ op[s].gen <= opened /\ op'[s].rev <= HeadRev
      BY <1>0, <1>2, <2>1, <1>h DEF UnlockMetadata, CallCovered, UnlockCovered, UnlockPcs, At, StateCovered, RevisionsBounded
    <3> QED BY <1>0, <1>2, <3>1, LearnKept DEF UnlockMetadata
  <2>3. CallCovered(s)'
    BY <1>0, <1>2, <2>1 DEF UnlockMetadata, CallCovered, UnlockCovered, WriteCovered, Learn, Holds, Cloud, HeadRev,
       UnlockPcs, WritePcs, At, StateCovered, CacheCovered, TypeOK
  <2> QED BY <2>2, <2>3
<1>3. CASE UnlockOffline(s)
  <2>1. op'[s].pc = "cache" /\ op'[s].gen = op[s].gen /\ op'[s].rev = op[s].rev
    BY <1>0, <1>3, GotoFields DEF UnlockOffline
  <2>2. StateCovered'
    BY <1>0, <1>3, <2>1, <1>h, StateKept DEF UnlockOffline, StateCovered, RevisionsBounded, TypeOK
  <2>3. CallCovered(s)'
    BY <1>0, <1>3, <2>1 DEF UnlockOffline, CallCovered, UnlockCovered, WriteCovered,
       UnlockPcs, WritePcs, At, Holds
  <2> QED BY <2>2, <2>3
<1>4. CASE ReadCache(s)
  <2>1. \/ op'[s].pc = "idle" /\ op'[s].rev = 0
        \/ /\ op'[s].pc = "load" /\ op'[s].gen = op[s].gen /\ op'[s].rev = op[s].rev
           /\ op'[s].data = blob /\ blob # None
    BY <1>0, <1>4, GotoDataFields, FinishFields DEF ReadCache
  <2>2. StateCovered'
    BY <1>0, <1>4, <2>1, <1>h, StateKept DEF ReadCache, StateCovered, RevisionsBounded, TypeOK
  <2>3. CallCovered(s)'
    BY <1>0, <1>4, <2>1 DEF ReadCache, CallCovered, UnlockCovered, WriteCovered,
       UnlockPcs, WritePcs, At, Holds
  <2> QED BY <2>2, <2>3
<1>5. CASE FetchRevision(s)
  <2>1. op'[s].pc = "media" /\ op'[s].gen = op[s].gen /\ op'[s].rev = op[s].rev
    BY <1>0, <1>5, GotoFields DEF FetchRevision
  <2>2. StateCovered'
    <3>1. op[s].gen \in Sessions /\ tree[op[s].gen] = None /\ op[s].gen <= opened /\ op'[s].rev <= HeadRev
      BY <1>0, <1>5, <2>1, <1>h DEF FetchRevision, CallCovered, UnlockCovered, UnlockPcs, At, StateCovered, RevisionsBounded
    <3> QED BY <1>0, <1>5, <3>1, LearnKept DEF FetchRevision
  <2>3. CallCovered(s)'
    BY <1>0, <1>5, <2>1 DEF FetchRevision, CallCovered, UnlockCovered, WriteCovered, Learn, Cloud, HeadRev,
       UnlockPcs, WritePcs, At, Holds
  <2> QED BY <2>2, <2>3
<1>6. CASE FetchMedia(s)
  <2>1. op'[s].pc = "ublob" /\ op'[s].gen = op[s].gen /\ op'[s].rev = op[s].rev /\ op'[s].data = Cloud
    BY <1>0, <1>6 DEF FetchMedia, TypeOK, Op
  <2>2. StateCovered'
    BY <1>0, <1>6, <2>1, <1>h, StateKept DEF FetchMedia, StateCovered, RevisionsBounded, TypeOK
  <2>3. CallCovered(s)'
    BY <1>0, <1>6, <2>1 DEF FetchMedia, CallCovered, UnlockCovered, WriteCovered, Cloud, HeadRev,
       UnlockPcs, WritePcs, At, Holds, StateCovered, CacheCovered
  <2> QED BY <2>2, <2>3
<1>7. CASE LoadVault(s)
  <2>1. op'[s].pc = "idle" /\ op'[s].rev = 0
    BY <1>0, <1>7, FinishFields DEF LoadVault
  <2>2. /\ op[s].gen \in Sessions /\ op[s].gen <= opened /\ blob = op[s].data
        /\ Holds(op[s].data, known[op[s].gen])
    BY <1>0, <1>7 DEF LoadVault, CallCovered, UnlockCovered, UnlockPcs, At
  <2>3. RevisionsBounded' /\ CacheCovered'
    BY <1>0, <1>7, <2>1, <1>h DEF LoadVault, StateCovered, RevisionsBounded, CacheCovered, Holds, Cloud, HeadRev
  <2>4. FreshSessions'
    BY <1>0, <1>7, <2>2, Constants DEF LoadVault, StateCovered, FreshSessions, TypeOK, Sessions
  <2>5. SessionCovered' /\ KnownRevisionSeen'
    BY <1>0, <1>7, <2>2, <1>o, Constants DEF LoadVault, StateCovered, SessionCovered,
       KnownRevisionSeen, Holds, TypeOK, NoRev
  <2>6. CallCovered(s)'
    BY <2>1, EndedCovered
  <2> QED BY <2>3, <2>4, <2>5, <2>6 DEF StateCovered
<1> QED BY <1>1, <1>2, <1>3, <1>4, <1>5, <1>6, <1>7 DEF UnlockStep

\* What a new revision does to the sequence of revisions.
LEMMA AppendFacts ==
    ASSUME TypeOK, NEW c \in Content, revisions' = Append(revisions, c)
    PROVE  /\ HeadRev' = HeadRev + 1 /\ Cloud' = c
           /\ \A r \in 1..HeadRev : revisions'[r] = revisions[r]
  BY DEF TypeOK, HeadRev, Cloud

\* A revision that covers the cache keeps what the shared state promises; a session
\* may learn it when its tree is the content.
LEMMA RevisionKept ==
    ASSUME TypeOK, TypeOK', StateCovered, NEW c \in Content, revisions' = Append(revisions, c),
           meta # None => Holds(c, meta.eTag),
           \A t \in Slots : op'[t].rev <= HeadRev + 1,
           \A g \in Sessions : \/ known'[g] = known[g]
                               \/ known'[g] = HeadRev + 1 /\ tree[g] # None /\ c = tree[g],
           UNCHANGED <<blob, meta, session, opened, tree>>
    PROVE  StateCovered'
<1>1. /\ HeadRev' = HeadRev + 1 /\ Cloud' = c /\ HeadRev \in Nat
      /\ \A r \in 1..HeadRev : revisions'[r] = revisions[r]
      /\ revisions'[HeadRev + 1] = c
  BY AppendFacts, HeadType DEF TypeOK, HeadRev
<1>2. \A g \in Sessions : known[g] \in Nat
  BY DEF TypeOK
<1>3. meta # None => meta.eTag \in Nat
  BY DEF TypeOK, CacheMeta
<1>4. RevisionsBounded'
  BY <1>1, <1>2, <1>3 DEF RevisionsBounded, StateCovered
<1>5. FreshSessions' /\ SessionCovered'
  BY DEF FreshSessions, SessionCovered, StateCovered
<1>a. \A r \in Nat : r # 0 /\ r <= HeadRev => revisions'[r] = revisions[r]
  <2> SUFFICES ASSUME NEW r \in Nat, r # 0, r <= HeadRev PROVE r \in 1..HeadRev
    BY <1>1
  <2> QED BY <1>1
<1>6. CacheCovered'
  <2>1. meta # None /\ meta.eTag # 0 => revisions'[meta.eTag] = revisions[meta.eTag]
    BY <1>a, <1>3 DEF StateCovered, RevisionsBounded
  <2> QED BY <1>1, <2>1 DEF CacheCovered, StateCovered, Holds, NoRev
<1>7. KnownRevisionSeen'
  <2>1. \A g \in Sessions : known[g] # 0 => revisions'[known[g]] = revisions[known[g]]
    BY <1>a, <1>2 DEF StateCovered, RevisionsBounded
  <2> QED BY <1>1, <2>1 DEF KnownRevisionSeen, StateCovered, NoRev
<1> QED BY <1>4, <1>5, <1>6, <1>7 DEF StateCovered

\* The call that a save or a forced save begins.
LEMMA StartFields ==
    ASSUME TypeOK, NEW s \in Slots, NEW p, NEW g, NEW d,
           op' = [op EXCEPT ![s] = [Idle EXCEPT !.pc = p, !.gen = g, !.data = d]]
    PROVE  op'[s].pc = p /\ op'[s].gen = g /\ op'[s].data = d /\ op'[s].rev = 0
  BY DEF TypeOK, Idle, NoRev

\* A save of the unlocked session's tree covers the cache.
LEMMA TreeCovers ==
    ASSUME StateCovered, session # 0, meta # None PROVE Holds(tree[session], meta.eTag)
  BY DEF StateCovered, CacheCovered, SessionCovered, Holds

\* What covered the cache covers it after another revision is added.
LEMMA AppendedCovers ==
    ASSUME TypeOK, RevisionsBounded, NEW c \in Content, revisions' = Append(revisions, c),
           meta # None => Holds(c, meta.eTag)
    PROVE  /\ meta # None /\ meta.eTag # 0 => revisions'[meta.eTag] \subseteq c
           /\ revisions'[HeadRev + 1] = c /\ Cloud' = c
<1>1. /\ HeadRev' = HeadRev + 1 /\ Cloud' = c /\ HeadRev \in Nat
      /\ \A r \in 1..HeadRev : revisions'[r] = revisions[r]
  BY AppendFacts, HeadType
<1>2. meta # None => meta.eTag \in Nat /\ meta.eTag <= HeadRev
  BY DEF TypeOK, CacheMeta, RevisionsBounded
<1>3. meta # None /\ meta.eTag # 0 => meta.eTag \in 1..HeadRev
  BY <1>1, <1>2
<1>4. meta # None /\ meta.eTag # 0 => revisions[meta.eTag] \subseteq c
  BY DEF Holds, NoRev
<1>5. revisions'[HeadRev + 1] = c
  BY <1>1 DEF Cloud
<1> QED BY <1>1, <1>3, <1>4, <1>5

LEMMA GuardSave ==
    ASSUME GuardInv, TypeOK', OneCall, NEW s \in Slots, SaveStep(s)
    PROVE  StateCovered' /\ CallCovered(s)'
<1>0. /\ TypeOK /\ StateCovered /\ CallCovered(s) /\ \A t \in Slots : t = s
  BY DEF GuardInv, OneCall
<1>h. HeadRev \in Nat /\ HeadRev > 0 /\ op[s].rev <= HeadRev
  BY <1>0, HeadType DEF StateCovered, RevisionsBounded
<1>o. op[s].gen \in 0..MaxSessions /\ op[s].data \in Content /\ op[s].rev \in Nat
  BY <1>0, OpFields
<1>1. ASSUME NEW e \in Edits, Mutate(s, e) PROVE StateCovered' /\ CallCovered(s)'
  <2>1. /\ op'[s].pc = "check" /\ op'[s].gen = session /\ op'[s].rev = 0
        /\ op'[s].data = tree[session] \cup {e}
    BY <1>0, <1>1, StartFields DEF Mutate
  <2>2. session \in Sessions /\ tree[session] \in Content /\ tree'[session] = tree[session] \cup {e}
    BY <1>0, <1>1, OpenedType DEF Mutate, TypeOK
  <2>3. \A g \in Sessions : g # session => tree'[g] = tree[g]
    BY <1>0, <1>1 DEF Mutate, TypeOK
  <2>4. RevisionsBounded' /\ CacheCovered'
    BY <1>0, <1>1, <2>1, <1>h DEF Mutate, StateCovered, RevisionsBounded, CacheCovered, Holds, Cloud, HeadRev
  <2>5. FreshSessions'
    BY <1>0, <1>1, <2>2, <2>3 DEF Mutate, StateCovered, FreshSessions, SessionCovered
  <2>6. SessionCovered'
    BY <1>0, <1>1, <2>2 DEF Mutate, StateCovered, SessionCovered, TypeOK
  <2>7. KnownRevisionSeen'
    BY <1>0, <1>1, <2>2, <2>3 DEF Mutate, StateCovered, KnownRevisionSeen, SessionCovered
  <2>8. meta # None => Holds(tree[session], meta.eTag)
    BY <1>0, <1>1, TreeCovers DEF Mutate
  <2>9. CallCovered(s)'
    BY <1>1, <2>1, <2>2, <2>8 DEF Mutate, Options, CallCovered, UnlockCovered, WriteCovered,
       UnlockPcs, WritePcs, At, Holds
  <2> QED BY <2>4, <2>5, <2>6, <2>7, <2>9 DEF StateCovered
<1>2. CASE RetrySync(s)
  <2>1. /\ op'[s].pc = "check" /\ op'[s].gen = session /\ op'[s].rev = 0
        /\ op'[s].data = tree[session]
    BY <1>0, <1>2 DEF RetrySync, TypeOK, Idle, NoRev
  <2>2. StateCovered'
    BY <1>0, <1>2, <2>1, <1>h, StateKept DEF RetrySync, TypeOK
  <2>3. meta # None => Holds(tree[session], meta.eTag)
    BY <1>0, <1>2, TreeCovers DEF RetrySync
  <2>4. CallCovered(s)'
    BY <1>2, <2>1, <2>3 DEF RetrySync, Options, CallCovered, UnlockCovered, WriteCovered,
       UnlockPcs, WritePcs, At, Holds
  <2> QED BY <2>2, <2>4
<1>3. CASE CheckRevision(s)
  <2>1. \/ op'[s].pc = "idle" /\ op'[s].rev = 0
        \/ op'[s].pc = "upload" /\ op'[s].gen = op[s].gen /\ op'[s].data = op[s].data /\ op'[s].rev = HeadRev
    BY <1>0, <1>3, GotoRevFields, FinishFields DEF CheckRevision
  <2>2. StateCovered'
    BY <1>0, <1>3, <2>1, <1>h, StateKept DEF CheckRevision, TypeOK
  <2>3. CallCovered(s)'
    BY <1>0, <1>3, <2>1 DEF CheckRevision, CallCovered, UnlockCovered, WriteCovered,
       UnlockPcs, WritePcs, At, Holds
  <2> QED BY <2>2, <2>3
<1>4. CASE Upload(s)
  <2>1. /\ op'[s].pc = "pblob" /\ op'[s].gen = op[s].gen /\ op'[s].data = op[s].data
        /\ op'[s].rev = HeadRev + 1
    BY <1>0, <1>4 DEF Upload, TypeOK, Op
  <2>2. /\ op[s].gen # Options => op[s].data = tree[op[s].gen]
        /\ meta # None => Holds(op[s].data, meta.eTag)
        /\ session # 0 => op[s].data \subseteq tree[session]
    BY <1>0, <1>4 DEF Upload, CallCovered, WriteCovered, WritePcs, At
  <2>3. \A g \in Sessions : \/ known'[g] = known[g]
                            \/ known'[g] = HeadRev + 1 /\ tree[g] # None /\ op[s].data = tree[g]
    BY <1>4, <1>o, <2>2, Constants DEF Upload, Learn, Sessions, Options
  <2>4. \A t \in Slots : op'[t].rev <= HeadRev + 1
    BY <1>0, <2>1, <1>h
  <2>5. StateCovered'
    BY <1>0, <1>4, <1>o, <2>2, <2>3, <2>4, RevisionKept DEF Upload
  <2>6. /\ meta # None /\ meta.eTag # 0 => revisions'[meta.eTag] \subseteq op[s].data
        /\ revisions'[HeadRev + 1] = op[s].data /\ Cloud' = op[s].data
    BY <1>0, <1>4, <1>o, <2>2, AppendedCovers DEF Upload, StateCovered
  <2>7. CallCovered(s)'
    BY <1>4, <2>1, <2>2, <2>6 DEF Upload, CallCovered, UnlockCovered,
       WriteCovered, UnlockPcs, WritePcs, At, Holds, NoRev
  <2> QED BY <2>5, <2>7
<1>5. CASE UploadAnswerLost(s)
  <2>1. /\ op'[s].pc = "fblob" /\ op'[s].gen = op[s].gen /\ op'[s].data = op[s].data
        /\ op'[s].rev = op[s].rev
    BY <1>0, <1>5, GotoFields DEF UploadAnswerLost
  <2>2. /\ op[s].gen # Options => op[s].data = tree[op[s].gen]
        /\ meta # None => Holds(op[s].data, meta.eTag)
        /\ session # 0 => op[s].data \subseteq tree[session]
    BY <1>0, <1>5 DEF UploadAnswerLost, CallCovered, WriteCovered, WritePcs, At
  <2>3. \A t \in Slots : op'[t].rev <= HeadRev + 1
    BY <1>0, <2>1, <1>h, <1>o
  <2>4. StateCovered'
    BY <1>0, <1>5, <1>o, <2>2, <2>3, RevisionKept DEF UploadAnswerLost
  <2>5. meta # None /\ meta.eTag # 0 => revisions'[meta.eTag] \subseteq op[s].data
    BY <1>0, <1>5, <1>o, <2>2, AppendedCovers DEF UploadAnswerLost, StateCovered
  <2>6. CallCovered(s)'
    BY <1>5, <2>1, <2>2, <2>5 DEF UploadAnswerLost, CallCovered, UnlockCovered,
       WriteCovered, UnlockPcs, WritePcs, At, Holds, NoRev
  <2> QED BY <2>4, <2>6
<1>6. CASE SaveFallsBack(s)
  <2>1. /\ op'[s].pc = "fblob" /\ op'[s].gen = op[s].gen /\ op'[s].data = op[s].data
        /\ op'[s].rev = op[s].rev
    BY <1>0, <1>6, GotoFields DEF SaveFallsBack
  <2>2. StateCovered'
    BY <1>0, <1>6, <2>1, <1>h, StateKept DEF SaveFallsBack, TypeOK
  <2>3. CallCovered(s)'
    BY <1>0, <1>6, <2>1 DEF SaveFallsBack, CallCovered, UnlockCovered, WriteCovered,
       UnlockPcs, WritePcs, At, Holds
  <2> QED BY <2>2, <2>3
<1> QED BY <1>1, <1>2, <1>3, <1>4, <1>5, <1>6 DEF SaveStep

LEMMA GuardForce ==
    ASSUME GuardInv, TypeOK', OneCall, KeepLocalOnly, NEW s \in Slots, ForceStep(s)
    PROVE  StateCovered' /\ CallCovered(s)'
<1>0. /\ TypeOK /\ StateCovered /\ CallCovered(s) /\ \A t \in Slots : t = s
  BY DEF GuardInv, OneCall
<1>h. HeadRev \in Nat /\ HeadRev > 0 /\ op[s].rev <= HeadRev
  BY <1>0, HeadType DEF StateCovered, RevisionsBounded
<1>o. op[s].gen \in 0..MaxSessions /\ op[s].data \in Content /\ op[s].rev \in Nat
  BY <1>0, OpFields
<1>1. CASE ForceResync(s)
  <2>1. /\ op'[s].pc = "force" /\ op'[s].gen = session /\ op'[s].rev = 0
        /\ op'[s].data = tree[session]
    BY <1>0, <1>1 DEF ForceResync, TypeOK, Idle, NoRev
  <2>2. StateCovered'
    BY <1>0, <1>1, <2>1, <1>h, StateKept DEF ForceResync, TypeOK
  <2>3. meta # None => Holds(tree[session], meta.eTag)
    BY <1>0, <1>1, TreeCovers DEF ForceResync
  <2>4. CallCovered(s)'
    BY <1>1, <2>1, <2>3 DEF ForceResync, CallCovered, UnlockCovered, WriteCovered,
       UnlockPcs, WritePcs, At, Holds
  <2> QED BY <2>2, <2>4
<1>2. ASSUME NEW resolution \in Resolutions, ResolveConflict(s, resolution)
      PROVE  StateCovered' /\ CallCovered(s)'
  <2>1. op'[s].pc = "lread" /\ op'[s].rev = 0 /\ op'[s].gen = Options
    BY <1>0, <1>2 DEF ResolveConflict, KeepLocalOnly, TypeOK, Idle, NoRev
  <2>2. StateCovered'
    BY <1>0, <1>2, <2>1, <1>h, StateKept DEF ResolveConflict, TypeOK
  <2>3. CallCovered(s)'
    BY <2>1 DEF CallCovered, UnlockCovered, WriteCovered, UnlockPcs, WritePcs, At
  <2> QED BY <2>2, <2>3
<1>3. CASE ReadLocalCopy(s)
  <2>1. \/ op'[s].pc = "idle" /\ op'[s].rev = 0
        \/ /\ op'[s].pc = "force" /\ op'[s].gen = op[s].gen /\ op'[s].data = blob
           /\ op'[s].rev = op[s].rev /\ blob # None
    <3>1. CASE blob = None
      BY <1>0, <1>3, <3>1, FinishFields DEF ReadLocalCopy
    <3>2. CASE blob # None
      BY <1>0, <1>3, <3>2 DEF ReadLocalCopy, TypeOK, Op
    <3> QED BY <3>1, <3>2
  <2>2. StateCovered'
    BY <1>0, <1>3, <2>1, <1>h, StateKept DEF ReadLocalCopy, StateCovered, RevisionsBounded, TypeOK
  <2>3. op[s].gen = Options
    BY <1>0, <1>3 DEF ReadLocalCopy, CallCovered, At
  <2>4. CallCovered(s)'
    BY <1>0, <1>3, <2>1, <2>3 DEF ReadLocalCopy, CallCovered, UnlockCovered, WriteCovered,
       UnlockPcs, WritePcs, At, Holds, StateCovered, CacheCovered, SessionCovered
  <2> QED BY <2>2, <2>4
<1>4. CASE ForceUpload(s)
  <2>1. /\ op'[s].pc = "xblob" /\ op'[s].gen = op[s].gen /\ op'[s].data = op[s].data
        /\ op'[s].rev = HeadRev + 1
    BY <1>0, <1>4 DEF ForceUpload, TypeOK, Op
  <2>2. /\ op[s].gen # Options => op[s].data = tree[op[s].gen]
        /\ meta # None => Holds(op[s].data, meta.eTag)
        /\ session # 0 => op[s].data \subseteq tree[session]
    BY <1>0, <1>4 DEF ForceUpload, CallCovered, WriteCovered, WritePcs, At
  <2>3. \A g \in Sessions : \/ known'[g] = known[g]
                            \/ known'[g] = HeadRev + 1 /\ tree[g] # None /\ op[s].data = tree[g]
    BY <1>4, <1>o, <2>2, Constants DEF ForceUpload, Learn, Sessions, Options
  <2>4. \A t \in Slots : op'[t].rev <= HeadRev + 1
    BY <1>0, <2>1, <1>h
  <2>5. StateCovered'
    BY <1>0, <1>4, <1>o, <2>2, <2>3, <2>4, RevisionKept DEF ForceUpload
  <2>6. /\ meta # None /\ meta.eTag # 0 => revisions'[meta.eTag] \subseteq op[s].data
        /\ revisions'[HeadRev + 1] = op[s].data /\ Cloud' = op[s].data
    BY <1>0, <1>4, <1>o, <2>2, AppendedCovers DEF ForceUpload, StateCovered
  <2>7. CallCovered(s)'
    BY <1>4, <2>1, <2>2, <2>6 DEF ForceUpload, CallCovered, UnlockCovered,
       WriteCovered, UnlockPcs, WritePcs, At, Holds, NoRev
  <2> QED BY <2>5, <2>7
<1>5. ~ReadCloudCopy(s) /\ ~ReadCloudRevision(s)
  BY <1>0 DEF ReadCloudCopy, ReadCloudRevision, CallCovered, At, UnlockPcs, WritePcs
<1> QED BY <1>1, <1>2, <1>3, <1>4, <1>5 DEF ForceStep

LEMMA GuardCache ==
    ASSUME GuardInv, TypeOK', OneCall, NEW s \in Slots, CacheStep(s)
    PROVE  StateCovered' /\ CallCovered(s)'
<1>0. /\ TypeOK /\ StateCovered /\ CallCovered(s) /\ \A t \in Slots : t = s
  BY DEF GuardInv, OneCall
<1>h. HeadRev \in Nat /\ HeadRev > 0 /\ op[s].rev <= HeadRev
  BY <1>0, HeadType DEF StateCovered, RevisionsBounded
<1>o. op[s].gen \in 0..MaxSessions /\ op[s].data \in Content /\ op[s].rev \in Nat
  BY <1>0, OpFields
<1>1. CASE WriteCacheBlob(s)
  <2>1. /\ op'[s].gen = op[s].gen /\ op'[s].data = op[s].data /\ op'[s].rev = op[s].rev
        /\ op'[s].meta = op[s].meta
        /\ \/ op[s].pc = "ublob" /\ op'[s].pc = "umeta"
           \/ op[s].pc = "pblob" /\ op'[s].pc = "pmeta"
           \/ op[s].pc = "fblob" /\ op'[s].pc = "fread"
           \/ op[s].pc = "xblob" /\ op'[s].pc = "xmeta"
    BY <1>0, <1>1, GotoFields DEF WriteCacheBlob, AfterBlob, CallCovered, UnlockPcs, WritePcs
  <2>2. /\ meta # None => Holds(op[s].data, meta.eTag)
        /\ session # 0 => op[s].data \subseteq tree[session]
    BY <1>0, <2>1 DEF CallCovered, UnlockCovered, WriteCovered, UnlockPcs, WritePcs, At
  <2>3. RevisionsBounded' /\ FreshSessions' /\ KnownRevisionSeen'
    BY <1>0, <1>1, <2>1, <1>h DEF WriteCacheBlob, StateCovered, RevisionsBounded, FreshSessions,
       KnownRevisionSeen, HeadRev
  <2>4. CacheCovered' /\ SessionCovered'
    BY <1>0, <1>1, <2>2, <1>o, Constants DEF WriteCacheBlob, StateCovered, CacheCovered,
       SessionCovered, Holds, Cloud, HeadRev
  <2>5. CallCovered(s)'
    BY <1>0, <1>1, <2>1 DEF WriteCacheBlob, CallCovered, UnlockCovered, WriteCovered,
       UnlockPcs, WritePcs, At, Holds, Cloud, HeadRev
  <2> QED BY <2>3, <2>4, <2>5 DEF StateCovered
<1>2. CASE WriteCacheMeta(s)
  <2>1. /\ op[s].pc \in {"umeta", "pmeta", "xmeta"}
        /\ \/ op'[s].pc = "idle" /\ op'[s].rev = 0
           \/ /\ op[s].pc = "umeta" /\ op'[s].pc = "load" /\ op'[s].gen = op[s].gen
              /\ op'[s].data = op[s].data /\ op'[s].rev = op[s].rev
    BY <1>0, <1>2, GotoFields, FinishFields DEF WriteCacheMeta, CallCovered, UnlockPcs, WritePcs, At
  <2>2. blob = op[s].data /\ Holds(op[s].data, op[s].rev) /\ Holds(Cloud, op[s].rev)
    BY <1>0, <2>1 DEF CallCovered, UnlockCovered, WriteCovered, UnlockPcs, WritePcs
  <2>3. meta'.eTag = op[s].rev
    BY <1>2 DEF WriteCacheMeta, CleanMeta
  <2>4. RevisionsBounded' /\ FreshSessions' /\ KnownRevisionSeen'
    BY <1>0, <1>2, <2>1, <2>3, <1>h DEF WriteCacheMeta, StateCovered, RevisionsBounded, FreshSessions,
       KnownRevisionSeen, HeadRev
  <2>5. CacheCovered' /\ SessionCovered'
    BY <1>0, <1>2, <2>2, <2>3 DEF WriteCacheMeta, StateCovered, CacheCovered,
       SessionCovered, Holds, Cloud, HeadRev
  <2>6. CallCovered(s)'
    BY <1>0, <1>2, <2>1 DEF WriteCacheMeta, CallCovered, UnlockCovered, WriteCovered,
       UnlockPcs, WritePcs, At, Holds
  <2> QED BY <2>4, <2>5, <2>6 DEF StateCovered
<1>3. CASE ReadFallbackMeta(s)
  <2>1. /\ op'[s].pc = "fmeta" /\ op'[s].gen = op[s].gen /\ op'[s].data = op[s].data
        /\ op'[s].rev = op[s].rev /\ op'[s].meta = meta
    BY <1>0, <1>3 DEF ReadFallbackMeta, TypeOK, Op
  <2>2. StateCovered'
    BY <1>0, <1>3, <2>1, <1>h, StateKept DEF ReadFallbackMeta, TypeOK
  <2>3. CallCovered(s)'
    BY <1>0, <1>3, <2>1 DEF ReadFallbackMeta, CallCovered, UnlockCovered, WriteCovered,
       UnlockPcs, WritePcs, At, Holds
  <2> QED BY <2>2, <2>3
<1>4. CASE WriteFallbackMeta(s)
  <2>1. op'[s].pc = "idle" /\ op'[s].rev = 0
    BY <1>0, <1>4, FinishFields DEF WriteFallbackMeta
  <2>2. /\ op[s].meta = meta /\ blob = op[s].data
        /\ meta # None => Holds(op[s].data, meta.eTag)
    BY <1>0, <1>4 DEF WriteFallbackMeta, CallCovered, WriteCovered, WritePcs, At
  <2>3. meta'.eTag = IF meta = None THEN 0 ELSE meta.eTag
    BY <1>4, <2>2 DEF WriteFallbackMeta, DirtyMeta, NoRev
  <2>4. RevisionsBounded' /\ FreshSessions' /\ KnownRevisionSeen'
    BY <1>0, <1>4, <2>1, <2>3, <1>h DEF WriteFallbackMeta, StateCovered, RevisionsBounded, FreshSessions,
       KnownRevisionSeen, HeadRev
  <2>5. CacheCovered' /\ SessionCovered'
    BY <1>0, <1>4, <2>2, <2>3 DEF WriteFallbackMeta, StateCovered, CacheCovered,
       SessionCovered, Holds, Cloud, HeadRev, NoRev
  <2>6. CallCovered(s)'
    BY <2>1, EndedCovered
  <2> QED BY <2>4, <2>5, <2>6 DEF StateCovered
<1>5. CASE StorageFails(s)
  <2>1. \/ op'[s].pc = "idle" /\ op'[s].rev = 0
        \/ /\ op[s].pc \in {"pblob", "pmeta"} /\ op'[s].pc = "fblob" /\ op'[s].gen = op[s].gen
           /\ op'[s].data = op[s].data /\ op'[s].rev = op[s].rev
    BY <1>0, <1>5, GotoFields, FinishFields DEF StorageFails
  <2>2. StateCovered'
    BY <1>0, <1>5, <2>1, <1>h, StateKept DEF StorageFails, TypeOK
  <2>3. CallCovered(s)'
    BY <1>0, <1>5, <2>1 DEF StorageFails, CallCovered, UnlockCovered, WriteCovered,
       UnlockPcs, WritePcs, At, Holds
  <2> QED BY <2>2, <2>3
<1>6. CASE RequestThrows(s)
  <2>1. op'[s].pc = "idle" /\ op'[s].rev = 0
    BY <1>0, <1>6, FinishFields DEF RequestThrows
  <2>2. StateCovered'
    BY <1>0, <1>6, <2>1, <1>h, StateKept DEF RequestThrows, TypeOK
  <2> QED BY <2>1, <2>2, EndedCovered
<1> QED BY <1>1, <1>2, <1>3, <1>4, <1>5, <1>6 DEF CacheStep

\* The other client builds on the head, so what the head covered it still covers.
LEMMA GuardRemoteWrite ==
    ASSUME GuardInv, TypeOK', NEW r \in RemoteEdits, RemoteWrite(r)
    PROVE  StateCovered' /\ \A s \in Slots : CallCovered(s)'
<1>0. TypeOK /\ StateCovered /\ Cloud \cup {r} \in Content /\ HeadRev \in Nat
  BY HeadType DEF GuardInv, Content
<1>1. meta # None => Holds(Cloud \cup {r}, meta.eTag)
  BY <1>0 DEF StateCovered, CacheCovered, Holds
<1>2. \A t \in Slots : op'[t].rev <= HeadRev + 1
  <2> SUFFICES ASSUME NEW t \in Slots PROVE op[t].rev <= HeadRev + 1
    BY DEF RemoteWrite
  <2>1. op[t].rev \in Nat /\ op[t].rev <= HeadRev
    BY <1>0, OpFields DEF StateCovered, RevisionsBounded
  <2> QED BY <1>0, <2>1
<1>3. StateCovered'
  BY <1>0, <1>1, <1>2, RevisionKept DEF RemoteWrite
<1>4. ASSUME NEW s \in Slots PROVE CallCovered(s)'
  <2>1. CallCovered(s) /\ op[s].rev \in Nat /\ op[s].gen \in 0..MaxSessions
    BY <1>0, OpFields DEF GuardInv
  <2>2. Cloud' = Cloud \cup {r} /\ \A n \in Nat : n # 0 /\ n <= HeadRev => revisions'[n] = revisions[n]
    <3>1. Cloud' = Cloud \cup {r} /\ \A n \in 1..HeadRev : revisions'[n] = revisions[n]
      BY <1>0, AppendFacts DEF RemoteWrite
    <3>2. \A n \in Nat : n # 0 /\ n <= HeadRev => n \in 1..HeadRev
      BY <1>0
    <3> QED BY <3>1, <3>2
  <2>3. op[s].rev # 0 => revisions'[op[s].rev] = revisions[op[s].rev]
    BY <1>0, <2>1, <2>2 DEF StateCovered, RevisionsBounded
  <2>4. meta # None /\ meta.eTag # 0 => revisions'[meta.eTag] = revisions[meta.eTag]
    <3>1. meta # None => meta.eTag \in Nat
      BY <1>0 DEF TypeOK, CacheMeta
    <3> QED BY <1>0, <3>1, <2>2 DEF StateCovered, RevisionsBounded
  <2>5. op[s].gen \in Sessions /\ known[op[s].gen] # 0 =>
            revisions'[known[op[s].gen]] = revisions[known[op[s].gen]]
    <3>1. op[s].gen \in Sessions => known[op[s].gen] \in Nat
      BY <1>0 DEF TypeOK
    <3> QED BY <1>0, <3>1, <2>2 DEF StateCovered, RevisionsBounded
  <2>6. UnlockCovered(s)'
    BY <2>1, <2>2, <2>3, <2>4, <2>5 DEF RemoteWrite, CallCovered, UnlockCovered, UnlockPcs, At, Holds, NoRev
  <2>7. WriteCovered(s)'
    BY <2>1, <2>2, <2>3, <2>4 DEF RemoteWrite, CallCovered, WriteCovered, WritePcs, At, Holds, NoRev
  <2> QED BY <2>1, <2>6, <2>7 DEF RemoteWrite, CallCovered, At
<1> QED BY <1>3, <1>4

LEMMA GuardEnvironment ==
    ASSUME GuardInv, TypeOK', Environment
    PROVE  StateCovered' /\ \A s \in Slots : CallCovered(s)'
<1>0. TypeOK /\ StateCovered /\ \A s \in Slots : CallCovered(s)
  BY DEF GuardInv
<1>h. HeadRev \in Nat
  BY <1>0, HeadType
<1>1. CASE Lock
  <2>1. StateCovered'
    BY <1>0, <1>1 DEF Lock, StateCovered, RevisionsBounded, FreshSessions, CacheCovered,
       SessionCovered, KnownRevisionSeen, Holds, Cloud, HeadRev
  <2>2. \A s \in Slots : CallCovered(s)'
    BY <1>0, <1>1 DEF Lock, CallCovered, UnlockCovered, WriteCovered, At, Holds, Cloud, HeadRev
  <2> QED BY <2>1, <2>2
<1>2. CASE CheckSyncStatus
  <2>1. StateCovered'
    BY <1>0, <1>2 DEF CheckSyncStatus, StateCovered, RevisionsBounded, FreshSessions, CacheCovered,
       SessionCovered, KnownRevisionSeen, Holds, Cloud, HeadRev
  <2>2. \A s \in Slots : CallCovered(s)'
    BY <1>0, <1>2 DEF CheckSyncStatus, CallCovered, UnlockCovered, WriteCovered, At, Holds, Cloud, HeadRev
  <2> QED BY <2>1, <2>2
<1>3. ASSUME NEW dead \in {Background, Slots}, Crash(dead)
      PROVE  StateCovered' /\ \A s \in Slots : CallCovered(s)'
  <2>1. \A s \in Slots : op'[s] = op[s] \/ (op'[s].pc = "idle" /\ op'[s].rev = 0)
    BY <1>3 DEF Crash, Idle, NoRev
  <2>2. StateCovered'
    BY <1>0, <1>3, <1>h, <2>1 DEF Crash, StateCovered, RevisionsBounded, FreshSessions, CacheCovered,
       SessionCovered, KnownRevisionSeen, Holds, Cloud, HeadRev
  <2>3. ASSUME NEW s \in Slots PROVE CallCovered(s)'
    <3>1. CASE op'[s] = op[s]
      BY <1>0, <1>3, <3>1 DEF Crash, CallCovered, UnlockCovered, WriteCovered, At, Holds, Cloud, HeadRev
    <3> QED BY <2>1, <3>1, EndedCovered
  <2> QED BY <2>2, <2>3
<1>4. ASSUME NEW r \in RemoteEdits, RemoteWrite(r)
      PROVE  StateCovered' /\ \A s \in Slots : CallCovered(s)'
  BY <1>4, GuardRemoteWrite
<1> QED BY <1>1, <1>2, <1>3, <1>4 DEF Environment

LEMMA GuardInit == Init => GuardInv
<1> SUFFICES ASSUME Init PROVE GuardInv
  OBVIOUS
<1>1. HeadRev = 1
  BY DEF Init, HeadRev
<1>2. \A s \in Slots : op[s].pc = "idle" /\ op[s].rev = 0
  BY DEF Init, Idle, NoRev
<1>3. \A g \in Sessions : tree[g] = None /\ known[g] = 0
  BY DEF Init, NoRev
<1>4. meta = None /\ session = 0
  BY DEF Init
<1>5. StateCovered
  BY <1>1, <1>2, <1>3, <1>4 DEF StateCovered, RevisionsBounded, FreshSessions, CacheCovered,
     SessionCovered, KnownRevisionSeen, NoRev
<1>6. \A s \in Slots : CallCovered(s)
  BY <1>2 DEF CallCovered, UnlockCovered, WriteCovered, UnlockPcs, WritePcs, At
<1> QED BY <1>5, <1>6, InitType DEF GuardInv

LEMMA GuardNext ==
    ASSUME OneCall, KeepLocalOnly, GuardInv, [Next]_vars PROVE GuardInv'
<1>1. TypeOK'
  BY NextType DEF GuardInv
<1>2. ASSUME NEW s \in Slots, UnlockStep(s) \/ SaveStep(s) \/ ForceStep(s) \/ CacheStep(s)
      PROVE  GuardInv'
  <2>1. StateCovered' /\ CallCovered(s)'
    BY <1>1, <1>2, GuardUnlock, GuardSave, GuardForce, GuardCache
  <2>2. \A t \in Slots : t = s
    BY DEF OneCall
  <2> QED BY <1>1, <2>1, <2>2 DEF GuardInv
<1>3. CASE Environment
  BY <1>1, <1>3, GuardEnvironment DEF GuardInv
<1>4. CASE UNCHANGED vars
  BY <1>1, <1>4 DEF vars, GuardInv, StateCovered, RevisionsBounded, FreshSessions, CacheCovered,
     SessionCovered, KnownRevisionSeen, CallCovered, UnlockCovered, WriteCovered, At, Holds, Cloud, HeadRev
<1> QED BY <1>2, <1>3, <1>4 DEF Next

\* A session's guard always compares with a revision whose content its tree holds.
THEOREM KnownRevisionIsSeen ==
    ASSUME OneCall, KeepLocalOnly PROVE Spec => []KnownRevisionSeen
<1>1. GuardInv => KnownRevisionSeen
  BY DEF GuardInv, StateCovered
<1>2. GuardInv /\ [Next]_vars => GuardInv'
  BY GuardNext
<1> QED BY <1>1, <1>2, GuardInit, PTL DEF Spec

\* The cached blob holds all of the revision the cache names, so an unlock that
\* finds the eTag unchanged serves a blob that hides nobody's edits.
THEOREM CacheIsSeen ==
    ASSUME OneCall, KeepLocalOnly PROVE Spec => []CacheSeen
<1>1. GuardInv => CacheSeen
  BY DEF GuardInv, StateCovered, CacheCovered, CacheSeen, Holds
<1>2. GuardInv /\ [Next]_vars => GuardInv'
  BY GuardNext
<1> QED BY <1>1, <1>2, GuardInit, PTL DEF Spec

\* Only the save that is at its upload changes Drive and moves on.
LEMMA OverwriteStep ==
    ASSUME TypeOK, OneCall, NEW s \in Slots, [Next]_vars, Overwrites(s)
    PROVE  revisions' = Append(revisions, op[s].data)
<1>0. \A t \in Slots : t = s
  BY DEF OneCall
<1> USE DEF Overwrites, At
<1>1. ASSUME NEW t \in Slots, UnlockStep(t) PROVE FALSE
  BY <1>1 DEF UnlockStep, StartUnlock, UnlockMetadata, UnlockOffline, ReadCache, FetchRevision,
     FetchMedia, LoadVault
<1>2. ASSUME NEW t \in Slots, SaveStep(t) PROVE revisions' = Append(revisions, op[s].data)
  BY <1>0, <1>2 DEF SaveStep, Mutate, RetrySync, CheckRevision, Upload, UploadAnswerLost, SaveFallsBack
<1>3. ASSUME NEW t \in Slots, ForceStep(t) PROVE FALSE
  BY <1>0, <1>3 DEF ForceStep, ForceResync, ResolveConflict, ReadLocalCopy, ForceUpload,
     ReadCloudCopy, ReadCloudRevision
<1>4. ASSUME NEW t \in Slots, CacheStep(t) PROVE FALSE
  BY <1>4 DEF CacheStep, WriteCacheBlob, WriteCacheMeta, ReadFallbackMeta, WriteFallbackMeta,
     StorageFails, RequestThrows
<1>5. ~Environment
  BY DEF Environment, Lock, CheckSyncStatus, Crash, RemoteWrite
<1> QED BY <1>1, <1>2, <1>3, <1>4, <1>5 DEF Next, vars

\* A guarded upload that finds the head still known drops nothing of the head.
THEOREM GuardedUploadsKeepHead ==
    ASSUME OneCall, KeepLocalOnly PROVE Spec => GuardedUploadKeepsHead
<1>1. ASSUME GuardInv, [Next]_vars, NEW s \in Slots, Overwrites(s), known[op[s].gen] = HeadRev
      PROVE  Cloud \subseteq Cloud'
  <2>1. TypeOK /\ StateCovered /\ CallCovered(s) /\ HeadRev \in Nat /\ HeadRev > 0
    BY <1>1, HeadType DEF GuardInv
  <2>2. op[s].gen \in Sessions /\ op[s].data = tree[op[s].gen] /\ op[s].data \in Content
    BY <1>1, <2>1, OpFields, Constants DEF Overwrites, CallCovered, WriteCovered, WritePcs, Sessions, Options
  <2>3. Cloud \subseteq op[s].data
    BY <1>1, <2>1, <2>2, Constants DEF StateCovered, KnownRevisionSeen, Cloud, NoRev
  <2>4. Cloud' = op[s].data
    BY <1>1, <2>1, <2>2, OverwriteStep, AppendFacts
  <2> QED BY <2>3, <2>4
<1>2. GuardInv /\ [Next]_vars => GuardInv'
  BY GuardNext
<1>3. GuardInv /\ [Next]_vars =>
        [\A s \in Slots : Overwrites(s) /\ known[op[s].gen] = HeadRev => Cloud \subseteq Cloud']_vars
  BY <1>1
<1> QED BY <1>2, <1>3, GuardInit, PTL DEF Spec, GuardedUploadKeepsHead

----------------------------------------------------------------------------
(* Acknowledged edits.                                                     *)

\* An ended call relies on nothing.
LEMMA EndedDurable ==
    ASSUME NEW s \in Slots, op'[s].pc = "idle" PROVE DurableCall(s)'
  BY DEF DurableCall, WritePcs, SavePcs, At

\* A step that only moves its call keeps what the shared state promises.
LEMMA DurableStateKept ==
    ASSUME DurableState, UNCHANGED <<revisions, blob, meta, session, tree, acked>>
    PROVE  DurableState'
  BY DEF DurableState, Cloud, HeadRev

LEMMA DurableUnlock ==
    ASSUME DurableInv, TypeOK', OneCall, NEW s \in Slots, UnlockStep(s)
    PROVE  DurableState' /\ DurableCall(s)'
<1>0. TypeOK /\ DurableState /\ DurableCall(s)
  BY DEF DurableInv
<1>1. CASE StartUnlock(s)
  <2>1. op'[s].pc = "read" /\ op'[s].meta = meta
    BY <1>0, <1>1 DEF StartUnlock, TypeOK, Idle
  <2>2. DurableState'
    BY <1>0, <1>1, DurableStateKept DEF StartUnlock
  <2>3. DurableCall(s)'
    BY <1>1, <2>1 DEF StartUnlock, DurableCall, WritePcs, SavePcs, At
  <2> QED BY <2>2, <2>3
<1>2. CASE UnlockMetadata(s)
  <2>1. \/ op'[s].pc = "rev" /\ Refetches(op[s].meta)
        \/ op'[s].pc = "idle"
        \/ op'[s].pc = "cache"
    BY <1>0, <1>2, GotoFields, GotoRevFields, FinishFields DEF UnlockMetadata
  <2>2. op'[s].pc = "rev" => acked \subseteq Cloud
    BY <1>0, <1>2, <2>1 DEF UnlockMetadata, Refetches, DurableCall, DurableState, At
  <2>3. DurableState'
    BY <1>0, <1>2, DurableStateKept DEF UnlockMetadata
  <2>4. DurableCall(s)'
    BY <1>2, <2>1, <2>2 DEF UnlockMetadata, DurableCall, WritePcs, SavePcs, At, Cloud, HeadRev
  <2> QED BY <2>3, <2>4
<1>3. CASE UnlockOffline(s)
  <2>1. op'[s].pc = "cache"
    BY <1>0, <1>3, GotoFields DEF UnlockOffline
  <2>2. DurableState'
    BY <1>0, <1>3, DurableStateKept DEF UnlockOffline
  <2> QED BY <2>1, <2>2 DEF DurableCall, WritePcs, SavePcs, At
<1>4. CASE ReadCache(s)
  <2>1. \/ op'[s].pc = "idle"
        \/ op'[s].pc = "load" /\ op'[s].data = blob /\ blob # None
    BY <1>0, <1>4, GotoDataFields, FinishFields DEF ReadCache
  <2>2. DurableState'
    BY <1>0, <1>4, DurableStateKept DEF ReadCache
  <2>3. DurableCall(s)'
    BY <1>0, <1>4, <2>1 DEF ReadCache, DurableCall, DurableState, WritePcs, SavePcs, At
  <2> QED BY <2>2, <2>3
<1>5. CASE FetchRevision(s)
  <2>1. op'[s].pc = "media"
    BY <1>0, <1>5, GotoFields DEF FetchRevision
  <2>2. DurableState'
    BY <1>0, <1>5, DurableStateKept DEF FetchRevision
  <2>3. DurableCall(s)'
    BY <1>0, <1>5, <2>1 DEF FetchRevision, DurableCall, WritePcs, SavePcs, At, Cloud, HeadRev
  <2> QED BY <2>2, <2>3
<1>6. CASE FetchMedia(s)
  <2>1. op'[s].pc = "ublob" /\ op'[s].data = Cloud
    BY <1>0, <1>6 DEF FetchMedia, TypeOK, Op
  <2>2. DurableState'
    BY <1>0, <1>6, DurableStateKept DEF FetchMedia
  <2>3. DurableCall(s)'
    BY <1>0, <1>6, <2>1 DEF FetchMedia, DurableCall, WritePcs, SavePcs, At, Cloud, HeadRev
  <2> QED BY <2>2, <2>3
<1>7. CASE LoadVault(s)
  <2>1. op'[s].pc = "idle"
    BY <1>0, <1>7, FinishFields DEF LoadVault
  <2>2. acked \subseteq op[s].data
    BY <1>0, <1>7 DEF LoadVault, DurableCall, At
  <2>3. session' # 0 => tree'[session'] = op[s].data
    BY <1>0, <1>7, OpFields DEF LoadVault, TypeOK, Sessions
  <2>4. DurableState'
    BY <1>0, <1>7, <2>2, <2>3 DEF LoadVault, DurableState, Cloud, HeadRev
  <2> QED BY <2>1, <2>4, EndedDurable
<1> QED BY <1>1, <1>2, <1>3, <1>4, <1>5, <1>6, <1>7 DEF UnlockStep

\* A save leaves nothing behind: what it uploads holds every acknowledged edit,
\* so even an upload whose answer is lost keeps them.
LEMMA DurableSave ==
    ASSUME DurableInv, TypeOK', OneCall, NEW s \in Slots, SaveStep(s)
    PROVE  DurableState' /\ DurableCall(s)'
<1>0. TypeOK /\ DurableState /\ DurableCall(s) /\ op[s].data \in Content
  BY OpFields DEF DurableInv
<1>1. ASSUME NEW e \in Edits, Mutate(s, e) PROVE DurableState' /\ DurableCall(s)'
  <2>1. /\ op'[s].pc = "check" /\ op'[s].gen = session /\ op'[s].data = tree[session] \cup {e}
        /\ session # 0 /\ session' = session /\ tree'[session] = tree[session] \cup {e}
    BY <1>0, <1>1, StartFields, OpenedType DEF Mutate, TypeOK
  <2>2. DurableState'
    BY <1>0, <1>1, <2>1 DEF Mutate, DurableState, Cloud, HeadRev
  <2>3. DurableCall(s)'
    BY <1>0, <1>1, <2>1 DEF Mutate, DurableState, DurableCall, WritePcs, SavePcs, At, Options
  <2> QED BY <2>2, <2>3
<1>2. CASE RetrySync(s)
  <2>1. op'[s].pc = "check" /\ op'[s].gen = session /\ op'[s].data = tree[session] /\ session # 0
    BY <1>0, <1>2 DEF RetrySync, TypeOK, Idle
  <2>2. DurableState'
    BY <1>0, <1>2, DurableStateKept DEF RetrySync
  <2>3. DurableCall(s)'
    BY <1>0, <1>2, <2>1 DEF RetrySync, DurableState, DurableCall, WritePcs, SavePcs, At, Options
  <2> QED BY <2>2, <2>3
<1>3. CASE CheckRevision(s)
  <2>1. \/ op'[s].pc = "upload" /\ op'[s].gen = op[s].gen /\ op'[s].data = op[s].data
        \/ op'[s].pc = "idle"
    BY <1>0, <1>3 DEF CheckRevision, TypeOK, Op, Finish, Idle
  <2>2. DurableState'
    BY <1>0, <1>3, DurableStateKept DEF CheckRevision
  <2>3. DurableCall(s)'
    BY <1>0, <1>3, <2>1 DEF CheckRevision, DurableCall, WritePcs, SavePcs, At
  <2> QED BY <2>2, <2>3
<1>4. CASE Upload(s)
  <2>1. op'[s].pc = "pblob" /\ op'[s].gen = op[s].gen /\ op'[s].data = op[s].data
    BY <1>0, <1>4, GotoRevFields DEF Upload
  <2>2. Cloud' = op[s].data /\ acked \subseteq op[s].data
    BY <1>0, <1>4, AppendFacts DEF Upload, DurableCall, WritePcs, At
  <2>3. DurableState'
    BY <1>0, <1>4, <2>2 DEF Upload, DurableState
  <2>4. DurableCall(s)'
    BY <1>0, <1>4, <2>1, <2>2 DEF Upload, DurableCall, WritePcs, SavePcs, At
  <2> QED BY <2>3, <2>4
<1>5. CASE UploadAnswerLost(s)
  <2>1. op'[s].pc = "fblob" /\ op'[s].gen = op[s].gen /\ op'[s].data = op[s].data
    BY <1>0, <1>5, GotoFields DEF UploadAnswerLost
  <2>2. Cloud' = op[s].data /\ acked \subseteq op[s].data
    BY <1>0, <1>5, AppendFacts DEF UploadAnswerLost, DurableCall, WritePcs, At
  <2>3. DurableState'
    BY <1>0, <1>5, <2>2 DEF UploadAnswerLost, DurableState
  <2>4. DurableCall(s)'
    BY <1>0, <1>5, <2>1, <2>2 DEF UploadAnswerLost, DurableCall, WritePcs, SavePcs, At
  <2> QED BY <2>3, <2>4
<1>6. CASE SaveFallsBack(s)
  <2>1. op'[s].pc = "fblob" /\ op'[s].gen = op[s].gen /\ op'[s].data = op[s].data
    BY <1>0, <1>6, GotoFields DEF SaveFallsBack
  <2>2. DurableState'
    BY <1>0, <1>6, DurableStateKept DEF SaveFallsBack
  <2>3. DurableCall(s)'
    BY <1>0, <1>6, <2>1 DEF SaveFallsBack, DurableCall, WritePcs, SavePcs, At
  <2> QED BY <2>2, <2>3
<1> QED BY <1>1, <1>2, <1>3, <1>4, <1>5, <1>6 DEF SaveStep

LEMMA DurableForce ==
    ASSUME DurableInv, TypeOK', OneCall, NEW s \in Slots, ForceStep(s)
    PROVE  DurableState' /\ DurableCall(s)'
<1>0. TypeOK /\ DurableState /\ DurableCall(s) /\ op[s].data \in Content
  BY OpFields DEF DurableInv
<1>1. CASE ForceResync(s)
  <2>1. op'[s].pc = "force" /\ op'[s].gen = session /\ op'[s].data = tree[session] /\ session # 0
    BY <1>0, <1>1 DEF ForceResync, TypeOK, Idle
  <2>2. DurableState'
    BY <1>0, <1>1, DurableStateKept DEF ForceResync
  <2>3. DurableCall(s)'
    BY <1>0, <1>1, <2>1 DEF ForceResync, DurableState, DurableCall, WritePcs, SavePcs, At, Options
  <2> QED BY <2>2, <2>3
<1>2. ASSUME NEW resolution \in Resolutions, ResolveConflict(s, resolution)
      PROVE  DurableState' /\ DurableCall(s)'
  <2>1. op'[s].pc \in {"lread", "kmedia"}
    BY <1>0, <1>2 DEF ResolveConflict, TypeOK, Idle
  <2>2. DurableState'
    BY <1>0, <1>2, DurableStateKept DEF ResolveConflict
  <2>3. op'[s].gen = Options
    BY <1>0, <1>2 DEF ResolveConflict, TypeOK, Idle
  <2> QED BY <2>1, <2>2, <2>3 DEF DurableCall, WritePcs, SavePcs, At
<1>3. CASE ReadLocalCopy(s)
  <2>1. \/ op'[s].pc = "idle"
        \/ op'[s].pc = "force" /\ op'[s].data = blob /\ op'[s].gen = op[s].gen /\ blob # None
    BY <1>0, <1>3, GotoDataFields, FinishFields DEF ReadLocalCopy
  <2>2. DurableState'
    BY <1>0, <1>3, DurableStateKept DEF ReadLocalCopy
  <2>3. op[s].gen = Options
    BY <1>0, <1>3 DEF ReadLocalCopy, DurableCall
  <2>4. DurableCall(s)'
    BY <1>0, <1>3, <2>1, <2>3 DEF ReadLocalCopy, DurableState, DurableCall, WritePcs, SavePcs, At
  <2> QED BY <2>2, <2>4
<1>4. CASE ForceUpload(s)
  <2>1. op'[s].pc = "xblob" /\ op'[s].gen = op[s].gen /\ op'[s].data = op[s].data
    BY <1>0, <1>4, GotoRevFields DEF ForceUpload
  <2>2. Cloud' = op[s].data /\ acked \subseteq op[s].data /\ acked' \subseteq acked
    BY <1>0, <1>4, AppendFacts DEF ForceUpload, DurableCall, WritePcs, At
  <2>3. DurableState'
    BY <1>0, <1>4, <2>2 DEF ForceUpload, DurableState
  <2>4. DurableCall(s)'
    BY <1>0, <1>4, <2>1, <2>2 DEF ForceUpload, DurableCall, WritePcs, SavePcs, At
  <2> QED BY <2>3, <2>4
<1>5. CASE ReadCloudCopy(s)
  <2>1. op'[s].pc = "krev" /\ op'[s].gen = op[s].gen /\ op'[s].data = Cloud
    BY <1>0, <1>5 DEF ReadCloudCopy, TypeOK, Op
  <2>2. DurableState'
    BY <1>0, <1>5, DurableStateKept DEF ReadCloudCopy
  <2>3. DurableCall(s)'
    BY <1>0, <1>5, <2>1 DEF ReadCloudCopy, DurableCall, WritePcs, SavePcs, At, Cloud, HeadRev
  <2> QED BY <2>2, <2>3
<1>6. CASE ReadCloudRevision(s)
  <2>1. op'[s].pc = "kblob" /\ op'[s].gen = op[s].gen /\ op'[s].data = op[s].data
    BY <1>0, <1>6, GotoRevFields DEF ReadCloudRevision
  <2>2. DurableState'
    BY <1>0, <1>6, DurableStateKept DEF ReadCloudRevision
  <2>3. DurableCall(s)'
    BY <1>0, <1>6, <2>1 DEF ReadCloudRevision, DurableCall, WritePcs, SavePcs, At, Cloud, HeadRev
  <2> QED BY <2>2, <2>3
<1> QED BY <1>1, <1>2, <1>3, <1>4, <1>5, <1>6 DEF ForceStep

\* Drive and the cache are written in an order that leaves one complete copy.
LEMMA DurableCache ==
    ASSUME DurableInv, TypeOK', OneCall, NEW s \in Slots, CacheStep(s)
    PROVE  DurableState' /\ DurableCall(s)'
<1>0. TypeOK /\ DurableState /\ DurableCall(s) /\ op[s].data \in Content
  BY OpFields DEF DurableInv
<1>n. op[s].data # None
  BY <1>0, Constants
<1>1. CASE WriteCacheBlob(s)
  <2>1. /\ op'[s].gen = op[s].gen /\ op'[s].data = op[s].data
        /\ \/ op[s].pc = "ublob" /\ op'[s].pc = "umeta"
           \/ op[s].pc = "pblob" /\ op'[s].pc = "pmeta"
           \/ op[s].pc = "fblob" /\ op'[s].pc = "fread"
           \/ op[s].pc = "xblob" /\ op'[s].pc = "xmeta"
           \/ op[s].pc = "kblob" /\ op'[s].pc = "kmeta"
    BY <1>0, <1>1, GotoFields DEF WriteCacheBlob, AfterBlob
  <2>2. acked' \subseteq acked /\ acked' \subseteq op[s].data
    BY <1>0, <1>1, <2>1 DEF WriteCacheBlob, DurableCall, DurableState, WritePcs, At
  <2>3. DurableState'
    BY <1>0, <1>1, <1>n, <2>2 DEF WriteCacheBlob, DurableState, Cloud, HeadRev
  <2>4. DurableCall(s)'
    BY <1>0, <1>1, <2>1, <2>2 DEF WriteCacheBlob, DurableCall, WritePcs, SavePcs, At, Cloud, HeadRev
  <2> QED BY <2>3, <2>4
<1>2. CASE WriteCacheMeta(s)
  <2>1. \/ op'[s].pc = "idle"
        \/ op[s].pc = "umeta" /\ op'[s].pc = "load" /\ op'[s].data = op[s].data /\ op'[s].gen = op[s].gen
    BY <1>0, <1>2, GotoFields, FinishFields DEF WriteCacheMeta, At
  <2>2. acked \subseteq Cloud
    BY <1>0, <1>2 DEF WriteCacheMeta, DurableCall, DurableState, WritePcs, At
  <2>3. \/ acked' = acked
        \/ /\ acked' = acked \cup (op[s].data \cap Edits)
           /\ op[s].pc \in {"pmeta", "xmeta"} /\ op[s].gen # Options
    BY <1>0, <1>2 DEF WriteCacheMeta, Acknowledge, DurableCall, SavePcs, At
  <2>4. DurableState'
    <3>1. CASE acked' = acked
      BY <1>0, <1>2, <2>2, <3>1 DEF WriteCacheMeta, DurableState, Cloud, HeadRev
    <3>2. CASE /\ acked' = acked \cup (op[s].data \cap Edits)
               /\ op[s].pc \in {"pmeta", "xmeta"} /\ op[s].gen # Options
      <4>1. /\ blob = op[s].data /\ op[s].data \subseteq Cloud
            /\ session # 0 => op[s].data \subseteq tree[session]
        BY <1>0, <3>2 DEF DurableCall, WritePcs
      <4> QED BY <1>0, <1>2, <1>n, <2>2, <3>2, <4>1 DEF WriteCacheMeta, DurableState, Cloud, HeadRev
    <3> QED BY <2>3, <3>1, <3>2
  <2>5. DurableCall(s)'
    BY <1>0, <1>2, <2>1, <2>3 DEF WriteCacheMeta, DurableCall, WritePcs, SavePcs, At
  <2> QED BY <2>4, <2>5
<1>3. CASE ReadFallbackMeta(s)
  <2>1. op'[s].pc = "fmeta" /\ op'[s].gen = op[s].gen /\ op'[s].data = op[s].data
    BY <1>0, <1>3 DEF ReadFallbackMeta, TypeOK, Op
  <2>2. DurableState'
    BY <1>0, <1>3, DurableStateKept DEF ReadFallbackMeta
  <2>3. DurableCall(s)'
    BY <1>0, <1>3, <2>1 DEF ReadFallbackMeta, DurableCall, WritePcs, SavePcs, At
  <2> QED BY <2>2, <2>3
<1>4. CASE WriteFallbackMeta(s)
  <2>1. op'[s].pc = "idle"
    BY <1>0, <1>4, FinishFields DEF WriteFallbackMeta
  <2>2. /\ blob = op[s].data /\ acked \subseteq op[s].data
        /\ session # 0 => op[s].data \subseteq tree[session]
    BY <1>0, <1>4 DEF WriteFallbackMeta, DurableCall, WritePcs, SavePcs, At
  <2>3. meta'.dirty = TRUE /\ meta' \in CacheMeta
    BY <1>4, <1>0, OpFields DEF WriteFallbackMeta, DirtyMeta, CacheMeta, NoRev
  <2>4. meta' # None
    BY <2>3, NoneIsNoMeta
  <2>5. DurableState'
    BY <1>0, <1>4, <1>n, <2>2, <2>3, <2>4 DEF WriteFallbackMeta, Acknowledge, DurableState
  <2> QED BY <2>1, <2>5, EndedDurable
<1>5. CASE StorageFails(s)
  <2>1. \/ op'[s].pc = "idle"
        \/ /\ op[s].pc \in {"pblob", "pmeta"} /\ op'[s].pc = "fblob"
           /\ op'[s].gen = op[s].gen /\ op'[s].data = op[s].data
    BY <1>0, <1>5, GotoFields, FinishFields DEF StorageFails
  <2>2. DurableState'
    BY <1>0, <1>5, DurableStateKept DEF StorageFails
  <2>3. DurableCall(s)'
    BY <1>0, <1>5, <2>1 DEF StorageFails, DurableCall, WritePcs, SavePcs, At
  <2> QED BY <2>2, <2>3
<1>6. CASE RequestThrows(s)
  <2>1. op'[s].pc = "idle"
    BY <1>0, <1>6, FinishFields DEF RequestThrows
  <2>2. DurableState'
    BY <1>0, <1>6, DurableStateKept DEF RequestThrows
  <2> QED BY <2>1, <2>2, EndedDurable
<1> QED BY <1>1, <1>2, <1>3, <1>4, <1>5, <1>6 DEF CacheStep

LEMMA DurableEnvironment ==
    ASSUME DurableInv, TypeOK', Environment
    PROVE  DurableState' /\ \A s \in Slots : DurableCall(s)'
<1>0. TypeOK /\ DurableState /\ \A s \in Slots : DurableCall(s)
  BY DEF DurableInv
<1>1. CASE Lock
  BY <1>0, <1>1 DEF Lock, DurableState, DurableCall, At, Cloud, HeadRev
<1>2. CASE CheckSyncStatus
  BY <1>0, <1>2 DEF CheckSyncStatus, DurableState, DurableCall, At, Cloud, HeadRev
<1>3. ASSUME NEW dead \in {Background, Slots}, Crash(dead)
      PROVE  DurableState' /\ \A s \in Slots : DurableCall(s)'
  <2>1. \A s \in Slots : op'[s] = op[s] \/ op'[s].pc = "idle"
    BY <1>3 DEF Crash, Idle
  <2>2. DurableState'
    BY <1>0, <1>3 DEF Crash, DurableState, Cloud, HeadRev
  <2>3. ASSUME NEW s \in Slots PROVE DurableCall(s)'
    <3>1. CASE op'[s] = op[s]
      BY <1>0, <1>3, <3>1 DEF Crash, DurableCall, At, Cloud, HeadRev
    <3> QED BY <2>1, <3>1, EndedDurable
  <2> QED BY <2>2, <2>3
<1>4. ASSUME NEW r \in RemoteEdits, RemoteWrite(r)
      PROVE  DurableState' /\ \A s \in Slots : DurableCall(s)'
  <2>1. Cloud \cup {r} \in Content
    BY <1>0, HeadType DEF Content
  <2>2. Cloud' = Cloud \cup {r}
    BY <1>0, <1>4, <2>1, AppendFacts DEF RemoteWrite
  <2>3. DurableState'
    BY <1>0, <1>4, <2>2 DEF RemoteWrite, DurableState
  <2>4. ASSUME NEW s \in Slots PROVE DurableCall(s)'
    BY <1>0, <1>4, <2>2 DEF RemoteWrite, DurableCall, At
  <2> QED BY <2>3, <2>4
<1> QED BY <1>1, <1>2, <1>3, <1>4 DEF Environment

LEMMA DurableInit == Init => DurableInv
<1> SUFFICES ASSUME Init PROVE DurableInv
  OBVIOUS
<1>1. \A s \in Slots : op[s].pc = "idle"
  BY DEF Init, Idle
<1>2. DurableState
  BY DEF Init, DurableState
<1>3. \A s \in Slots : DurableCall(s)
  BY <1>1 DEF DurableCall, WritePcs, SavePcs, At
<1> QED BY <1>2, <1>3, InitType DEF DurableInv

LEMMA DurableNext ==
    ASSUME OneCall, DurableInv, [Next]_vars PROVE DurableInv'
<1>1. TypeOK'
  BY NextType DEF DurableInv
<1>2. ASSUME NEW s \in Slots, UnlockStep(s) \/ SaveStep(s) \/ ForceStep(s) \/ CacheStep(s)
      PROVE  DurableInv'
  <2>1. DurableState' /\ DurableCall(s)'
    BY <1>1, <1>2, DurableUnlock, DurableSave, DurableForce, DurableCache
  <2>2. \A t \in Slots : t = s
    BY DEF OneCall
  <2> QED BY <1>1, <2>1, <2>2 DEF DurableInv
<1>3. CASE Environment
  BY <1>1, <1>3, DurableEnvironment DEF DurableInv
<1>4. CASE UNCHANGED vars
  BY <1>1, <1>4 DEF vars, DurableInv, DurableState, DurableCall, At, Cloud, HeadRev
<1> QED BY <1>2, <1>3, <1>4 DEF Next

\* An edit whose save reported success stays in Drive's head or in a blob marked as not
\* uploaded, through lost answers, failed writes, crashes and resolutions of either kind.
THEOREM AcknowledgedEditsLast ==
    ASSUME OneCall PROVE Spec => []AckedDurable
<1>1. DurableInv => AckedDurable
  <2> SUFFICES ASSUME DurableInv PROVE AckedDurable
    OBVIOUS
  <2>1. CASE meta = None \/ ~meta.dirty
    BY <2>1 DEF DurableInv, DurableState, AckedDurable
  <2>2. CASE meta # None /\ meta.dirty
    BY <2>2 DEF DurableInv, DurableState, AckedDurable
  <2> QED BY <2>1, <2>2
<1>2. DurableInv /\ [Next]_vars => DurableInv'
  BY DurableNext
<1> QED BY <1>1, <1>2, DurableInit, PTL DEF Spec
====

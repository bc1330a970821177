----------------------------- MODULE CloudVault -----------------------------
(***************************************************************************)
(* One cloud-backed vault as the extension keeps it: the file on Google    *)
(* Drive with its head revision, the OPFS cache (a blob and a metadata     *)
(* record), the background's unlocked sessions, and the calls in flight:   *)
(* unlock, save, forced save, and the two conflict resolutions of Options. *)
(*                                                                         *)
(* Source: providers/gdrive.ts, providers/opfs-cache.ts and the session    *)
(* part of background/vault-session.ts.  A call suspends at every await,   *)
(* so it is a small process: op[s].pc says which await slot s is at, and   *)
(* calls in different slots interleave.  A vault's content is the set of   *)
(* edits it holds; Drive is the sequence of its revisions.                 *)
(***************************************************************************)
EXTENDS Integers, Sequences, FiniteSets

CONSTANTS
    Edits,          \* edits made in this extension
    RemoteEdits,    \* edits made by another KeePass client
    Slots,          \* calls that can be in flight at the same time
    Resolutions,    \* the choices of Options' sync section the user makes
    MaxSessions,    \* bound: unlock attempts
    MaxRev,         \* bound: Drive revisions
    None            \* an absent blob, metadata record or tree

Content == SUBSET (Edits \cup RemoteEdits)
Revision == Nat \ {0}
NoRev == 0          \* lastKnownRevisionId undefined, or an empty eTag
Sessions == 1..MaxSessions
Options == 0        \* the session number of calls the Options page makes

CacheMeta == [eTag : Nat, dirty : BOOLEAN]

ASSUME ConstantsAssumption ==
    /\ MaxSessions \in Nat \ {0}
    /\ MaxRev \in Nat \ {0}
    /\ Resolutions \subseteq {"keep-local", "keep-cloud"}
    /\ \A c \in Content : c # None
    /\ None \notin CacheMeta

VARIABLES
    revisions,      \* contents of Drive's revisions; the last one is the head
    blob,           \* vault-<uuid>.kdbx in OPFS, or None
    meta,           \* vault-<uuid>.meta.json in OPFS, or None
    session,        \* the unlocked session, or 0 when locked
    opened,         \* unlock attempts so far, which number the sessions
    tree,           \* each session's decrypted tree, None until it is loaded
    known,          \* each session's provider: lastKnownRevisionId
    op,             \* the call in each slot
    prompt,         \* Options' page shows a conflict to resolve
    acked           \* history: edits some save reported as saved

vars == <<revisions, blob, meta, session, opened, tree, known, op, prompt, acked>>

HeadRev == Len(revisions)
Cloud == revisions[HeadRev]
Online == {"read", "rev", "media", "check", "upload", "force", "kmedia", "krev"}
Pc == {"idle", "cache", "load", "lread", "ublob", "umeta", "pblob", "pmeta",
       "fblob", "fread", "fmeta", "xblob", "xmeta", "kblob", "kmeta"} \cup Online

\* A call: its step, the session (provider) it belongs to (0: one of Options'),
\* the file content it holds, the revision it saw, and the metadata it read.
Op == [pc : Pc, gen : 0..MaxSessions, data : Content, rev : Nat,
       meta : {None} \cup CacheMeta]

Idle == [pc |-> "idle", gen |-> Options, data |-> {}, rev |-> NoRev, meta |-> None]

Init ==
    /\ revisions = <<{}>>
    /\ blob = None
    /\ meta = None
    /\ session = 0
    /\ opened = 0
    /\ tree = [g \in Sessions |-> None]
    /\ known = [g \in Sessions |-> NoRev]
    /\ op = [s \in Slots |-> Idle]
    /\ prompt = FALSE
    /\ acked = {}

At(s, pc) == op[s].pc = pc
Goto(s, pc) == op' = [op EXCEPT ![s].pc = pc]
Finish(s) == op' = [op EXCEPT ![s] = Idle]

\* The provider of session g learns revision r; Options' providers are dropped.
Learn(g, r) == known' = [h \in Sessions |-> IF h = g THEN r ELSE known[h]]

----------------------------------------------------------------------------
(* Unlock: OpfsCachedProvider.read, then Kdbx.load.                        *)

StartUnlock(s) ==
    /\ At(s, "idle")
    /\ session = 0
    /\ opened < MaxSessions
    /\ opened' = opened + 1
    /\ op' = [op EXCEPT ![s] = [Idle EXCEPT !.pc = "read", !.gen = opened + 1, !.meta = meta]]
    /\ UNCHANGED <<revisions, blob, meta, session, tree, known, acked, prompt>>

\* What the cached record says once Drive has answered the metadata request.
CloudChanged(cached) == cached # None /\ cached.eTag # HeadRev
RefetchesIgnoringDirty(cached) == cached = None \/ CloudChanged(cached)
Refetches(cached) == cached = None \/ (CloudChanged(cached) /\ ~cached.dirty)
Conflicts(cached) == CloudChanged(cached) /\ cached.dirty
Unchanged(cached) == cached # None /\ cached.eTag = HeadRev

UnlockMetadata(s) ==
    /\ At(s, "read")
    /\ Learn(op[s].gen, HeadRev)
    /\ \/ /\ Refetches(op[s].meta)
          /\ op' = [op EXCEPT ![s].pc = "rev", ![s].rev = HeadRev]
       \/ Conflicts(op[s].meta) /\ Finish(s)     \* SyncConflictError
       \/ Unchanged(op[s].meta) /\ Goto(s, "cache")
    /\ UNCHANGED <<revisions, blob, meta, session, opened, tree, acked, prompt>>

\* The metadata request fails (network or sign-in): serve the cache.
UnlockOffline(s) ==
    /\ At(s, "read")
    /\ Goto(s, "cache")
    /\ UNCHANGED <<revisions, blob, meta, session, opened, tree, known, acked, prompt>>

\* readCacheBlob: no blob fails the unlock.
ReadCache(s) ==
    /\ At(s, "cache")
    /\ IF blob = None
       THEN Finish(s)
       ELSE op' = [op EXCEPT ![s].pc = "load", ![s].data = blob]
    /\ UNCHANGED <<revisions, blob, meta, session, opened, tree, known, acked, prompt>>

\* GoogleDriveProvider.read: metadata again, which becomes the known revision...
FetchRevision(s) ==
    /\ At(s, "rev")
    /\ Learn(op[s].gen, HeadRev)
    /\ Goto(s, "media")
    /\ UNCHANGED <<revisions, blob, meta, session, opened, tree, acked, prompt>>

\* ... then the media, which may be newer than both metadata answers.
FetchMedia(s) ==
    /\ At(s, "media")
    /\ op' = [op EXCEPT ![s].pc = "ublob", ![s].data = Cloud]
    /\ UNCHANGED <<revisions, blob, meta, session, opened, tree, known, acked, prompt>>

LoadVaultForgotten(s) ==
    /\ At(s, "load")
    /\ session' = op[s].gen
    /\ Finish(s)
    /\ UNCHANGED <<revisions, blob, meta, opened, tree, known, acked, prompt>>

\* Kdbx.load has decrypted the file: the session opens, even if a lock came first.
LoadVault(s) ==
    /\ At(s, "load")
    /\ tree' = [tree EXCEPT ![op[s].gen] = op[s].data]
    /\ session' = op[s].gen
    /\ Finish(s)
    /\ UNCHANGED <<revisions, blob, meta, opened, known, acked, prompt>>

----------------------------------------------------------------------------
(* Save: VaultSession.persist, OpfsCachedProvider.write.                   *)

\* An edit of the unlocked tree and the snapshot db.save() takes of it.
Mutate(s, e) ==
    /\ At(s, "idle")
    /\ session # 0
    /\ e \notin tree[session]
    /\ tree' = [tree EXCEPT ![session] = @ \cup {e}]
    /\ op' = [op EXCEPT ![s] = [Idle EXCEPT !.pc = "check", !.gen = session,
                                            !.data = tree[session] \cup {e}]]
    /\ UNCHANGED <<revisions, blob, meta, session, opened, known, acked, prompt>>

\* The Manager's "Retry sync" button: the same save without an edit.
RetrySync(s) ==
    /\ At(s, "idle")
    /\ session # 0
    /\ op' = [op EXCEPT ![s] = [Idle EXCEPT !.pc = "check", !.gen = session,
                                            !.data = tree[session]]]
    /\ UNCHANGED <<revisions, blob, meta, session, opened, tree, known, acked, prompt>>

\* GoogleDriveProvider.write's guard: refuse when the head is not the known one.
GuardPasses(s) == known[op[s].gen] = NoRev \/ known[op[s].gen] = HeadRev

CheckRevisionLearning(s) ==
    /\ At(s, "check")
    /\ Learn(op[s].gen, HeadRev)
    /\ op' = [op EXCEPT ![s].pc = "upload", ![s].rev = HeadRev]
    /\ UNCHANGED <<revisions, blob, meta, session, opened, tree, acked, prompt>>

CheckRevision(s) ==
    /\ At(s, "check")
    /\ IF GuardPasses(s)
       THEN op' = [op EXCEPT ![s].pc = "upload", ![s].rev = HeadRev]
       ELSE Finish(s)                         \* CloudConflictError
    /\ UNCHANGED <<revisions, blob, meta, session, opened, tree, known, acked, prompt>>

\* uploadMedia: Drive makes the content its new head and answers with it.
Upload(s) ==
    /\ At(s, "upload")
    /\ HeadRev < MaxRev
    /\ revisions' = Append(revisions, op[s].data)
    /\ Learn(op[s].gen, HeadRev + 1)
    /\ op' = [op EXCEPT ![s].pc = "pblob", ![s].rev = HeadRev + 1]
    /\ UNCHANGED <<blob, meta, session, opened, tree, acked, prompt>>

\* Drive stores the upload but the answer is lost: the save falls back.
UploadAnswerLost(s) ==
    /\ At(s, "upload")
    /\ HeadRev < MaxRev
    /\ revisions' = Append(revisions, op[s].data)
    /\ Goto(s, "fblob")
    /\ UNCHANGED <<blob, meta, session, opened, tree, known, acked, prompt>>

\* The metadata or the upload request fails without effect: fall back as well.
SaveFallsBack(s) ==
    /\ op[s].pc \in {"check", "upload"}
    /\ Goto(s, "fblob")
    /\ UNCHANGED <<revisions, blob, meta, session, opened, tree, known, acked, prompt>>

----------------------------------------------------------------------------
(* Forced save, and Options' two resolutions with a provider of their own. *)

ForceResync(s) ==
    /\ At(s, "idle")
    /\ session # 0
    /\ op' = [op EXCEPT ![s] = [Idle EXCEPT !.pc = "force", !.gen = session,
                                            !.data = tree[session]]]
    /\ UNCHANGED <<revisions, blob, meta, session, opened, tree, known, acked, prompt>>

\* checkSyncStatus, which the Options page runs when it opens: a conflict shows
\* the two buttons, and they stay until the page checks again.
SyncStatus ==
    IF meta = None THEN "ok"
    ELSE IF meta.dirty THEN (IF meta.eTag # HeadRev THEN "conflict" ELSE "unsynced")
    ELSE IF meta.eTag # HeadRev THEN "cloud-newer" ELSE "ok"

CheckSyncStatus ==
    /\ prompt' = (SyncStatus = "conflict")
    /\ UNCHANGED <<revisions, blob, meta, session, opened, tree, known, op, acked>>

\* The buttons are disabled while a resolution runs.
Resolving == \E s \in Slots : op[s].gen = Options /\ ~At(s, "idle")

ResolveConflict(s, resolution) ==
    /\ At(s, "idle")
    /\ prompt
    /\ ~Resolving
    /\ op' = [op EXCEPT ![s] = [Idle EXCEPT !.pc = IF resolution = "keep-local"
                                                   THEN "lread" ELSE "kmedia"]]
    /\ UNCHANGED <<revisions, blob, meta, session, opened, tree, known, prompt, acked>>

\* keep-local: push the cached blob.
ReadLocalCopy(s) ==
    /\ At(s, "lread")
    /\ IF blob = None THEN Finish(s)          \* "no local copy to keep"
       ELSE op' = [op EXCEPT ![s].pc = "force", ![s].data = blob]
    /\ UNCHANGED <<revisions, blob, meta, session, opened, tree, known, acked, prompt>>

\* What the user gave up by overwriting the head is no longer owed to them.
ForceUpload(s) ==
    /\ At(s, "force")
    /\ HeadRev < MaxRev
    /\ revisions' = Append(revisions, op[s].data)
    /\ Learn(op[s].gen, HeadRev + 1)
    /\ op' = [op EXCEPT ![s].pc = "xblob", ![s].rev = HeadRev + 1]
    /\ acked' = acked \ (Cloud \ op[s].data)
    /\ UNCHANGED <<blob, meta, session, opened, tree, prompt>>

\* keep-cloud: the content first, the metadata after it.
ReadCloudCopy(s) ==
    /\ At(s, "kmedia")
    /\ op' = [op EXCEPT ![s].pc = "krev", ![s].data = Cloud]
    /\ UNCHANGED <<revisions, blob, meta, session, opened, tree, known, acked, prompt>>

ReadCloudRevision(s) ==
    /\ At(s, "krev")
    /\ op' = [op EXCEPT ![s].pc = "kblob", ![s].rev = HeadRev]
    /\ UNCHANGED <<revisions, blob, meta, session, opened, tree, known, acked, prompt>>

----------------------------------------------------------------------------
(* The cache: the blob is written before the metadata record.              *)

AfterBlob == [ublob |-> "umeta", pblob |-> "pmeta", fblob |-> "fread",
              xblob |-> "xmeta", kblob |-> "kmeta"]

\* keep-cloud discards the local copy, and with it the edits only it held.
WriteCacheBlob(s) ==
    /\ op[s].pc \in DOMAIN AfterBlob
    /\ blob' = op[s].data
    /\ Goto(s, AfterBlob[op[s].pc])
    /\ acked' = IF At(s, "kblob") THEN acked \ (blob \ op[s].data) ELSE acked
    /\ UNCHANGED <<revisions, meta, session, opened, tree, known, prompt>>

CleanMetaAskedAgain(s) == [eTag |-> HeadRev, dirty |-> FALSE]
CleanMeta(s) == [eTag |-> op[s].rev, dirty |-> FALSE]

\* The call returns: a save has reported success for all its snapshot holds.
Acknowledge(s) == acked' = acked \cup (op[s].data \cap Edits)

WriteCacheMeta(s) ==
    /\ op[s].pc \in {"umeta", "pmeta", "xmeta", "kmeta"}
    /\ meta' = CleanMeta(s)
    /\ IF At(s, "umeta") THEN Goto(s, "load") ELSE Finish(s)
    /\ IF At(s, "pmeta") \/ (At(s, "xmeta") /\ op[s].gen # Options)
       THEN Acknowledge(s) ELSE UNCHANGED acked
    /\ prompt' = (prompt /\ op[s].gen # Options)     \* resolved: the page checks again
    /\ UNCHANGED <<revisions, blob, session, opened, tree, known>>

\* The fallback keeps the eTag the cache already had.
ReadFallbackMeta(s) ==
    /\ At(s, "fread")
    /\ op' = [op EXCEPT ![s].pc = "fmeta", ![s].meta = meta]
    /\ UNCHANGED <<revisions, blob, meta, session, opened, tree, known, acked, prompt>>

DirtyMetaAskedAgain(s) == [eTag |-> HeadRev, dirty |-> TRUE]
DirtyMeta(s) ==
    [eTag |-> IF op[s].meta = None THEN NoRev ELSE op[s].meta.eTag, dirty |-> TRUE]

WriteFallbackMeta(s) ==
    /\ At(s, "fmeta")
    /\ meta' = DirtyMeta(s)
    /\ Finish(s)
    /\ Acknowledge(s)
    /\ UNCHANGED <<revisions, blob, session, opened, tree, known, prompt>>

\* OPFS refuses a write.  Inside write()'s try block the save falls back like
\* after a failed upload; anywhere else the call throws.
StorageFails(s) ==
    /\ op[s].pc \in DOMAIN AfterBlob \cup {"umeta", "pmeta", "xmeta", "kmeta", "fmeta"}
    /\ IF op[s].pc \in {"pblob", "pmeta"} THEN Goto(s, "fblob") ELSE Finish(s)
    /\ UNCHANGED <<revisions, blob, meta, session, opened, tree, known, acked, prompt>>

\* A request throws out of its call: no sign-in, or no network where nothing
\* catches that.  The first request of an unlock never throws (UnlockOffline).
RequestThrows(s) ==
    /\ op[s].pc \in Online \ {"read"}
    /\ Finish(s)
    /\ UNCHANGED <<revisions, blob, meta, session, opened, tree, known, acked, prompt>>

----------------------------------------------------------------------------
(* The environment: locks, crashes, the other client.                      *)

\* lock() drops the session; calls in flight keep what they captured.
Lock ==
    /\ session # 0
    /\ session' = 0
    /\ UNCHANGED <<revisions, blob, meta, opened, tree, known, op, acked, prompt>>

\* The background dies with its calls (dead = Background) or the browser with
\* those of Options too.
Background == {s \in Slots : op[s].gen # Options}

Crash(dead) ==
    /\ session # 0 \/ \E s \in dead : ~At(s, "idle")
    /\ session' = 0
    /\ op' = [s \in Slots |-> IF s \in dead THEN Idle ELSE op[s]]
    /\ UNCHANGED <<revisions, blob, meta, opened, tree, known, acked, prompt>>

\* Another client saves: it builds on the head it sees.
RemoteWrite(r) ==
    /\ HeadRev < MaxRev
    /\ r \notin Cloud
    /\ revisions' = Append(revisions, Cloud \cup {r})
    /\ UNCHANGED <<blob, meta, session, opened, tree, known, op, acked, prompt>>

----------------------------------------------------------------------------
UnlockStep(s) ==
    \/ StartUnlock(s) \/ UnlockMetadata(s) \/ UnlockOffline(s) \/ ReadCache(s)
    \/ FetchRevision(s) \/ FetchMedia(s) \/ LoadVault(s)

SaveStep(s) ==
    \/ \E e \in Edits : Mutate(s, e)
    \/ RetrySync(s) \/ CheckRevision(s) \/ Upload(s) \/ UploadAnswerLost(s) \/ SaveFallsBack(s)

ForceStep(s) ==
    \/ ForceResync(s)
    \/ \E resolution \in Resolutions : ResolveConflict(s, resolution)
    \/ ReadLocalCopy(s) \/ ForceUpload(s) \/ ReadCloudCopy(s) \/ ReadCloudRevision(s)

CacheStep(s) ==
    \/ WriteCacheBlob(s) \/ WriteCacheMeta(s) \/ ReadFallbackMeta(s)
    \/ WriteFallbackMeta(s) \/ StorageFails(s) \/ RequestThrows(s)

Environment ==
    \/ Lock
    \/ CheckSyncStatus
    \/ \E dead \in {Background, Slots} : Crash(dead)
    \/ \E r \in RemoteEdits : RemoteWrite(r)

Next ==
    \/ \E s \in Slots : UnlockStep(s) \/ SaveStep(s) \/ ForceStep(s) \/ CacheStep(s)
    \/ Environment

Spec == Init /\ [][Next]_vars

----------------------------------------------------------------------------
(* Properties.                                                             *)

TypeOK ==
    /\ revisions \in Seq(Content) /\ revisions # <<>>
    /\ blob \in {None} \cup Content
    /\ meta \in {None} \cup CacheMeta
    /\ session \in 0..MaxSessions
    /\ opened \in 0..MaxSessions
    /\ tree \in [Sessions -> {None} \cup Content]
    /\ known \in [Sessions -> Nat]
    /\ op \in [Slots -> Op]
    /\ prompt \in BOOLEAN
    /\ acked \in SUBSET Edits
    /\ session # 0 => tree[session] # None

\* An edit whose save reported success is in Drive's current revision, or in a
\* cached blob that is still marked as not uploaded, unless the user discarded
\* it by a forced save or a resolution (opfs-cache.ts write and resolveConflict).
AckedDurable ==
    acked \subseteq Cloud \cup (IF blob # None /\ meta # None /\ meta.dirty THEN blob ELSE {})

\* The revision the guard of a session's saves compares with is one whose content
\* the session's tree holds: passing the guard means having seen what is overwritten.
KnownRevisionSeen ==
    \A g \in Sessions :
        tree[g] # None /\ known[g] # NoRev => revisions[known[g]] \subseteq tree[g]

\* The cached blob holds everything of the revision its record names, so serving
\* it while the eTag is unchanged (opfs-cache.ts read) hides nobody's edits.
CacheSeen ==
    blob # None /\ meta # None /\ meta.eTag # NoRev => revisions[meta.eTag] \subseteq blob

\* What "never silently overwritten" asks of every unforced upload.
Overwrites(s) == op[s].pc = "upload" /\ revisions' # revisions /\ op'[s].pc # "upload"
NoSilentOverwrite ==
    [][\A s \in Slots : Overwrites(s) => Cloud \subseteq Cloud']_vars

\* What the guard achieves: an upload by a session that knows the head, at the
\* moment it lands, drops nothing of the head.
GuardedUploadKeepsHead ==
    [][\A s \in Slots : Overwrites(s) /\ known[op[s].gen] = HeadRev => Cloud \subseteq Cloud']_vars

\* An upload that was let through carries all of the revision the guard looked at.
UploadCarriesCheckedRevision ==
    \A s \in Slots : At(s, "upload") => revisions[op[s].rev] \subseteq op[s].data
=============================================================================

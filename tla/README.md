# Keetar in TLA+

A model of Keetar, a browser extension that keeps passwords in KeePass (KDBX4)
files: TLA+ modules that model its components, TLC configurations that check
them on small instances, and theorems that TLAPS checks for all instances. Every
definition is translated from the source; `PROJECT.json` says which lines each
one stands for, which properties each run checks, and for every property a
plausible bug of the code that it catches.

    tlc -config CloudSequential.cfg MCCloudVault      # a run
    tlapm CloudVaultProofs.tla                        # the proofs of a module

## 1. The system

Paths are below `src/packages/`.

| Component | State | Operations | Interacts with |
|---|---|---|---|
| Vault session (`web/src/background/vault-session.ts`) | the one unlocked database, its provider and file id; a pending combine | unlock, lock, some forty mutations, each of which ends in `persist` (serialise and write the whole file) | message handlers call it, it calls core and a provider |
| Background handlers (`background/index.ts`, `message-bus.ts`, `sleep-watchdog.ts`) | captured logins in session storage, timers | a handler per message; lock on idle, sleep and on request; no queue between handlers | popup, manager, options, content scripts |
| Cloud provider (`providers/gdrive.ts`, `opfs-cache.ts`) | `lastKnownRevisionId` per session; the cached blob and its record in OPFS | read, write, force-write, status, resolve | Drive, Options page, session |
| Local-file provider (`providers/local-file.ts`) | handles in IndexedDB | read, write, metadata | the file system, other programs |
| Native provider and host (`providers/native-file.ts`, `host/`) | tag of what was read; in the host one slot for a read and the list of approved files | read in chunks, compare-and-write, approve, forget | editors and sync clients of the same file |
| KDBX database (`core/src/kdbx/`) | header, XML, tree of groups and entries, pool of attachments, tombstones | save and load, create, move, remove, history, cleanup, merge | the session |
| Crypto and streams (`core/src/crypto/`, `utils/`) | none beyond a stream's position | KDF, block ciphers, HMAC blocks | save and load |
| Passkeys (`passkey-provider/`, `background/passkey-web.ts`, `core/src/passkey/`) | requests pending in page, relay, background and prompt | create, get, cancel, time out | pages, the session |
| Login capture, autofill (`background/login-capture.ts`, `autofill/`) | a captured login per tab | capture, offer, save, dismiss | pages, the session |
| Unlock helpers (`auth/`, `storage/device-secret.ts`, `providers/oauth-*`) | sealed keys and tokens in IndexedDB | enrol, unseal, refresh | the session, Drive |
| Clipboard clearing, TOTP, generators, health, importers, favicons, AI sort | mostly none | pure functions and one-shot requests | UI, session |
| UI (`ui/`) | what its pages show | messages to the background | background; Options also calls providers directly |

**What is hard about it.** JavaScript runs one step at a time but every `await`
is a point where another handler may run, and nothing queues the handlers: two
saves, a save and a lock, an unlock and a save can all be in flight at once. The
service worker may be stopped at any await. The vault file has other writers
(KeePass, sync clients, other devices). Requests fail, and fail after they took
effect. The database is one mutable object that all of these share.

**What makes each part correct.** A save that reported success is never lost
(session, providers); no writer's content is overwritten unseen (providers,
host); a file that is written opens again and holds what the tree held (core);
nothing leaves the tree without being in the bin or having a tombstone (core);
what the merge of two copies yields does not depend on who merges (core); a
request is answered once, by the operation it asked for (passkeys, capture); a
secret outlives neither a lock nor its timer (session, clipboard).

`PROJECT.json` lists every component with its status and every hazard with the
line where it bites and the properties that guard it.

## 2. The modules

Every component has a module; `MC…` modules give it its instances. Three modules of
proofs are about one module each, five (`FormatsProofs`, `EncodingsProofs`,
`LibraryProofs`, `BridgesProofs`, `BackgroundProofs`) about the modules of one run.

| Module | Models | Checked in |
|---|---|---|
| `CloudVault` (`CloudVaultProofs`) | Drive, OPFS cache, unlocked sessions, calls in flight | CloudSequential, CloudGuard, CloudOverwrite, CloudOffline |
| `NativeHost` (`BridgesProofs`) | Firefox's local-file provider, its port, the helper process, the file | Bridges, NativeConflict |
| `VaultFile` | what the helper's protocol promises: a register with a guarded replacement (abstract) | Bridges |
| `PasskeyBridge` (`BridgesProofs`) | a page's passkey calls over shim, relay, background and prompt, and the vault work they start | Bridges |
| `KdbxSave` (`FormatsProofs`) | overlapping saves of one database, attachments | Formats, KdbxSaveTwo |
| `KdbxFile` (`FormatsProofs`) | header, keys and blocks of the sealed file; wrong keys, damaged and torn files | Formats |
| `KdbxXml` (`FormatsProofs`) | each element of the document, as it is written and as it is read | Formats |
| `ProtectedText` (`FormatsProofs`) | protected strings of an entry and its history, in memory and in the document | Formats |
| `PasskeyRecords` (`EncodingsProofs`) | CBOR, passkey attachments and KeePassXC's fields, signatures, authenticator data | Formats |
| `Transfer` | CSV and the other imports and exports, group paths | Formats |
| `PasswordHealth` | the report, its breach lookups and their cache | Formats |
| `Generators` | passwords, passphrases, one-time codes | Formats |
| `Encodings` (`EncodingsProofs`) | byte streams, 64-bit numbers, hex and base64, rounds of AES-KDF | Formats |
| `KdbxTree` (`LibraryProofs`) | groups, entries, bin and tombstones | Library, KdbxTreeBin |
| `KdbxMerge` (`LibraryProofs`) | replicas of a database that edit, and merges group by group | Library, MergeLoses |
| `MetaMerge` (`LibraryProofs`) | settings of a database that two clients change and merge | Library |
| `EntryEdits` (`LibraryProofs`) | fields, codes, clones, attachments, passkeys and history of entries, and what is merged into one | Library |
| `Combine` (`LibraryProofs`) | a second vault matched, previewed, merged and imported | Library |
| `VaultSession` (`VaultSessionProofs`, `BackgroundProofs`) | the open session, handlers that change it and save, the local file | Background |
| `LoginCapture` (`BackgroundProofs`) | captured logins per tab, the prompt, the generated password | Background |
| `Autofill` (`BackgroundProofs`) | form detection, matching, trust, filling, the popup's fill | Background |
| `DriveAccess` (`BackgroundProofs`) | device key, sealed tokens, renewal, retry after a refusal | Background |
| `LockState` (`LockStateProofs`, `BackgroundProofs`) | lock, unlock, idle, sleep watchdog, icon, what pages show | Background |
| `ClipboardClear` (`BackgroundProofs`) | copied secrets and the checks that clear them | Background |

**How they compose.** A module leaves to another what that one models and says so
in its first comment: `VaultSession` saves a tree as a set of edits, what an edit
is stands in `KdbxTree` and `EntryEdits`, what overlapping saves do to each other's
bytes in `KdbxSave`, what a file of those bytes opens as in `KdbxFile`, `KdbxXml`
and `ProtectedText`. `NativeHost` and `CloudVault` are the two other providers a
session saves through. `PasskeyBridge` carries its own small session (tree, file,
lock), because its ceremonies stand between a page and a save.

**Union modules.** `MCFormats`, `MCLibrary`, `MCBridges` and `MCBackground` put
several modules in one run. `Init` chooses which of them runs (`subject`), and
nothing else moves. One module is extended and keeps its variables; the others are
instances over the shared variables `v1`, `v2`, … of which those a subject does not
use stay `None`. So a run's state graph is the disjoint union of its modules'
graphs, and a property of the run is the properties of its modules, each where its
module is the subject. The subjects do not interact there, nor do they mean to: what
interacts is inside one module. The sets and the bounds of a union module are
CONSTANTS that its cfg gives values, so that the proofs are about all values of them.

**Alternatives beside a definition.** Next to some definitions stands a second one
of nearly the same name (`SaltsKept` by `SaltsDrawn`, `EarlyUpdate` by `Update`,
`MatchAllTiers`, `RenewAlways`, `TextsAtEnd`, …). No action uses it: it is the
definition as a plausible bug of the code would have it. With it in place of the
right one a property of the module is violated; `PROJECT.json` lists one per property
and run, the others are for the further parts of a property.

### CloudVault

*State.* `revisions` is Drive's file, as the contents of its revisions; a content
is the set of edits it holds. `blob` and `meta` are the two files of the OPFS
cache. `session`, `tree` and `known` are the background's unlocked session, each
session's database and its provider's `lastKnownRevisionId`; a session keeps its
number when it is locked, because the calls it started go on. `op[s]` is the call
in slot `s`: `pc` is the await it is suspended at and the other fields are its
local variables. `acked` is history: the edits whose save reported success.

*Actions.* One per step between two awaits. Unlock: `StartUnlock`,
`UnlockMetadata` (fetch, conflict or cache), `UnlockOffline`, `ReadCache`,
`FetchRevision`, `FetchMedia`, two cache writes, `LoadVault`. Save: `Mutate`
(edit and snapshot), `CheckRevision`, `Upload`, the two cache writes,
`Acknowledge`; when a request throws, the fallback that caches a dirty blob.
Options: `CheckSyncStatus`, `ResolveConflict` and its reads and writes.
Environment: `RemoteWrite` (another client), `UploadAnswerLost`,
`RequestThrows`, `StorageFails`, `Crash`.

*What is abstracted.* The two requests of `checkSyncStatus` are one read. The branch of
`read` for a record without a blob is left out: the record is written after its blob and
neither is removed while the vault is configured. A save takes its snapshot in the step
of its edit: what happens inside the serialisation is `KdbxSave`'s subject. An upload
that reaches Drive after the worker died is not modelled. Edits the user gives up by
choosing keep-cloud leave `acked`.

### KdbxSave

*State.* `attached` maps a holder (an entry or its history) to the attachments it
refers to, `pool` is the binaries' map in its order, `salts` and `xml` are the
header and document that *every* save of the database shares, `wiped` whether the
stream key's hash was zeroed, `save[s]` a save in flight with its pc and its file
so far. A file is the salts its header carries, the salts its keys came from, its
references (positions in the pool) and its binaries.

*Actions.* `Persist` (cleanup, new salts, XML), `TakeSeed`, `StartKdf`, `UseSeed`,
`StartStream`, `WriteBody`, `NoXml`, `Return` are the steps of `save` between its
awaits; `AddAttachment`, `RemoveAttachment`, `UpdateEntry`, `DropEntry`,
`CopyAttachment`, `SaveAgain` what handlers do meanwhile; `Reopen` loads the last
file. Everything `generateSalts` draws is one number. `Opens` and `Content` say
what a load makes of a file.

### KdbxTree

*State.* The tree as the code keeps it, twice: `holds` are the arrays of
children and `parent` the `parentGroup` pointers. `bin` and `binEnabled` are the
metadata's, `buried` the tombstones, `made` the uuids that were ever in the tree.
The bin may name a group that is not there, may be nested, may be switched off;
`Init` is every tree a file can hold.

*Actions.* One per operation of the session, since none of them awaits while it
changes the tree: `CreateEntry`, `CreateGroup`, `ImportRecord`, `MoveEntry`,
`DeleteEntry`, `DeleteGroup`, `RemoveDuplicates`, `EmptyRecycleBin`,
`ApplyAiSort`. `Remove` is kdbx.ts's `remove` in its three cases: into the bin,
into a bin made on the spot, for good. A group an AI plan names is "a group
outside the bin or a new one under the root". The order of children is left out.

`MayHoldBin` is whether a group that holds the bin may be deleted. The Manager
shows the button for it; what then happens is finding 4, and everything else is
checked and proved without it.

### NativeHost

*State.* `file` is the content of the vault's path, which other programs replace as
they like; a content's tag (its SHA-256) is the content itself. `call[s]` is a call
of the provider in flight with its local variables and the helper's reply; `queue`
and `answers` are the two directions of the port, which keeps its order. In the
helper, `reading` is the one snapshot that a read in chunks is served from and
`renaming` the write whose tag was compared and whose file is not yet renamed.
`session`, `known` (`lastKnownEtag`) and `base` are the unlocked session, its
provider's tag and what it was loaded from; `made`, what it tried to save, and the
field `lone` of a read, whether no other overlapped it, are history. `FairSpec` adds
the fairness of section 3, and `ImplementsVaultFile` says that all of it implements
the abstract register of `VaultFile` (section 2).

*Actions.* `StartUnlock`, `MoreChunks`, `LastChunk`, `Load`, `Persist`, `Write`,
`Written`, `Refused`, `Lock` are the background's; `Read`, `ReadFails`, `Check`,
`Conflict`, `Rename`, `WriteFails` the helper's, which serves one request at a time;
`OtherWrites` and `Disconnect` (the helper dies and `onDisconnect` rejects all that
is pending) the environment's.

*What is abstracted.* A file is a number of chunks of one content; what is not one
whole content does not open, which is what the HMAC of each block is for. Other
programs replace the file in one step. The path is an approved one; reads of another
path, by Combine, are left out (they share the slot and make a read fail). Which of
a session's saves holds which edits is not modelled here: that one may land over a
newer one is section 4's note on `persist`.

### VaultFile

The register a vault's file is to its sessions. A session *takes* the content the
file has at the moment of one step, or *makes* one; it may be *allowed* to replace
the file only by a content of its own and only while the file is one it has; the
replacement then happens unless it fails, and only another program's write between
the two (`raced`) makes it overwrite something unseen. `NativeHost` refines it by
`Taken` (what a session was loaded from, what its unlock is reading, what it
saved) and `Replacing` (the write between its check and its rename).

### PasskeyBridge

*State.* Per call: the page's promise (`page`), its prompt, the background's work for
it (`job`); per tab the relay's single `activePageRequestId` and its overlay; the
background's map of stashed requests; the lock, the signature counters of the open
tree and of the file; `told`, the credentials and counters that pages were given, is
history. A new credential is a fresh random id in the code; here it is its request
and the faults so far, which differ when a request makes a second one.

*Actions.* `Call`, `Stash`, the prompt's steps, `Begin` (the ceremony), `ChangeTree`,
`Persist` or its failure, `Answer`, `Escape`, `Lock` and `Restart` of the service worker.
`StashLost` is the background that cannot be reached: `sendMessage` rejects inside
`handlePageRequest` (`content-relay.ts:115-135`), which is called with `void` and catches
nothing, so the page is not told, its call stays the active one and no prompt comes up.
Left out: cryptography (in `PasskeyRecords` as far as bytes go) and the abort signal of a
page.

### The formats

Each of these modules makes a value, writes it as the code does, reads it back as the
code does, and says which differences the program may not make. `KdbxXml` writes one
object of each class with every value of each field; `Dispensable` names what the format
cannot carry (control characters, fractions of a second, the defaults that come back for
undefined); what is loaded from plain XML has a new header, of version 4.0 whatever
wrote the XML. `ProtectedText` keeps the salts of protected strings and the order they
are drawn in, so that a string that is skipped shifts all that follow; a version that is
pushed to the history has clones of the entry's protected values. `KdbxFile` treats
hashes and ciphers as terms; a file is damaged by replacing, dropping, swapping or
cutting any of its pieces, or by mixing it with an older save. In the run, `Encodings`
and `Generators` use bytes of four values instead of 256 (`ByteValues`): carries,
rejections and growth happen at any base. `PasskeyRecords` has real bytes, because CBOR
and DER change their form at given ones: lengths and counters on both sides of each such
place (`ByteLengths`, `SignCounts`, `SignatureBytes`), in numbers of two bytes instead
of 32 (`NumberBytes`). `PasswordHealth` is a little process: reports overlap, a lookup
of a range is shared while it runs and forgotten when it fails. `Transfer` runs CSV
character by character, in both directions. The export joins the names of the groups on
the way to an entry with slashes, and the import splits there: a name that has a slash
comes back as a group for each of its parts, one with blanks around it without them, and
a blank one not at all. `PathImported` says so, and `TransferKeepsEntries` claims the
same groups up to it.

### KdbxMerge, MetaMerge, EntryEdits, Combine

`KdbxMerge`: `replica` is each site's database (children, times, history, edit
state and tombstones of each object), `upstream` the copy they share. A site
creates, moves, deletes, edits and renames, and merges what is upstream into the replica;
the result is pushed and its edit state forgotten, the use that the comments of kdbx.ts
describe. A merge changes the local tree in place as it goes down from the root, and
compares with what it has changed: a newer entry or group is copied with its location's
date, before groups that are visited later ask for that date. So `walk` has the children
and the items as they are by now, the path the merge is at and what has met its
counterpart. `BeginMerge` merges the root, `MergeSubgroup` a subgroup of where the walk
is, in any order, `MergeEntries` the entries there on the way back, and `EndMerge` leaves
what is attached. A merge can leave an object in two groups. The next one then throws
(`getObjectMap`, `kdbx.ts:443`): `Sound` is the guard, and the model stops there, edits
included.

Two variables are history: `known`, what the shared copy has ever had, and `missed`, the
entries a merge has passed by (section 4). `MetaMerge` is the same for the dated,
half-dated and undated settings.

`EntryEdits` has one action per operation of the session on an entry; passkeys take
several awaits there. It also has what a combination writes into an entry of ours
(`mergeRecordIntoEntry`), with an await for each attachment it copies: keep-a fills in
what is empty, keep-b overwrites, and neither pushes to the history. So `FieldsInHistory`
names two exceptions: keep-b, and a sign-in with a passkey that KeePassXC made, which
writes its counter back. `Combine` opens a second vault, matches, previews, takes one
answer per group that differs, and applies it to the tree.

### VaultSession, LoginCapture, Autofill, DriveAccess, LockState, ClipboardClear

Each handler, check, call or page script is a small process that stands at the
await named by its `pc`; a step is what runs between two awaits. `VaultSession` has
the three shapes that handlers of `vault-session.ts` have (edit and save at once,
edit then wait, wait then edit), because they differ in which session's tree they
change and which one they save. `LoginCapture` and the trust list of `Autofill` are
records that are read, changed and written back as a whole. `DriveAccess` runs in
two contexts, the background and a page, that share files but not memory.
`LockState` keeps time in periods of the watchdog, `ClipboardClear` in ticks.

**History variables.** Some promises do not survive a race that the code does have.
The models then record that the race happened (`raced`, `crossed`, `strayed`,
`together`, `crowded`, `stopped`) at the step where it does, and the property says: this
promise is broken by nothing but that race. `ReportedInFileUnlessRaced` for instance
says that an edit answered with success is in its vault's file unless the session was
replaced while the handler waited or a content of the file was in hand when the file
changed; failures, terminations, locks and second unlocks alone do not break it. The
hazards in `PROJECT.json` say at which line each of these races is.

## 3. The runs

| Run | Expected | What it shows |
|---|---|---|
| `CloudSequential` | holds | One call at a time, with crashes, lost answers, storage failures, locks and another client between its awaits: an acknowledged edit is in Drive, in the cache or in the open session's tree (`AckedDurable`) |
| `CloudGuard` | holds | Without keep-cloud: a session knows only revisions whose content it holds (`KnownRevisionSeen`), the cache holds what its record names (`CacheSeen`), an upload by a session that knows the head drops nothing of it (`GuardedUploadKeepsHead`) |
| `Formats` | holds | What is written is what is read: `LoneSaveFaithful` (a save that no other overlaps returns a file that opens, with the tree's attachments), `FieldsKept`, `OpensAsSealed`, `NeverOpensDamaged`, `PasskeysReadBack`, `TransferKeepsEntries`, `HealthTrue`, `GeneratedRight`, `BytesReadBack` |
| `Library` | holds | The open database: `NothingLost` and `TombstonesDead` for every sequence of operations on every tree, `AgreedStays` and `VersionsKept` in merges, `SettingsKept`, `LinksFollowed`, `FieldsInHistory`, `CombineKeeps` |
| `Bridges` | holds | `LoneReadWhole`, `SaveKeepsOthers`, `RequestsEnd` (liveness) and `ImplementsVaultFile` (refinement) of the native host; `OwnAnswer`, `CeremoniesSaved` and `CallsSettle` (liveness) of passkey calls |
| `Background` | holds | `FilesApart`, `ReportedInFileUnlessRaced`, `CapturesReviewed`, `FilledRightly`, `DriveReachable`, `LockTold`, `SecretsLeave` |
| `CloudOverwrite` | violated | `NoSilentOverwrite`, finding 1 |
| `CloudOffline` | violated | `UploadCarriesCheckedRevision`, finding 2 |
| `KdbxSaveTwo` | violated | `ReturnedFileOpens` with overlapping saves, finding 3 |
| `KdbxTreeBin` | violated | `NothingLost` when a group that holds the bin may be deleted, finding 4 |
| `NativeConflict` | violated | `ConflictIsReal`, finding 5 |
| `MergeLoses` | violated | `MergeKeepsAll`, finding 6 |

Each passing run checks the types of its modules too.

**Bounds.** Cloud: two local edits and one remote one, two sessions, four revisions;
enough for an edit to be uploaded, overtaken, cached dirty, conflict, be resolved and be
saved again by a second session. Formats: two saves and three salts, so a third save can
follow two that overlapped; two binaries, so that one that is lost shifts the other; two
changes of a document and three of an entry's strings, so that a value is written, read,
changed and written again; two payloads of two blocks and an older file, so that blocks
can be swapped within and between files; lengths and counters at and next to the limits
of CBOR's and DER's forms; three entries and two overlapping reports with a failure;
three writes to a stream that must grow twice. Library: four groups and two entries,
enough for a nested bin, a group in the bin, a bin made on the spot and an import; in a
merge two sites, two groups and two entries (one of each not there before) and three
changes, enough for a deletion to meet a move or an edit and for the result to be merged
by the other side; four changes of settings; three operations on entries (a merge and
the making of a passkey are one each, however many awaits they have), with chains of
clones longer than the depth to which they are followed, passkeys of both kinds, and
merges of records that have a field, a code and an attachment of each sort, so that a
merge meets other operations at its awaits; two entries on each side of a combination,
every preview applied twice. Bridges: two calls in flight, two sessions, contents of one
chunk and of two, so that the file can change within a read; two passkey calls in one or
two tabs with two faults, lost messages among them. Background: two handlers, two vaults
and one change between them, two sessions, an edit of another program; two tabs, sites,
and submissions; two page loads and a pick on every kind of form; two tokens, two
contexts, a restart; four actions of users within five periods; two secrets and two
checks that overlap. The counters that bound a run are constants whose comment begins
with "bound". `CHECK_DEADLOCK FALSE` everywhere, because every system here may rest: a
locked vault no one opens again, a tree whose uuids are used up.

**Fairness.** It is stated where the code schedules the step and nothing it depends on
can wait for a person. `NativeHost`: the helper serves its port in a loop until it dies
and finishes the write it has begun, and the browser delivers a reply or the
disconnection that is there; each is weak fairness of one step. Dialogs are not part
of that. `PasskeyBridge`: the background answers a stash request that reaches it (its handler
does nothing but store it; a lost one is `StashLost`, and `CallsSettle` leaves such a call
out), and a person does not look at a prompt for ever, `Escape` being
what the prompt offers at any time; this last one is an assumption about people, and
without it a call may well stay open, since the shim has no timeout of its own. No
fairness is assumed for anything else. A request to Drive has no timeout, and an
unsynced cache is uploaded only by the next mutation or resolution: nothing in the
code schedules it, so no liveness is claimed there.

**Refinement.** `ImplementsVaultFile` is `VaultFile!Spec` under the mapping above: every
step of the port, the helper and the provider is a step of the register or leaves it
alone. A read takes effect at its first chunk, whatever happens to the file later. The
run shows it on two sessions and two calls, `Implements` of `BridgesProofs` proves it in general.

## 4. Findings

1. `gdrive.ts:164` asks for the head and uploads in a second request; a revision
   made between the two is overwritten, against `gdrive.ts:150`.
2. `gdrive.ts:165` skips its guard after an offline unlock.
3. `kdbx-format.ts:117`: two saves in flight share header and XML, and one of them
   can return a file that no key opens, without an error.
4. `kdbx.ts:216`: removing a group that contains the bin moves it into itself and
   out of the file.
5. `native-file.ts:209`: two saves of one session in flight carry the same tag; the
   second is refused as another program's change, and the message tells the user to
   reopen the database, which drops the edit.
6. `kdbx-group.ts:212`: what one client moves into a group that another has deleted is
   dropped by the merge, without a tombstone. The same comment is contradicted the other
   way too: an object that is moved and then edited can end up in two groups, because
   `copyFrom` overwrites the date that the group it came from compares with later; the next
   merge of that database throws (`kdbx.ts:443`).

Related, and not a run of its own: `AckedDurable` needs one call at a time. With
`Slots = {s1, s2}` in `CloudSequential.cfg` TLC finds it violated, because two
persists in flight (`vault-session.ts:1185`) may land in reverse order and the
acknowledged edit of the later one is lost when the session ends. Likewise the
properties with history variables are violated without them.

So is `VersionsKept` without its exception of `missed`. When one site puts an entry into a
group that the shared copy does not have, and another site edits the entry, the merge
stops at that group (`kdbx-group.ts:172`, the remote group is undefined) and never
compares the two copies of what is below it: the entry stays as the merging site has it,
the other site's version is in no history, and the result is pushed. No error is raised
and no line of the repository promises otherwise.

Without its exception, `CallsSettle` is violated by one lost message: a page whose stash
request does not reach the background waits for ever, and until its tab is loaded again
the relay holds that call as its active one. No line promises that case an answer either.

## 5. What is proved

TLAPS checks these for all values of the constants. Where a theorem has an assumption
on constants, it is a named definition in its module (`…Constants`) and stands in the
theorem's statement.

*CloudVaultProofs.* `TypeCorrect` in general. `KnownRevisionIsSeen`, `CacheIsSeen`
and `GuardedUploadsKeepHead` for one call at a time and without keep-cloud
(`OneCall`, `KeepLocalOnly`): both are needed, as finding 1, the note on `persist` and the
hazard at `opfs-cache.ts:195` show. The inductive invariant `GuardInv` says of every pc
what the call's local variables already agree on: a snapshot holds the revision
the session knows, a fetched content holds the revision asked for before it, and a
cache between its two writes still holds what its old record names. The cached
facts alone are not inductive because the blob and its record are two writes.
`AcknowledgedEditsLast` (`AckedDurable`) for one call at a time, resolutions of both
kinds, lost answers, failed writes and crashes included. Its invariant `DurableInv`
says that the blob and the open tree always hold all that was acknowledged and Drive
does unless the cache's record says otherwise (`DurableState`), and of every pc which
content is about to be the only copy and that it is complete (`DurableCall`).

*FormatsProofs.* Of `KdbxSave`, `TypesKept`, `AttachmentsPooled`, `LoneSavesFaithful` in
general, for overlapping saves too, and `FormatsSavesFaithful` for the run. The
inductive invariant adds that every salt in use was drawn, and for each pc of a save
that no other save overlapped, that the shared header and XML are still those it made.
Of `KdbxFile`, `FormatsOpenWhole` (`NeverOpensDamaged`) and `FormatsOpenAsSealed`
(`OpensAsSealed`), for payloads of any number of blocks. The state's invariant
`FileInv` only says that the file and the one before it are what the last two saves
wrote, with different seeds. The rest is about pieces: `PieceKinds` says what keys and
numbers the pieces of a save carry, so blocks that are verified with a save's keys are
the first blocks of that save, in order (`VerifiedPrefix`), from whatever mixture of
pieces they come, and a prefix that can be read is all of it (`ReadablePrefix`).
`FileConstants` assumes of the payloads what the two formats inside give: the part at
which a payload ends (the close of the gzip stream, the root's closing tag) is in no
other payload before that one's end; random values do not repeat. It says nothing of
credentials. A hash is the term it is taken of, so no two things have the same one.

On `KdbxXml` and `ProtectedText`: `FormatsFieldsKept`. `XmlInv` says that every field of
the database, and of what a reader makes of the file, holds a value of its kind; kind by
kind, what is written of such a value is read as it, or as what the format can carry.
For protected strings the point is that writing and reading take salts from one stream
in the same order: whatever the strings of an entry and of its history, both sides have
taken equally much after each of them, by induction along the strings, so what one adds
the other takes away. `XmlConstants` says that minor versions are 0 or 1 and that `None`
is neither a string nor a function.

*EncodingsProofs*, on `Encodings`: `FormatsBytesReadBack`, for bytes of any square number of values and
items of any size. `EncodingInv` says that the bytes of what was written stand one item
after the other (`Packed`), that the buffer has room for them and that the cursor of the
reader is where an item starts. A number comes back because what is left of it after k
bytes, times the k-th power of the base, plus what these k bytes say, is the number at
every k. A buffer that doubles reaches every size wanted; rounds of AES-KDF in pieces of
any size add up (`PiecesAdd`). `EncodingConstants` says that a number fits its bytes, that
the buffer starts with at least one byte, and that the cipher maps blocks to blocks.

On `PasskeyRecords`: `FormatsPasskeysReadBack`, for byte strings of any length to 65535
(what the two bytes of a credential's length can say), any counter of 32 bits and numbers
of a signature of any 1 to 60 bytes (for which DER's lengths are one byte; P-256 has 32).
An item of CBOR is followed to where it ends: what comes at a position is read there and
leaves the reader at the next (`Comes`, `ComesNext`), so a map is read item by item, by
induction along it, whatever stands behind it. That is also why the site finds the key
behind a credential of any length (`SiteFinds`, `RoomEnough`). For signatures, zeros
before a number change nothing of it (`ZerosBefore`), and what is left without them, or
with the one that keeps it positive, is the form DER allows (`DerNumber`). An object
identifier is read part by part (`OidSteps`). `PasskeyConstants` says these ranges, and
that `None` is no number and none of the texts.

*LibraryProofs*, on `KdbxTree`: `TypesKept`, `NothingIsLost`, `TombstonesAreDead`,
`BinIsSeenBothWays` and `OnlyTheBinIsEmptied`, for trees of any size, if
`MayHoldBin` is false (finding 4 is why); `LibraryLosesNothing` and
`LibraryBuriesTheDead` say two of them of the run. The properties are not inductive: the
invariant adds that arrays and pointers are one forest (`Agree`) and that a uuid
that was never in the tree is in no array. The lemmas say what growing the tree,
moving parts of it (`MoveLive`: everything stays, if no target is below what
moves) and burying parts (`BuryLive`: exactly what is below them leaves) do to the
set of what is reachable, defined as the least closed set, so no induction over
paths is needed.

On `MetaMerge`: `LibraryKeepsSettings`, with any clients, settings' values and icons.
The invariant says that a date dates one value of its part (`Together`), that what a
client changed and has not pushed is marked or newer, and what it removed is gone.

On `EntryEdits`: `LibraryFollowsLinks` and `LibraryKeepsFields`. The references of a
clone are a recursive function of the depth; what it yields after any number of links
is proved by taking the least depth at which it would differ (`LeastOf`, from the
well-founded order of the naturals). The first holds at the awaits of a combination too:
a passkey that is copied is in the index of the record that is being merged until it is in
that of the entry. `EditsConstants` only says that names differ and that `None` is no merge.

On `KdbxMerge`: `LibraryMergesAgree` and `LibraryKeepsVersions`, for any number of
sites, objects and changes and any limit of the history. What is below a group is the
limit of a recursive function here. That it is closed, for any finite set of groups,
is a pigeonhole over its levels, again by a least counterexample. Of a merge that is
under way, `Walking` says what is settled already: a group it has been to has all children
on which both sides agree, a group it has not been to is as it was, what it attaches comes
from one of the sides, and what it has left with was met on its way. So it does not
matter in which order it visits groups, nor which dates it has overwritten. The inductive
invariant `MergeInv` says that every replica and the shared copy are trees under the
root (`MergeHung`; a merge can attach a group only under one that is attached); that
all dates are in the past and a history is older than its entry (`AllDated`); that an
object at two sites has been in the shared copy (`OwnUntilShared`); and that what a
site has of an entry and did not add itself is in the shared copy too, or too old for
its limit (`NoneAhead`). The last is what makes it enough that a merge takes only the
versions with which a site's edit state marks them as added.

`VersionsKept` had first been stated without the exception of `missed`, and TLC agreed at
the bounds of that time. The proof did not go through, and with a group that is made
during the run TLC shows why. Section 4 has the story; the run has such a group now, and
the property holds for every entry that no merge has passed by.

On `Combine`: `LibraryCombines`, for vaults of any size. `CInv` says of a preview that its
groups take in every entry of the second vault or leave it for import, that those of two
kinds share none of these (`Matched`), that the entries of ours they name are still where
they were while the vault is the same one (`Placed`), and that what was called exact or
identical has one password (`Alike`), unless a save failed. What the answers then do to
the tree is followed group by group. `CombineConstants` says that the vaults are sequences of
entries, and that ours has room.

`LibraryTyped`: the types of all five modules, as the run's specification has them
together. For three of them a type is not inductive by itself: that times, texts and the
lengths of histories stay in their bounded sets is because none of them is ahead of the
steps the run has taken.

*BridgesProofs*, on `NativeHost`: `TypesKept`, `LoneReadsWhole`, `SavesKeepOthers`,
`KnownTagsHeld` and `NoCallsForgotten`, in general: files of any number of chunks,
any number of calls and sessions. `LoneReadWhole` speaks of the end of a read only;
the invariant `IInv` follows it through its chunks: while a read is alone, what it
has is a proper prefix of the helper's snapshot (`ReadOK`), and a read that others
overlap at least never has all of a content too early (`Partial`), so that when a
whole content does come out, `lastKnownEtag` is its tag (`LoadOK`). For saves it
says that the tag sent is of a content the session holds (`WriteOK`), and that a
session being unlocked has no other call (`GenOK`). `QueueOK`, `AnswersOK` and
`NoCallForgotten` together put every request in exactly one place.

`Implements`: `NativeHost` implements `VaultFile`, in general. The initial states map
to initial states and every step maps to a step or a stutter: the first chunk of a read
to `Take`, the provider's `Write` to `Make`, the helper's `Check` to `Allow`, its rename
to `Replace`, failures and other programs to `Fail` and `Others`. Beside `IInv` it needs
that every content anywhere was written by others or made by a session (`Known`,
`Seen`), that a session that saves was loaded from a content (`Based`), and that a call
that is not a read carries no chunks (`Blank`), so that `Taken` does not grow by what
nobody read.

`BridgesRunNativeHost`: the run's specification implies `NativeHost`'s, so all of this
holds of the run.

On `PasskeyBridge`: `AnswersAreOwn` and `CeremoniesAreSaved`, for any requests, tabs and
faults, and what the run has of them (`BridgesTyped`, `BridgesAnswerOwn`,
`BridgesSaveCeremonies`); the first assumes that a request is neither `None` nor `"refused"`. For it,
in a tab that was never crowded the call that is active is the one that is stashed or
shown (`OneActive`). For the second, while no two ceremonies were together, the file's
counters are at or below the open tree's, and a ceremony is above the file until its
save and then above all that pages were told (`InStep`).

*VaultSessionProofs.* `FilesStayApart` and `ReportsAreInFiles`, for any vaults, edits,
handlers and sessions, without assumptions. `TreesOK`, `FilesOK` and `CallOK` say in
which trees, files and handlers the edits of a vault may be. `Safe` is what makes the
second inductive: an edit whose handler is past its write is in the file, in the open
tree and in every content a handler holds of that file, so no later save can drop it,
unless the vault was raced; `Alone` and `Current` say that otherwise one handler holds
a file's content at a time and saves the open session.

*LockStateProofs.* `IconIsTrue`, `PagesAreTold` and `GoneIsLocked`, for any threshold and
any number of updates. Each property is about the end of something; the invariant is
about what is still pending: an update of the icon while it is stale (`Coloured`), a
notice or a telling update while a page shows too much (`Notified`), an event or a gap
while the vault of someone who is gone is open (`Gone`).

*BackgroundProofs.* Every invariant of the run, for all its constants.
`BackgroundKeepsFilesApart`, `BackgroundReports` and `BackgroundTellsOfLock` carry the
theorems of `VaultSession` and `LockState` over to it.
- `BackgroundClears` (`SecretsLeave`): what is in the clipboard was copied last, and what
  is pending is due no earlier than its copy says (`InTime`), unless two checks crossed or
  the browser was stopped.
- `BackgroundReachesDrive`: the invariant gives each place of a call the reason it is
  there (`Reasoned`): a token is renewed only if it or the stored one is known to be
  withdrawn, and a second refusal needs a token that is newer than the call.
- `BackgroundReviewsCaptures`: without a clash, one handler at a time changes the record
  of captures, and what it will write back is what the record should be (`Alone`,
  `Due`); without a page that strayed, what is captured in a tab was typed at its site
  (`Own`).
- `BackgroundFillsRightly`: a fill that is under way in a tab or from the popup is for an
  entry that is among the best for the page it was asked for, and the page's domain is
  or was trusted (`TabOK`, `PopupOK`); all of it only while the tab's number of loads is
  the one the request carries. `FillConstants` says that pages with one address have one
  host and one domain.
- `BackgroundTyped`: all types of the run.

`AttachmentsPooled`, `BinIsSeenBothWays`, `OnlyTheBinIsEmptied`, `KnownTagsHeld` and
`NoCallsForgotten` are invariants the others rest on; they are proved and no run
repeats them.

*Only model-checked.*
- Liveness (`RequestsEnd`, `CallsSettle`), which is out of the prover's reach.
- `HealthTrue`, `TransferKeepsEntries` and `GeneratedRight`: these modules compute with
  folds over sequences and sets (edit distances, CSV character by character, weights of
  passwords). The library's theorems about folds, like its induction, take an operator as
  a parameter, which the installed provers cannot instantiate.
- The types of `Formats`, which include those of these modules.
- The violations are TLC's alone.

## 6. Not modelled

- Ciphers, hashes, gzip, Argon2, WebCrypto, the XML and JSON parsers, unzip: libraries;
  terms, permutations or structured values here.
- The host installer, favicons, the parsing of key files, floats in binary streams,
  KDBX 3, plain XML import and export: straight-line byte layout or one-shot I/O.
- Biometric unlock: calls into WebAuthn around one stored record.
- The list of approved files of the native host, its dialogs, stat and ping; reads of
  a second path by Combine, which share the helper's one slot.
- The order of children, and so which of two a merge visits first; what becomes of a group
  that a merge has left in two places; custom icons and attachments in a merge; icons, tags
  and groups of imported entries in Combine.
- In `DriveAccess`, a promise of the device key that was rejected and is kept until the
  context ends.
- The user interface, except what Options, popup and manager show of a lock, fill,
  resolve or revoke; where menus are drawn.
- The prompt and the answer's parsing of the AI sort, before its plan is applied.

## 7. Open work

- `Transfer` and `Generators`, written with recursive functions instead of folds as
  `Combine`, `ProtectedText` and `Encodings` are, so that what they promise can be proved
  by least counterexamples too. The edit distance of `PasswordHealth` is two recursions
  deep, and would come last.
- One specification of `VaultSession` over a provider that is any of the three.

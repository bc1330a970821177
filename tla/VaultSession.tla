----------------------------- MODULE VaultSession -----------------------------
(***************************************************************************)
(* The background's unlocked vault and the handlers that change and save   *)
(* it, with the local-file provider it saves through.                      *)
(*                                                                         *)
(* Source: background/vault-session.ts, config/vault-config.ts and         *)
(* providers/local-file.ts of packages/web.  Handlers are not queued: each *)
(* is a small process, call[c].pc is the await it stands at, and the       *)
(* session, the configured vault and the files change meanwhile.  A tree   *)
(* or a file is the set of edits it holds; what an edit does to the tree   *)
(* is in KdbxTree and EntryEdits, what overlapping saves do to each        *)
(* other's bytes in KdbxSave.                                              *)
(***************************************************************************)
EXTENDS Naturals, Sequences

CONSTANTS
    Vaults,
    Edits,          \* edits of this extension, each made once
    OtherEdits,     \* edits another program saves in the file of a vault
    Calls,          \* handlers that can be running at the same time
    MaxSessions,    \* bound: unlocks that got as far as a session
    MaxSwitches,    \* bound: changes of the configured vault
    None

Sessions == 1..MaxSessions
Locked == 0

VARIABLES
    configured,     \* keetar.configuredVault, or None between two of them
    file,           \* each vault's file
    session,        \* this.state: the session that is open, or Locked
    of,             \* the vault of each session
    tree,           \* the database of each session
    switches,
    call,
    target,         \* history: the vault each edit was made in
    reported,       \* history: edits whose handler answered ok
    crossed,        \* history: edits whose handler saved another session's tree
    raced           \* history: vaults whose file or tree was taken by a handler, or
                    \* rewritten by others, while a handler held a content of it

vars == <<configured, file, session, of, tree, switches, call, target, reported, crossed, raced>>

Idle == [pc |-> "idle", vault |-> None, gen |-> Locked, edit |-> None, data |-> {}]

At(c, pc) == call[c].pc = pc
Become(c, r) == call' = [call EXCEPT ![c] = r]
Goto(c, pc) == call' = [call EXCEPT ![c].pc = pc]
Finish(c) == Become(c, Idle)

\* Handlers that hold a content of v's file: one read from it or one about to replace it.
Holding == {"load", "save", "write"}
Races(v, c) ==
    IF \E d \in Calls \ {c} : call[d].pc \in Holding /\ call[d].vault = v THEN {v} ELSE {}

Init ==
    /\ configured \in Vaults
    /\ file = [v \in Vaults |-> {}]
    /\ session = Locked
    /\ of = <<>>
    /\ tree = <<>>
    /\ switches = 0
    /\ call = [c \in Calls |-> Idle]
    /\ target = <<>>
    /\ reported = {}
    /\ crossed = {}
    /\ raced = {}

----------------------------------------------------------------------------
(* Unlocking: the configured vault is asked for, the file is read and then *)
(* decrypted, with an await each, and the session opens whatever happened. *)

StartUnlock(c, v) ==
    /\ At(c, "idle")
    /\ configured = v                   \* the page that asks shows this vault
    /\ Become(c, [Idle EXCEPT !.pc = "config", !.vault = v])
    /\ UNCHANGED <<configured, file, session, of, tree, switches, target, reported, crossed, raced>>

CheckConfigured(c) ==
    /\ At(c, "config")
    /\ IF configured = call[c].vault THEN Goto(c, "read") ELSE Finish(c)
    /\ UNCHANGED <<configured, file, session, of, tree, switches, target, reported, crossed, raced>>

ReadFile(c) ==
    /\ At(c, "read")
    /\ Become(c, [call[c] EXCEPT !.pc = "load", !.data = file[call[c].vault]])
    /\ raced' = raced \cup Races(call[c].vault, c)
    /\ UNCHANGED <<configured, file, session, of, tree, switches, target, reported, crossed>>

Load(c) ==
    /\ At(c, "load")
    /\ Len(of) < MaxSessions
    /\ of' = Append(of, call[c].vault)
    /\ tree' = Append(tree, call[c].data)
    /\ session' = Len(of) + 1
    /\ Finish(c)
    /\ UNCHANGED <<configured, file, switches, target, reported, crossed, raced>>

Lock ==
    /\ session # Locked
    /\ session' = Locked
    /\ UNCHANGED <<configured, file, of, tree, switches, call, target, reported, crossed, raced>>

\* "Use a different database": Options locks, forgets the vault, and another is picked.
ForgetVault ==
    /\ session = Locked /\ configured # None
    /\ switches < MaxSwitches
    /\ switches' = switches + 1
    /\ configured' = None
    /\ UNCHANGED <<file, session, of, tree, call, target, reported, crossed, raced>>

ConfigureVault(v) ==
    /\ configured = None
    /\ configured' = v
    /\ UNCHANGED <<file, session, of, tree, switches, call, target, reported, crossed, raced>>

----------------------------------------------------------------------------
(* Handlers.  A handler takes the database once, when it starts; persist   *)
(* takes the database, the provider and the path of whatever session is    *)
(* open when it is called.                                                 *)

\* A handler that changes the tree of session g with edit e.
Changed(g, e) == [tree EXCEPT ![g] = @ \cup {e}]
Unused(e) == e \notin DOMAIN target

\* persist(), called by handler c of session g: what it saves, and where.
SavedVaultByConfig(trees) == configured
SavedVault(trees) == of[session]

Persist(c, g, e, trees) ==
    IF session = Locked
    THEN Finish(c) /\ UNCHANGED <<crossed, raced>>     \* "vault is locked"
    ELSE LET v == SavedVault(trees)
         IN  /\ Become(c, [pc |-> "save", vault |-> v, gen |-> session, edit |-> e,
                           data |-> trees[session]])
             /\ crossed' = IF g = session THEN crossed ELSE crossed \cup {e}
             /\ raced' = raced \cup Races(v, c)

Make(e, g) == target' = [d \in DOMAIN target \cup {e} |-> IF d = e THEN of[g] ELSE target[d]]

\* Most handlers change the tree and save in one go (updateEntry, moveEntry, ...).
EditAndSave(c, e) ==
    /\ At(c, "idle") /\ session # Locked /\ Unused(e)
    /\ tree' = Changed(session, e)
    /\ Make(e, session)
    /\ Persist(c, session, e, tree')
    /\ UNCHANGED <<configured, file, session, of, switches, reported>>

\* Those that fetch a favicon for what they made wait before they save
\* (createEntryFromCapturedLogin); so do the batches (importEntries).
EditThenWait(c, e) ==
    /\ At(c, "idle") /\ session # Locked /\ Unused(e)
    /\ tree' = Changed(session, e)
    /\ Make(e, session)
    /\ Become(c, [Idle EXCEPT !.pc = "fetch", !.gen = session, !.edit = e])
    /\ UNCHANGED <<configured, file, session, of, switches, reported, crossed, raced>>

SaveAfterWait(c) ==
    /\ At(c, "fetch")
    /\ Persist(c, call[c].gen, call[c].edit, tree)
    /\ UNCHANGED <<configured, file, session, of, tree, switches, target, reported>>

\* Those that prepare data first change the database they looked up when they
\* started (addAttachment, setCustomIconFromFavicon, createPasskey).
WaitThenEdit(c, e) ==
    /\ At(c, "idle") /\ session # Locked /\ Unused(e)
    /\ Make(e, session)
    /\ Become(c, [Idle EXCEPT !.pc = "prepare", !.gen = session, !.edit = e])
    /\ UNCHANGED <<configured, file, session, of, tree, switches, reported, crossed, raced>>

EditPrepared(c) ==
    /\ At(c, "prepare")
    /\ tree' = Changed(call[c].gen, call[c].edit)
    /\ Persist(c, call[c].gen, call[c].edit, tree')
    /\ UNCHANGED <<configured, file, session, of, switches, target, reported>>

\* retrySync: a save without a change.
RetrySync(c) ==
    /\ At(c, "idle") /\ session # Locked
    /\ Persist(c, session, None, tree)
    /\ UNCHANGED <<configured, file, session, of, tree, switches, target, reported>>

----------------------------------------------------------------------------
(* The save: the bytes, the file, and the metadata the provider returns.   *)

Serialize(c) ==
    /\ At(c, "save")
    /\ Goto(c, "write")
    /\ UNCHANGED <<configured, file, session, of, tree, switches, target, reported, crossed, raced>>

\* close() of the writable replaces the file.
WriteFile(c) ==
    /\ At(c, "write")
    /\ file' = [file EXCEPT ![call[c].vault] = call[c].data]
    /\ Goto(c, "stat")
    /\ UNCHANGED <<configured, session, of, tree, switches, target, reported, crossed, raced>>

Report(c) == reported' = reported \cup ({call[c].edit} \ {None})

ReturnMetadata(c) ==
    /\ At(c, "stat")
    /\ Report(c)
    /\ Finish(c)
    /\ UNCHANGED <<configured, file, session, of, tree, switches, target, crossed, raced>>

\* A call fails where it stands: the file cannot be read or decrypted, the
\* permission has lapsed, the disk is full, the metadata cannot be had.
FailReporting(c) ==
    /\ ~At(c, "idle")
    /\ Report(c)
    /\ Finish(c)
    /\ UNCHANGED <<configured, file, session, of, tree, switches, target, crossed, raced>>

Fail(c) ==
    /\ call[c].pc \in {"read", "load", "prepare", "save", "write", "stat"}
    /\ Finish(c)
    /\ UNCHANGED <<configured, file, session, of, tree, switches, target, reported, crossed, raced>>

----------------------------------------------------------------------------
(* The world around it.                                                    *)

\* A sync client or another program rewrites the file; nothing notices.
OtherWrites(v, e) ==
    /\ Unused(e)
    /\ file' = [file EXCEPT ![v] = @ \cup {e}]
    /\ target' = [d \in DOMAIN target \cup {e} |-> IF d = e THEN v ELSE target[d]]
    /\ raced' = raced \cup Races(v, None)
    /\ UNCHANGED <<configured, session, of, tree, switches, call, reported, crossed>>

\* The service worker is terminated.
Terminate ==
    /\ session # Locked \/ \E c \in Calls : ~At(c, "idle")
    /\ session' = Locked
    /\ call' = [c \in Calls |-> Idle]
    /\ UNCHANGED <<configured, file, of, tree, switches, target, reported, crossed, raced>>

Next ==
    \/ \E c \in Calls :
        \/ \E v \in Vaults : StartUnlock(c, v)
        \/ CheckConfigured(c) \/ ReadFile(c) \/ Load(c)
        \/ \E e \in Edits : EditAndSave(c, e) \/ EditThenWait(c, e) \/ WaitThenEdit(c, e)
        \/ SaveAfterWait(c) \/ EditPrepared(c) \/ RetrySync(c)
        \/ Serialize(c) \/ WriteFile(c) \/ ReturnMetadata(c) \/ Fail(c)
    \/ Lock \/ ForgetVault
    \/ \E v \in Vaults : ConfigureVault(v) \/ \E e \in OtherEdits : OtherWrites(v, e)
    \/ Terminate

Spec == Init /\ [][Next]_vars

----------------------------------------------------------------------------
(* Properties.                                                             *)

Trees == SUBSET (Edits \cup OtherEdits)

TypeOK ==
    /\ configured \in Vaults \cup {None}
    /\ file \in [Vaults -> Trees]
    /\ session \in 0..Len(of)
    /\ of \in Seq(Vaults) /\ tree \in Seq(Trees) /\ Len(tree) = Len(of)
    /\ Len(of) <= MaxSessions
    /\ \A c \in Calls :
        /\ call[c].gen \in 0..Len(of) /\ call[c].data \in Trees
        /\ call[c].pc \in {"save", "write", "stat"} => call[c].vault \in Vaults
    /\ DOMAIN target \subseteq Edits \cup OtherEdits
    /\ reported \cup crossed \subseteq DOMAIN target \cup {None}
    /\ raced \subseteq Vaults

\* An edit made in one vault never reaches the file of another, however handlers,
\* locks, unlocks and changes of the configured vault interleave (persist takes
\* database, provider and path of one session).
FilesApart == \A v \in Vaults : \A e \in file[v] : target[e] = v

\* An edit whose handler answered ok is in the file of its vault ("failure surfaces as
\* error on triggering mutation", persist), except for two races: the handler's session
\* was replaced while it waited, or the vault's file was read or rewritten while a save of
\* it was under way, or a save began while an unlock held what it had read.
\* A failure, a termination, a lock or a second unlock alone breaks no promise.
ReportedInFileUnlessRaced ==
    \A e \in reported : e \in crossed \/ target[e] \in raced \/ e \in file[target[e]]
=============================================================================

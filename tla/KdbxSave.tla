------------------------------ MODULE KdbxSave ------------------------------
(***************************************************************************)
(* Kdbx.save on one open database, with the tree, the pool of attachments  *)
(* and the calls that save it.                                             *)
(*                                                                         *)
(* Source: kdbx/kdbx-format.ts, kdbx-header.ts, kdbx-binaries.ts and the   *)
(* cleanup of kdbx.ts (packages/core/src).  A save is a chain of promises  *)
(* over state that belongs to the database, not to the save: the header    *)
(* with its salts, and the XML document.  Each action is the synchronous   *)
(* code between two awaits.  Everything generateSalts draws is drawn at    *)
(* once, so one number stands for a master seed, a KDF salt, an IV and a   *)
(* protected-stream key.                                                   *)
(***************************************************************************)
EXTENDS Integers, Sequences, FiniteSets

CONSTANTS
    Entries,
    Binaries,       \* attachment contents; their hash identifies them
    Saves,          \* saves that can be in flight at the same time
    MaxSalts,       \* bound: saves started
    None

ASSUME SaveAssumption == MaxSalts \in Nat /\ IsFiniteSet(Binaries)

Holders == Entries \X {"now", "history"}
Attachments == [Holders -> SUBSET Binaries]

VARIABLES
    attached,       \* the attachments of every entry and of its history
    pool,           \* KdbxBinaries._mapByHash, in insertion order
    salts,          \* what the header holds: the number of generateSalts calls
    wiped,          \* master seeds whose buffer computeKeysV4 zeroed
    xml,            \* kdbx.xml: the refs of the built document, or None
    save,           \* the saves in flight
    file            \* the last file a save returned, or None

vars == <<attached, pool, salts, wiped, xml, save, file>>

Wiped == 0          \* a seed of zeros

\* What a file is made with: the salts of its header, of its keys (master seed,
\* KDF salt), of its IV, of the stream its values are protected with, and of the
\* inner header that names that stream; the refs of its XML and its binaries.
\* History: the attachments of the tree it is to hold, and whether its save was
\* the only one from its start on.
Blank == [header |-> 0, seed |-> Wiped, kdf |-> 0, iv |-> 0, stream |-> 0, inner |-> 0,
          refs |-> [h \in Holders |-> {}], bins |-> <<>>,
          meant |-> [h \in Holders |-> {}], alone |-> FALSE]

Idle == [pc |-> "idle", file |-> Blank]

Init ==
    /\ attached = [h \in Holders |-> {}]
    /\ pool = <<>>
    /\ salts = 0
    /\ wiped = {}
    /\ xml = None
    /\ save = [s \in Saves |-> Idle]
    /\ file = None

At(s, pc) == save[s].pc = pc
Goes(s, pc, f) == save' = [save EXCEPT ![s] = [pc |-> pc, file |-> f]]

Pooled(p) == {p[i] : i \in DOMAIN p}
Used(att) == UNION {att[h] : h \in Holders}

\* The ways to list a set of binaries.
Orders(S) == {q \in [1..Cardinality(S) -> S] : S \subseteq Pooled(q)}

KeepsOrder(p, q) ==
    \A i, j \in DOMAIN q : i < j =>
        \E k, l \in DOMAIN p : k < l /\ p[k] = q[i] /\ p[l] = q[j]

\* A binary the map already has keeps its place.
Added(p, b) == IF b \in Pooled(p) THEN p ELSE Append(p, b)

\* cleanup: only what an entry or its history uses stays.
Cleaned(p, att) == {q \in Orders(Pooled(p) \cap Used(att)) : KeepsOrder(p, q)}

RefsFromZero(p, att) == [h \in Holders |-> {i - 1 : i \in {k \in DOMAIN p : p[k] \in att[h]}}]

\* getRefByHash: an attachment is written as its binary's place in the map.
Refs(p, att) == [h \in Holders |-> {i \in DOMAIN p : p[i] \in att[h]}]

----------------------------------------------------------------------------
(* A save, from persist() or exportVaultKdbx() of a tree whose attachments *)
(* are att.                                                                *)

SaltsKept == IF salts = 0 THEN 1 ELSE salts

\* generateSalts draws new ones for every save.
SaltsDrawn == salts + 1

\* cleanup, then in save: generateSalts, the header, buildXml.
Persist(s, att, p) ==
    /\ At(s, "idle")
    /\ salts < MaxSalts
    /\ attached' = att
    /\ pool' \in Cleaned(p, att)
    /\ salts' = SaltsDrawn
    /\ xml' = Refs(pool', att)
    /\ save' = [t \in Saves |->
                    IF t = s
                    THEN [pc |-> "keys",
                          file |-> [Blank EXCEPT !.header = SaltsDrawn, !.meant = att,
                                                 !.alone = \A o \in Saves : At(o, "idle")]]
                    ELSE [save[t] EXCEPT !.file.alone = FALSE]]
    /\ UNCHANGED <<wiped, file>>

\* computeKeysV4, once the header is hashed: it takes the header's master seed...
TakeSeed(s) ==
    /\ At(s, "keys")
    /\ Goes(s, "kdf", [save[s].file EXCEPT !.seed = salts])
    /\ UNCHANGED <<attached, pool, salts, wiped, xml, file>>

\* ... and, once the credentials are hashed, the salt for Argon2.
StartKdf(s) ==
    /\ At(s, "kdf")
    /\ Goes(s, "seed", [save[s].file EXCEPT !.kdf = salts])
    /\ UNCHANGED <<attached, pool, salts, wiped, xml, file>>

\* The derived key is joined with the seed, whose buffer is then zeroed.
UseSeed(s) ==
    /\ At(s, "seed")
    /\ wiped' = wiped \cup {save[s].file.seed}
    /\ Goes(s, "stream", [save[s].file EXCEPT !.seed = IF @ \in wiped THEN Wiped ELSE @])
    /\ UNCHANGED <<attached, pool, salts, xml, file>>

\* getProtectSaltGenerator.
StartStream(s) ==
    /\ At(s, "stream")
    /\ Goes(s, "body", [save[s].file EXCEPT !.stream = salts])
    /\ UNCHANGED <<attached, pool, salts, wiped, xml, file>>

\* The XML, then the inner header with every binary, then the cipher with the IV.
WriteBody(s) ==
    /\ At(s, "body")
    /\ xml # None
    /\ Goes(s, "end", [save[s].file EXCEPT !.inner = salts, !.iv = salts,
                                           !.refs = xml, !.bins = pool])
    /\ UNCHANGED <<attached, pool, salts, wiped, xml, file>>

\* 'no xml': another save has ended meanwhile.
NoXml(s) ==
    /\ At(s, "body")
    /\ xml = None
    /\ Goes(s, "idle", Blank)
    /\ UNCHANGED <<attached, pool, salts, wiped, xml, file>>

\* cleanXml, and the file is handed to the caller.
Return(s) ==
    /\ At(s, "end")
    /\ xml' = None
    /\ file' = save[s].file
    /\ Goes(s, "idle", Blank)
    /\ UNCHANGED <<attached, pool, salts, wiped>>

----------------------------------------------------------------------------
(* The mutations of the vault session.                                     *)

AddAttachment(s, e, b) ==
    Persist(s, [attached EXCEPT ![<<e, "now">>] = @ \cup {b}], Added(pool, b))

RemoveAttachment(s, e, b) ==
    /\ b \in attached[<<e, "now">>]
    /\ Persist(s, [attached EXCEPT ![<<e, "now">>] = @ \ {b}], pool)

\* updateEntry: pushHistory copies the entry, attachments included.
UpdateEntry(s, e) ==
    Persist(s, [attached EXCEPT ![<<e, "history">>] = @ \cup attached[<<e, "now">>]], pool)

\* emptyRecycleBin, with the entry in the bin.
DropEntry(s, e) ==
    Persist(s, [attached EXCEPT ![<<e, "now">>] = {}, ![<<e, "history">>] = {}], pool)

\* retrySync, an export, or an edit of fields only.
SaveAgain(s) == Persist(s, attached, pool)

\* applyCombine copies attachments one await at a time and saves at the end.
CopyAttachment(e, b) ==
    /\ b \notin attached[<<e, "now">>]
    /\ pool' = Added(pool, b)
    /\ attached' = [attached EXCEPT ![<<e, "now">>] = @ \cup {b}]
    /\ UNCHANGED <<salts, wiped, xml, save, file>>

----------------------------------------------------------------------------
(* Kdbx.load of a file.                                                    *)

\* The header's HMAC, the ciphertext, and the protected values come out right.
Opens(f) ==
    /\ f.seed = f.header /\ f.kdf = f.header     \* else InvalidKey
    /\ f.iv = f.header                           \* else the payload is garbled
    /\ f.stream = f.inner                        \* else its protected values are

\* readBinary resolves refs by place; a ref beyond the last binary is skipped.
Content(f) == [h \in Holders |-> {f.bins[i] : i \in f.refs[h] \cap DOMAIN f.bins}]

\* Locked and unlocked again: a new database, whose map of binaries is filled in
\* the order their hashes happen to be ready (computeHashes).
Reopen ==
    /\ \A s \in Saves : At(s, "idle")
    /\ file # None
    /\ Opens(file)
    /\ attached' = Content(file)
    /\ pool' \in Orders(Pooled(file.bins))
    /\ xml' = None
    /\ UNCHANGED <<salts, wiped, save, file>>

----------------------------------------------------------------------------
Mutation(s) ==
    \/ SaveAgain(s)
    \/ \E e \in Entries : UpdateEntry(s, e) \/ DropEntry(s, e)
    \/ \E e \in Entries, b \in Binaries : AddAttachment(s, e, b) \/ RemoveAttachment(s, e, b)

SaveStep(s) ==
    \/ TakeSeed(s) \/ StartKdf(s) \/ UseSeed(s) \/ StartStream(s)
    \/ WriteBody(s) \/ NoXml(s) \/ Return(s)

Next ==
    \/ \E s \in Saves : Mutation(s) \/ SaveStep(s)
    \/ \E e \in Entries, b \in Binaries : CopyAttachment(e, b)
    \/ Reopen

Spec == Init /\ [][Next]_vars

----------------------------------------------------------------------------
(* Properties.                                                             *)

Pc == {"idle", "keys", "kdf", "seed", "stream", "body", "end"}
AllRefs == [Holders -> SUBSET (Nat \ {0})]
File == [header : Nat, seed : Nat, kdf : Nat, iv : Nat, stream : Nat, inner : Nat,
         refs : AllRefs, bins : Seq(Binaries), meant : Attachments, alone : BOOLEAN]

TypeOK ==
    /\ attached \in Attachments
    /\ pool \in Seq(Binaries)
    /\ salts \in Nat
    /\ wiped \subseteq 0..salts
    /\ xml \in {None} \cup AllRefs
    /\ save \in [Saves -> [pc : Pc, file : File]]
    /\ file \in {None} \cup File

\* What persist() promises: a file that save() returned opens with the vault's
\* own credentials.  ("Failure surfaces as error on the triggering mutation.")
ReturnedFileOpens == file # None => Opens(file)

\* Whatever happened before (saves that overlapped, wiped seeds, a document left
\* behind or gone), a save that overlaps no other returns a file that opens and
\* holds exactly the attachments the tree had when it began, each under its own
\* entry, although refs and binaries are written at two moments.
LoneSaveFaithful ==
    file # None /\ file.alone => Opens(file) /\ Content(file) = file.meant

\* Every attachment of the tree and of its history has its binary in the map:
\* writeBinaries silently drops an entry's attachments from the first that has none.
AttachedIsPooled == Used(attached) \subseteq Pooled(pool)
=============================================================================

------------------------------ MODULE EntryEdits ------------------------------
(***************************************************************************)
(* What the operations of the vault session do to the entries they change: *)
(* fields, one-time codes, custom fields, clones, attachments, passkeys in *)
(* both of their forms, the history, and what the combine of a second      *)
(* vault merges into an entry (which entries it matches is in Combine).    *)
(*                                                                         *)
(* Source: background/vault-session.ts, field-reference.ts and             *)
(* entry-merge.ts of packages/web; kdbx/kdbx-entry.ts, reserved-fields.ts  *)
(* and passkey/ of packages/core.  A text is named by the step that wrote  *)
(* it.  The tree the entries are in is in KdbxTree, the saves in           *)
(* VaultSession; making or using a passkey takes several awaits, and so    *)
(* does copying attachments.                                               *)
(***************************************************************************)
EXTENDS Integers, Sequences, FiniteSets

CONSTANTS
    Entries,
    Custom,         \* names of custom fields
    Passkeys,       \* credential ids
    Foreign,        \* passkeys KeePassXC made, stored its way
    Doc,            \* the name of an attachment that is no passkey
    Incoming,       \* what a second vault's entries hold: [fields, files, index, xc]
    MaxDepth,       \* MAX_FIELD_REFERENCE_DEPTH
    MaxSteps,       \* bound: operations; a merge and the making of a passkey are one each
    None

Logins == {"UserName", "Password"}
Fields == Logins \cup {"otp", "TOTP Seed"} \cup Custom
Files == {Doc} \cup Passkeys

VARIABLES
    entry,          \* the entries of the tree
    dropped,        \* entries that were deleted for good
    job,            \* per passkey: what the background is doing with it
    steps,
    raced,          \* history: passkeys that were removed while they were used
    merging         \* mergeRecordIntoEntry between two of its attachments, or None

vars == <<entry, dropped, job, steps, raced, merging>>

Empty == [text |-> 0, ref |-> None]
Text(n) == [text |-> n, ref |-> None]
Reference(e) == [text |-> 0, ref |-> e]
NoJob == [pc |-> "none", in |-> None, index |-> {}]

Blank ==
    [fields |-> [f \in Fields |-> IF f \in Logins THEN Empty ELSE None],
     files |-> [n \in Files |-> 0],         \* attachments: 1 when there is one of that name
     index |-> {},                          \* KP_Passkey_Index
     xc |-> None,                           \* KeePassXC's fields: the passkey, and the step of its counter
     hist |-> <<>>]

StoredByXc(p, n) == IF p = None THEN None ELSE [key |-> p, at |-> n]

Init ==
    /\ \E e \in Entries, p \in Foreign \cup {None} :
        entry = [x \in Entries |-> IF x = e THEN [Blank EXCEPT !.xc = StoredByXc(p, 0)] ELSE Blank]
    /\ dropped = {}
    /\ job = [p \in Passkeys \cup Foreign |-> NoJob]
    /\ steps = 0
    /\ raced = {}
    /\ merging = None

Now == steps + 1
Tick == steps < MaxSteps /\ steps' = Now
Live == Entries \ dropped

----------------------------------------------------------------------------
(* kdbx-entry.ts                                                           *)

\* copyFrom without the history.
Copy(x) == [fields |-> x.fields, files |-> x.files, index |-> x.index, xc |-> x.xc]

NotPushed(x) == x
Pushed(x) == [x EXCEPT !.hist = Append(@, Copy(x))]

Put(e, x) == entry' = [entry EXCEPT ![e] = x]
Edit(e, x) ==
    /\ e \in Live
    /\ Tick
    /\ Put(e, x)
    /\ UNCHANGED <<dropped, job, raced, merging>>

----------------------------------------------------------------------------
(* Fields.                                                                 *)

\* applyFields: those the form sends.
Applied(x, S, n) == [x EXCEPT !.fields = [f \in Fields |-> IF f \in S THEN Text(n) ELSE @[f]]]

\* updateEntry; updateEntryFromCapturedLogin sends the password and perhaps a name.
UpdateEntry(e, S) == S # {} /\ Edit(e, Applied(Pushed(entry[e]), S, Now))

\* setEntryTotp and removeEntryTotp.
SetTotp(e) == Edit(e, Applied(Pushed(entry[e]), {"otp"}, Now))

Without(x, S) == [x EXCEPT !.fields = [f \in Fields |-> IF f \in S THEN None ELSE @[f]]]
RemoveTotp(e) == Edit(e, Without(Pushed(entry[e]), {"otp", "TOTP Seed"}))

\* validateCustomFieldName: a name in use is refused.
Unused(x, f) == x.fields[f] = None

SetCustomField(e, f) ==
    /\ Unused(entry[e], f)
    /\ Edit(e, Applied(Pushed(entry[e]), {f}, Now))

RenameCustomField(e, f, g) ==
    /\ ~Unused(entry[e], f)
    /\ g = f \/ Unused(entry[e], g)
    /\ Edit(e, [Without(Pushed(entry[e]), {f}) EXCEPT !.fields[g] = entry[e].fields[f]])

RemoveCustomField(e, f) == Edit(e, Without(Pushed(entry[e]), {f}))

----------------------------------------------------------------------------
(* Clones: references to the login of another entry.                       *)

SetClone(e, s) ==
    /\ s # e /\ s \in Live
    /\ Edit(e, [Pushed(entry[e]) EXCEPT !.fields = [f \in Fields |-> IF f \in Logins THEN Reference(s)
                                                                    ELSE @[f]]])

ClearClone(e) ==
    Edit(e, [Pushed(entry[e]) EXCEPT !.fields = [f \in Fields |-> IF f \in Logins THEN Empty ELSE @[f]]])

\* The history is pushed before a clone of itself is refused, and nothing is saved.
RefuseClone(e) == Edit(e, Pushed(entry[e]))

\* resolveFieldValue: at most MaxDepth references are followed; a source that is not in
\* the tree leaves the reference as it is.
ResolvedFrom(v, f) ==
    LET follow[d \in 0..MaxDepth + 1] ==
            IF d = 0 THEN v
            ELSE LET w == follow[d - 1]
                 IN  IF w.ref \in Live THEN entry[w.ref].fields[f] ELSE w
    IN  follow
ResolvedDeeper(e, f) == ResolvedFrom(entry[e].fields[f], f)[MaxDepth + 1]
Resolved(e, f) == ResolvedFrom(entry[e].fields[f], f)[MaxDepth]

\* move(x, null), from the recycle bin.
Drop(e) ==
    /\ e \in Live
    /\ Tick
    /\ dropped' = dropped \cup {e}
    /\ UNCHANGED <<entry, job, raced, merging>>

----------------------------------------------------------------------------
(* Attachments: these have no history.                                     *)

AddAttachment(e) == Edit(e, [entry[e] EXCEPT !.files[Doc] = 1])

\* The list shows the attachments passkeys are kept in too.
RemoveAttachment(e, n) ==
    /\ entry[e].files[n] # 0
    /\ Edit(e, [entry[e] EXCEPT !.files[n] = 0])

----------------------------------------------------------------------------
(* Passkeys.                                                               *)

\* createPasskey up to its first await, for an entry that is there already.
StartPasskey(p, e) ==
    /\ e \in Live /\ p \in Passkeys
    /\ job[p] = NoJob
    /\ \A x \in Entries : entry[x].files[p] = 0 /\ p \notin entry[x].index
    /\ merging # None => p \notin merging.rec.index
    /\ Tick
    /\ Put(e, Pushed(entry[e]))
    /\ job' = [job EXCEPT ![p] = [pc |-> "create", in |-> e, index |-> entry[e].index]]
    /\ UNCHANGED <<dropped, raced, merging>>

\* The record is attached and its id added to the index as it is now.
IndexedStale(p) == job[p].index \cup {p}
Indexed(p) == entry[job[p].in].index \cup {p}

AttachPasskey(p) ==
    /\ job[p].pc = "create"
    /\ Put(job[p].in, [entry[job[p].in] EXCEPT !.files[p] = 1, !.index = Indexed(p)])
    /\ job' = [job EXCEPT ![p] = NoJob]
    /\ UNCHANGED <<dropped, steps, raced, merging>>

\* signPasskeyAssertion: the attachment if there is one, else KeePassXC's fields.
Held(e, p) == (p \in Passkeys /\ entry[e].files[p] # 0) \/ (entry[e].xc # None /\ entry[e].xc.key = p)
StartSigning(p, e) ==
    /\ e \in Live /\ Held(e, p)
    /\ job[p] = NoJob
    /\ job' = [job EXCEPT ![p] = [pc |-> "sign", in |-> e, index |-> {}]]
    /\ UNCHANGED <<entry, dropped, steps, raced, merging>>

\* It is written back with its new counter, whatever became of it, and nothing is pushed
\* to the history.
WriteCounter(p) ==
    /\ job[p].pc = "sign"
    /\ Tick
    /\ Put(job[p].in, IF p \in Passkeys THEN [entry[job[p].in] EXCEPT !.files[p] = 1]
                      ELSE [entry[job[p].in] EXCEPT !.xc = StoredByXc(p, Now)])
    /\ job' = [job EXCEPT ![p] = NoJob]
    /\ UNCHANGED <<dropped, raced, merging>>

RemovePasskey(e, p) ==
    /\ e \in Live /\ Held(e, p)
    /\ Tick
    /\ Put(e, IF p \in Passkeys
              THEN [Pushed(entry[e]) EXCEPT !.files[p] = 0, !.index = @ \ {p}]
              ELSE [Pushed(entry[e]) EXCEPT !.xc = None])
    /\ raced' = IF job[p] = NoJob THEN raced ELSE raced \cup {p}
    /\ UNCHANGED <<dropped, job, merging>>

----------------------------------------------------------------------------
(* mergeRecordIntoEntry: what an entry of the second vault has is merged   *)
(* into ours.  Nothing is pushed to the history.                           *)

\* mergeStringField and mergedField, for one-time codes of both kinds: what is empty is
\* filled in, and what is not is replaced if the user said keep-b.
IsEmpty(x, f) ==
    IF f = "otp" THEN x.fields["otp"] = None /\ x.fields["TOTP Seed"] = None
    ELSE x.fields[f] \in {None, Empty}
MergedFields(x, S, m) == Applied(x, {f \in S \cap m.rec.fields : m.keepB \/ IsEmpty(x, f)}, m.at)

\* copyAttachments: the attachments that are still to be copied, as the entry is now.
ToCopy(x, m) == {i \in DOMAIN m.rec.files : i > m.copied /\ (m.keepB \/ x.files[m.rec.files[i]] = 0)}

\* After the last one: the index, KeePassXC's fields and the custom fields.
WithRest(x, m) ==
    [MergedFields(x, Custom, m) EXCEPT
        !.index = @ \cup m.rec.index,
        !.xc = IF m.rec.xc # None /\ (@ = None \/ m.keepB) THEN StoredByXc(m.rec.xc, m.at) ELSE @]

\* Up to the next attachment's createBinary, or to the end.
Continue(x, m) ==
    IF ToCopy(x, m) = {} THEN Put(m.in, WithRest(x, m)) /\ merging' = None
    ELSE /\ Put(m.in, x)
         /\ merging' = [m EXCEPT !.copied = CHOOSE i \in ToCopy(x, m) : \A j \in ToCopy(x, m) : i <= j]

\* The record is of an entry in a file, so no passkey in it is being made now.
BeginMerge(e, r, b) ==
    LET m == [in |-> e, rec |-> r, keepB |-> b, copied |-> 0, at |-> Now]
    IN  /\ e \in Live /\ merging = None
        /\ \A p \in r.index : job[p].pc # "create"
        /\ Tick
        /\ Continue(MergedFields(entry[e], Logins \cup {"otp"}, m), m)
        /\ UNCHANGED <<dropped, job, raced>>

\* The binary of the attachment that was waited for is there.
StoreAttachment ==
    /\ merging # None
    /\ Continue([entry[merging.in] EXCEPT !.files[merging.rec.files[merging.copied]] = 1], merging)
    /\ UNCHANGED <<dropped, job, steps, raced>>

Next ==
    \/ \E e \in Entries :
        \/ \E r \in Incoming, b \in BOOLEAN : BeginMerge(e, r, b)
        \/ \E S \in SUBSET Logins : UpdateEntry(e, S)
        \/ SetTotp(e) \/ RemoveTotp(e) \/ ClearClone(e) \/ RefuseClone(e) \/ Drop(e)
        \/ \E f \in Custom :
            \/ SetCustomField(e, f) \/ RemoveCustomField(e, f)
            \/ \E g \in Custom : RenameCustomField(e, f, g)
        \/ \E s \in Entries : SetClone(e, s)
        \/ AddAttachment(e)
        \/ \E n \in Files : RemoveAttachment(e, n)
        \/ \E p \in Passkeys \cup Foreign :
            StartPasskey(p, e) \/ StartSigning(p, e) \/ RemovePasskey(e, p)
    \/ \E p \in Passkeys \cup Foreign : AttachPasskey(p) \/ WriteCounter(p)
    \/ StoreAttachment

Spec == Init /\ [][Next]_vars

----------------------------------------------------------------------------
(* Properties.                                                             *)

Value(v) == v = None \/ (v.text \in 0..MaxSteps /\ v.ref \in Entries \cup {None})
TypeOK ==
    /\ \A e \in Entries :
        /\ \A f \in Fields : Value(entry[e].fields[f])
        /\ entry[e].files \in [Files -> {0, 1}]
        /\ entry[e].index \subseteq Passkeys
        /\ entry[e].xc = None \/ (entry[e].xc.key \in Foreign /\ entry[e].xc.at \in 0..MaxSteps)
        /\ Len(entry[e].hist) <= MaxSteps
    /\ dropped \subseteq Entries /\ steps \in 0..MaxSteps
    /\ raced \subseteq Passkeys \cup Foreign
    /\ merging # None => /\ merging.rec \in Incoming /\ merging.copied \in DOMAIN merging.rec.files
                         /\ merging.at \in 0..MaxSteps

\* An operation that replaces or removes the value of a field, or the passkey in
\* KeePassXC's fields, leaves the old one in the entry's history.  Two do not: a merge
\* that the user answered with keep-b, and a sign-in, which writes the passkey back; a
\* merge with keep-a replaces nothing but what is empty.
OldValues(x) == {<<f, x.hist[i].fields[f]>> : f \in Fields, i \in DOMAIN x.hist}
OldPasskeys(x) == {x.hist[i].xc : i \in DOMAIN x.hist}
TakesOver(e) ==
    \/ \E r \in Incoming : BeginMerge(e, r, TRUE)
    \/ StoreAttachment /\ merging.in = e /\ merging.keepB
SignsIn(e) == \E p \in Foreign : WriteCounter(p) /\ job[p].in = e
EditStep ==
    \A e \in Entries :
        \/ /\ \A f \in Fields :
                entry'[e].fields[f] # entry[e].fields[f] =>
                    IsEmpty(entry[e], f) \/ <<f, entry[e].fields[f]>> \in OldValues(entry'[e])
           /\ entry'[e].xc # entry[e].xc =>
                    entry[e].xc = None \/ entry[e].xc \in OldPasskeys(entry'[e]) \/ SignsIn(e)
        \/ TakesOver(e)
FieldsInHistory == [][EditStep]_vars

\* The key of a passkey is only in an entry that lists it, so that it can be found,
\* used and removed, whatever passkeys are made side by side; unless it was removed while
\* it was being used (signPasskeyAssertion then writes it back).  A merge lists those it
\* copies at its end.
PasskeysListed ==
    \A e \in Entries : \A p \in Passkeys \ raced :
        entry[e].files[p] # 0 =>
            p \in entry[e].index \/ (merging # None /\ merging.in = e /\ p \in merging.rec.index)

\* A clone shows the login of the entry it refers to, through as many references as
\* MaxDepth, and follows every later change of it.
Leads(e, f, path) ==
    /\ path[1] = e
    /\ \A i \in 1..Len(path) - 1 : entry[path[i]].fields[f].ref = path[i + 1] /\ path[i + 1] \in Live
Chains == UNION {[1..n -> Entries] : n \in 1..MaxDepth + 1}
ClonesFollow ==
    \A path \in Chains : \A f \in Logins :
        LET end == entry[path[Len(path)]].fields[f]
        IN  Leads(path[1], f, path) /\ (end.ref = None \/ Len(path) = MaxDepth + 1)
            => Resolved(path[1], f) = end
=============================================================================

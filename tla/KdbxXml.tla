-------------------------------- MODULE KdbxXml --------------------------------
(***************************************************************************)
(* The XML of a KDBX4 database: how each object is written and read back.  *)
(*                                                                         *)
(* Source: kdbx-meta.ts, kdbx-entry.ts, kdbx-group.ts, kdbx-times.ts,      *)
(* kdbx-custom-data.ts, kdbx-deleted-object.ts and kdbx.ts of              *)
(* packages/core, with utils/xml-utils.ts.  One object of each class       *)
(* stands for all.  A value is a string: None is undefined, "empty" has no *)
(* characters, "t~" is a text with a control character (a tab), "d.5" a    *)
(* time that is not a whole second, "a;b" a tag with a separator in it and *)
(* "a, b" two tags.  The strings of an entry are in ProtectedText,         *)
(* attachments in KdbxSave.                                                *)
(***************************************************************************)
EXTENDS Naturals

CONSTANTS
    Minors,         \* minor versions of the format: 0, 1
    MaxChanges,     \* bound: changes of the database
    None

Values ==
    [text |-> {None, "empty", "t", "t~"}, number |-> {None, "0", "5"}, zeroed |-> {None, "0", "5"},
     flag |-> {None, "null", "True", "False"}, plainFlag |-> {None, "True", "False"},
     yes |-> {"True", "False"}, date |-> {None, "d", "d.5"}, uuid |-> {None, "zero", "u"},
     own |-> {"zero", "u"}, bytes |-> {None, "empty", "b"},
     tags |-> {"empty", "a", "a, b", "a;b"}]

\* What each class writes, by the name of the element, and how it reads it.
Times == [creationTime |-> "date", lastModTime |-> "date", lastAccessTime |-> "date",
          expiryTime |-> "date", expires |-> "flag", usageCount |-> "number", locationChanged |-> "date"]
AutoType == [enabled |-> "yes", obfuscation |-> "zeroed", defaultSequence |-> "text"]
AutoTypeItem == [window |-> "text", keystrokeSequence |-> "text"]
Entry == [uuid |-> "own", icon |-> "zeroed", customIcon |-> "uuid", fgColor |-> "text",
          bgColor |-> "text", overrideUrl |-> "text", tags |-> "tags", qualityCheck |-> "plainFlag",
          previousParentGroup |-> "uuid"]
Group == [uuid |-> "own", name |-> "text", notes |-> "text", icon |-> "number", tags |-> "tags",
          customIcon |-> "uuid", previousParentGroup |-> "uuid", expanded |-> "plainFlag",
          defaultAutoTypeSeq |-> "text", enableAutoType |-> "flag", enableSearching |-> "flag",
          lastTopVisibleEntry |-> "uuid"]
Meta == [settingsChanged |-> "date", name |-> "text", nameChanged |-> "date", desc |-> "text",
         descChanged |-> "date", defaultUser |-> "text", defaultUserChanged |-> "date",
         mntncHistoryDays |-> "number", color |-> "text", keyChanged |-> "date",
         keyChangeRec |-> "number", keyChangeForce |-> "number", recycleBinEnabled |-> "plainFlag",
         recycleBinUuid |-> "uuid", recycleBinChanged |-> "date", entryTemplatesGroup |-> "uuid",
         entryTemplatesGroupChanged |-> "date", historyMaxItems |-> "number",
         historyMaxSize |-> "number", lastSelectedGroup |-> "uuid", lastTopVisibleGroup |-> "uuid"]
MemoryProtection == [title |-> "plainFlag", userName |-> "plainFlag", password |-> "plainFlag",
                     url |-> "plainFlag", notes |-> "plainFlag"]
CustomIcon == [uuid |-> "own", data |-> "bytes", name |-> "text", lastModified |-> "date"]
CustomDataItem == [key |-> "text", value |-> "text", lastModified |-> "date"]
DeletedObject == [uuid |-> "uuid", deletionTime |-> "date"]

Classes == [times |-> Times, autoType |-> AutoType, autoTypeItem |-> AutoTypeItem, entry |-> Entry,
            group |-> Group, meta |-> Meta, memoryProtection |-> MemoryProtection,
            customIcon |-> CustomIcon, customDataItem |-> CustomDataItem, deletedObject |-> DeletedObject]

VARIABLES
    minor,          \* header.versionMinor
    db,             \* an object of each class, or None when it is gone
    file,           \* the XML that was written, or None
    was,            \* history: the database then
    changes

vars == <<minor, db, file, was, changes>>

----------------------------------------------------------------------------
(* xml-utils.ts: one value and its element.                                *)

Stripped(t) == IF t = "t~" THEN "t" ELSE t      \* parse drops control characters
Split(tags) == IF tags = "a;b" THEN "a, b" ELSE tags

ToXml(kind, v) ==
    IF v = None THEN "empty"
    ELSE IF kind = "date" /\ v = "d.5" THEN "d"
    ELSE v

FromXml(kind, t) ==
    IF kind = "tags" THEN Split(t)
    ELSE IF kind = "text" THEN Stripped(t)
    ELSE IF kind = "zeroed" THEN (IF t = "empty" THEN "0" ELSE t)
    ELSE IF kind = "yes" THEN (IF t \in {"empty", "null"} THEN "True" ELSE t)
    ELSE IF kind = "plainFlag" THEN (IF t \in {"empty", "null"} THEN None ELSE t)
    ELSE IF kind = "own" THEN (IF t \in {"empty", "zero"} THEN "random" ELSE t)
    ELSE IF t = "empty" THEN None
    ELSE t

\* The value of a field whose element is missing.
Missing(kind) ==
    IF kind = "tags" THEN "empty" ELSE IF kind = "zeroed" THEN "0" ELSE IF kind = "yes" THEN "True" ELSE None

----------------------------------------------------------------------------
(* write and read of each class.                                           *)

\* Elements that are written only when there is something to write, and those that
\* the older version of the format does not have.
Optional == {<<"entry", "customIcon">>, <<"entry", "qualityCheck">>, <<"entry", "previousParentGroup">>,
             <<"group", "tags">>, <<"group", "customIcon">>, <<"group", "previousParentGroup">>,
             <<"autoType", "defaultSequence">>, <<"meta", "settingsChanged">>,
             <<"customIcon", "name">>, <<"customIcon", "lastModified">>,
             <<"customDataItem", "lastModified">>}
Newer == {<<"entry", "qualityCheck">>, <<"entry", "previousParentGroup">>, <<"group", "tags">>,
          <<"group", "previousParentGroup">>, <<"customIcon", "name">>,
          <<"customIcon", "lastModified">>, <<"customDataItem", "lastModified">>}

Nothing(v) == v \in {None, "empty"}
\* If an optional flag that is False counted as nothing to write.
WrittenIfTruthy(c, f, v, n) ==
    /\ <<c, f>> \in Optional => ~Nothing(v) /\ v # "False"
    /\ <<c, f>> \in Newer => n >= 1
Written(c, f, v, n) ==
    /\ <<c, f>> \in Optional => ~Nothing(v)
    /\ <<c, f>> \in Newer => n >= 1

\* Icons without data and custom data without a value are not written at all.
WrittenAtAll(c, x) ==
    /\ c = "customIcon" => x.data # None
    /\ c = "customDataItem" => ~Nothing(x.value)

Write(c, x, n) ==
    IF x = None \/ ~WrittenAtAll(c, x) THEN None
    ELSE [f \in {g \in DOMAIN Classes[c] : Written(c, g, x[g], n)} |-> ToXml(Classes[c][f], x[f])]

\* Items that are not complete are skipped.
Complete(c, x) ==
    /\ c = "autoTypeItem" => ~Nothing(x.window) /\ ~Nothing(x.keystrokeSequence)
    /\ c = "customIcon" => ~Nothing(x.data)
    /\ c = "customDataItem" => ~Nothing(x.key)

Read(c, node) ==
    IF node = None THEN None
    ELSE LET x == [f \in DOMAIN Classes[c] |->
                    IF f \in DOMAIN node THEN FromXml(Classes[c][f], node[f])
                    ELSE Missing(Classes[c][f])]
         IN  IF Complete(c, x) THEN x ELSE None

\* buildXml and loadFromXml.
WriteAll(objects, n) == [c \in DOMAIN Classes |-> Write(c, objects[c], n)]
ReadAll(nodes) == [c \in DOMAIN Classes |-> Read(c, nodes[c])]

----------------------------------------------------------------------------
(* The operations.                                                         *)

\* Kdbx.create with its group, its recycle bin and an entry.
NewValue(c, kind) ==
    IF kind = "own" THEN "u"
    ELSE IF kind = "tags" THEN "empty"
    ELSE IF kind = "zeroed" THEN "0"
    ELSE IF kind = "yes" THEN "True"
    ELSE IF kind = "date" THEN "d.5"
    ELSE IF c \notin {"customIcon", "customDataItem", "autoTypeItem"} THEN None
    ELSE IF kind = "bytes" THEN "b" ELSE "t"
NewDatabase == [c \in DOMAIN Classes |-> [f \in DOMAIN Classes[c] |-> NewValue(c, Classes[c][f])]]

Init ==
    /\ minor \in Minors
    /\ db = NewDatabase
    /\ file = None
    /\ was = None
    /\ changes = 0

\* An object gets any value its class can hold.
Change(c, f, v) ==
    /\ db[c] # None /\ file = None
    /\ changes < MaxChanges
    /\ changes' = changes + 1
    /\ db' = [db EXCEPT ![c][f] = v]
    /\ UNCHANGED <<minor, file, was>>

\* save and saveXml write the same elements.
Save ==
    /\ file = None
    /\ file' = WriteAll(db, minor)
    /\ was' = db
    /\ UNCHANGED <<minor, db, changes>>

Load ==
    /\ file # None
    /\ db' = ReadAll(file)
    /\ file' = None
    /\ was' = None
    /\ UNCHANGED <<minor, changes>>

\* loadXml makes a new header, of the default version 4.0, whatever the XML was written by.
LoadXml ==
    /\ file # None
    /\ db' = ReadAll(file)
    /\ minor' = 0
    /\ file' = None
    /\ was' = None
    /\ UNCHANGED changes

Next ==
    \/ \E c \in DOMAIN Classes : \E f \in DOMAIN Classes[c] :
            \E v \in Values[Classes[c][f]] : Change(c, f, v)
    \/ Save \/ Load \/ LoadXml

Spec == Init /\ [][Next]_vars

----------------------------------------------------------------------------
(* Properties.                                                             *)

TypeOK ==
    /\ minor \in Minors \cup {0} /\ changes \in 0..MaxChanges
    /\ \A c \in DOMAIN Classes : db[c] = None \/ DOMAIN db[c] = DOMAIN Classes[c]

\* What may differ: an empty text for an undefined one, control characters, fractions
\* of a second, a flag that is not set, tags with a separator, the identity of an
\* object that had none, and what the version of the format has no element for.
Same(c, f, v, w) ==
    \/ v = w
    \/ v = None /\ w \in {"empty", "0", "True"}
    \/ v = "t~" /\ w = "t"
    \/ v = "d.5" /\ w = "d"
    \/ v = "a;b" /\ w = "a, b"
    \/ v = "zero" /\ w = "random"
    \/ v = "empty" /\ w = None
    \/ <<c, f>> \in Newer /\ minor = 0 /\ w = Missing(Classes[c][f])

Dispensable(c, x) == c \in {"customIcon", "customDataItem", "autoTypeItem"} /\ \E f \in DOMAIN x : Nothing(x[f])

\* A database that is saved and opened again is the same but for these.
KeptBySave ==
    file # None =>
        LET opened == ReadAll(file)
        IN  \A c \in DOMAIN Classes :
                was[c] # None =>
                    IF opened[c] = None THEN Dispensable(c, was[c])
                    ELSE \A f \in DOMAIN Classes[c] : Same(c, f, was[c][f], opened[c][f])
=============================================================================

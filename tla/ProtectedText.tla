----------------------------- MODULE ProtectedText -----------------------------
(***************************************************************************)
(* The strings of an entry and its history: protected values are kept      *)
(* encrypted in memory, and encrypted again with a stream of salts when    *)
(* the database is written.                                                *)
(*                                                                         *)
(* Source: crypto/protected-value.ts, protect-salt-generator.ts, the       *)
(* strings of kdbx-entry.ts, utils/xml-utils.ts and kdbx-format.ts of      *)
(* packages/core.  A text is a string, "t~" one with a control character.  *)
(* A salt is named after its place in the stream; a text that is not empty *)
(* takes one place.                                                        *)
(***************************************************************************)
EXTENDS Naturals, Sequences, FiniteSets

CONSTANTS
    Strings,        \* an entry's string fields, numbers in the order they are written in
    MaxSteps,       \* bound: changes of the entry
    None

VARIABLES
    entries,        \* the fields of an entry's versions, the last is the entry itself
    heap,           \* the ProtectedValue objects by their name: [text, salt]
    file,           \* what was written: its kind and its elements, or None
    was,            \* history: the strings that were written
    steps

vars == <<entries, heap, file, was, steps>>

Stripped(t) == IF t = "t~" THEN "t" ELSE t      \* parse drops control characters

\* What a field holds: a plain text, or an object on the heap, which is named after
\* the step that set it or cloned it, or the place that it was read at.
Plain(t) == [text |-> t, obj |-> None]
Object(n) == [text |-> "", obj |-> n]

----------------------------------------------------------------------------
(* The elements of the strings, each at its place: a version of the entry  *)
(* and a field of it.                                                      *)

At(p) == entries[p[1]][p[2]]
Places == {p \in (DOMAIN entries) \X Strings : At(p) # None}
Element(text, salt, protected) == [text |-> text, salt |-> salt, protected |-> protected]

\* The order of the document: an entry comes before its history.
Rank(i) == IF i = Len(entries) THEN 0 ELSE i
Before(q, p) == Rank(q[1]) < Rank(p[1]) \/ (q[1] = p[1] /\ q[2] < p[2])

\* The stream of salts is read in that order: what it gives at a place when the
\* elements at these places take of it.
SaltAt(p, takers) == 1 + Cardinality({q \in takers : Before(q, p)})

\* updateProtectedValuesSalt: each value is encrypted again with the next salt, and its
\* element gets the result.
Takers == {p \in Places : At(p).obj # None /\ heap[At(p).obj].text # ""}
Texts == [p \in Places |-> IF At(p).obj = None THEN Element(At(p).text, 0, FALSE)
                           ELSE Element(heap[At(p).obj].text, SaltAt(p, Takers), TRUE)]
Holder(n) == CHOOSE p \in Places : At(p).obj = n
Salted ==
    [n \in DOMAIN heap |->
        IF \E p \in Places : At(p).obj = n THEN [heap[n] EXCEPT !.salt = SaltAt(Holder(n), Takers)]
        ELSE heap[n]]

\* setProtectedValues: an empty element takes no salt and holds no protected value.
Taking(e) == e.protected /\ e.text # ""
Decrypted(texts) ==
    LET takers == {p \in DOMAIN texts : Taking(texts[p])}
    IN  [p \in DOMAIN texts |->
            LET e == texts[p]
            IN  IF ~Taking(e) THEN Element(Stripped(e.text), 0, FALSE)
                ELSE Element(IF e.salt = SaltAt(p, takers) THEN e.text ELSE "garbage", e.salt, TRUE)]

\* unprotectValues: the plain text, and that it was protected.
Unprotected ==
    [p \in Places |-> IF At(p).obj = None THEN Element(At(p).text, 0, FALSE)
                      ELSE Element(heap[At(p).obj].text, 0, TRUE)]

\* protectPlainValues, after parse.
Protected(texts) == [p \in DOMAIN texts |-> Element(Stripped(texts[p].text), texts[p].salt, texts[p].protected)]

----------------------------------------------------------------------------
(* The operations.                                                         *)

Init ==
    /\ entries = <<[k \in Strings |-> Plain("")]>>
    /\ heap = <<>>
    /\ file = None
    /\ was = None
    /\ steps = 0

Step == file = None /\ steps < MaxSteps /\ steps' = steps + 1
Tip == Len(entries)

SetField(k, t, protected) ==
    /\ Step
    /\ heap' = IF protected THEN [n \in DOMAIN heap \cup {<<steps>>} |->
                                    IF n = <<steps>> THEN [text |-> t, salt |-> 0] ELSE heap[n]]
                            ELSE heap
    /\ entries' = [entries EXCEPT ![Tip][k] = IF protected THEN Object(<<steps>>) ELSE Plain(t)]
    /\ UNCHANGED <<file, was>>

RemoveField(k) ==
    /\ Step
    /\ entries' = [entries EXCEPT ![Tip][k] = None]
    /\ UNCHANGED <<heap, file, was>>

\* copyFrom: the version in the history gets clones of the protected values.
PushHistory ==
    LET protected == {k \in Strings : entries[Tip][k] # None /\ entries[Tip][k].obj # None}
        Clone(k) == <<steps, k, "clone">>
    IN  /\ Step
        /\ heap' = [n \in DOMAIN heap \cup {Clone(k) : k \in protected} |->
                        IF n \in DOMAIN heap THEN heap[n] ELSE heap[entries[Tip][n[2]].obj]]
        /\ entries' = Append([entries EXCEPT ![Tip] = [k \in Strings |->
                                    IF k \in protected THEN Object(Clone(k)) ELSE entries[Tip][k]]],
                             entries[Tip])
        /\ UNCHANGED <<file, was>>

\* getText of each string, and whether it is protected.
Reading ==
    [p \in Places |-> IF At(p).obj = None THEN [text |-> At(p).text, protected |-> FALSE]
                      ELSE [text |-> heap[At(p).obj].text, protected |-> TRUE]]

Save ==
    /\ file = None
    /\ heap' = Salted
    /\ file' = [xml |-> FALSE, texts |-> Texts]
    /\ was' = Reading
    /\ UNCHANGED <<entries, steps>>

SaveXml ==
    /\ file = None
    /\ file' = [xml |-> TRUE, texts |-> Unprotected]
    /\ was' = Reading
    /\ UNCHANGED <<entries, heap, steps>>

\* The database stays open after it was written.
Continue ==
    /\ file # None
    /\ file' = None /\ was' = None
    /\ UNCHANGED <<entries, heap, steps>>

\* What is opened: every element has a value of its own now.
Opened == IF file.xml THEN Protected(file.texts) ELSE Decrypted(file.texts)
Load ==
    LET Held(p) == IF p \notin DOMAIN Opened THEN None
                   ELSE IF Opened[p].protected THEN Object(p) ELSE Plain(Opened[p].text)
    IN  /\ file # None
        /\ heap' = [p \in {q \in DOMAIN Opened : Opened[q].protected} |->
                        [text |-> Opened[p].text, salt |-> Opened[p].salt]]
        /\ entries' = [i \in DOMAIN entries |-> [k \in Strings |-> Held(<<i, k>>)]]
        /\ file' = None /\ was' = None
        /\ UNCHANGED steps

Next ==
    \/ \E k \in Strings : RemoveField(k) \/ \E t \in {"", "t", "t~"}, b \in BOOLEAN : SetField(k, t, b)
    \/ PushHistory \/ Save \/ SaveXml \/ Continue \/ Load

Spec == Init /\ [][Next]_vars

----------------------------------------------------------------------------
(* Properties.                                                             *)

\* The types; and no value is held at two places, for copyFrom clones the values of the
\* entry that it puts in the history.
TypeOK ==
    /\ \A i \in DOMAIN entries : \A k \in Strings :
            entries[i][k] = None \/ entries[i][k].obj \in {None} \cup DOMAIN heap
    /\ \A p, q \in Places : At(p).obj # None /\ At(p).obj = At(q).obj => p = q
    /\ steps \in 0..MaxSteps

\* Whatever becomes of an entry and its history, each field of each version is read from
\* the file as it was: a protected one exactly, with its protection if it is not empty,
\* a plain one without control characters; an exported XML strips both.
StringsKept ==
    file # None =>
        /\ DOMAIN Opened = DOMAIN was
        /\ \A p \in DOMAIN was :
                LET e == Opened[p]
                    exact == was[p].protected /\ ~file.xml
                IN  /\ e.text = IF exact THEN was[p].text ELSE Stripped(was[p].text)
                    /\ e.protected = (was[p].protected /\ (file.xml \/ e.text # ""))
=============================================================================

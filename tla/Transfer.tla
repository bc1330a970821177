-------------------------------- MODULE Transfer --------------------------------
(***************************************************************************)
(* Entries that are exported, and entries imported from a file: CSV of     *)
(* this and of other programs, Bitwarden, 1Password and Proton Pass.       *)
(*                                                                         *)
(* Source: import/csv.ts, bitwarden.ts, onepassword.ts and protonpass.ts   *)
(* of packages/core; importEntries, exportVault, kdbxToRecords and         *)
(* resolveGroupPath of background/vault-session.ts.  A text is a sequence  *)
(* of characters: "q" is a quote, "n" and "r" end a line, any other but    *)
(* the comma, the slash and the space stands for itself.                   *)
(***************************************************************************)
EXTENDS Naturals, Sequences, SequencesExt

CONSTANTS
    Sources,        \* what is exported or imported, see Records
    Before,         \* the groups that are there before: [parent, name, bin], the first is the root
    Target,         \* the group to import into
    None

VARIABLES
    source,         \* one of Sources
    text,           \* the CSV, or None
    groups,         \* the groups of the vault that imports
    entries         \* the entries in it, in the order they were made

vars == <<source, text, groups, entries>>

----------------------------------------------------------------------------
(* Texts.                                                                  *)

Blank == {" ", "n", "r"}
Trim(t) ==
    LET kept == {i \in DOMAIN t : t[i] \notin Blank}
        first == CHOOSE i \in kept : \A j \in kept : i <= j
        last == CHOOSE i \in kept : \A j \in kept : i >= j
    IN  IF kept = {} THEN <<>> ELSE SubSeq(t, first, last)
Join(texts, between) ==
    FoldLeft(LAMBDA whole, t : IF whole = None THEN t ELSE whole \o between \o t, None, texts)
SplitAt(t, c) ==
    FoldLeft(LAMBDA s, x : IF x = c THEN Append(s, <<>>) ELSE [s EXCEPT ![Len(s)] = Append(@, x)], <<<<>>>>, t)

PartsOf(t, c) ==
    LET parts == SplitAt(t, c)
    IN  SelectSeq([i \in DOMAIN parts |-> Trim(parts[i])], LAMBDA s : s # <<>>)

----------------------------------------------------------------------------
(* csv.ts.                                                                 *)

Columns == <<"group", "title", "username", "password", "url", "notes", "totp">>
Headers == <<<<"Group">>, <<"Title">>, <<"Username">>, <<"Password">>, <<"URL">>, <<"Notes">>, <<"TOTP">>>>
Synonyms ==
    [group |-> {"Group", "folder"}, title |-> {"Title", "name", "account"}, username |-> {"Username", "login", "email"},
     password |-> {"Password", "pass"}, url |-> {"URL", "website"}, notes |-> {"Notes", "comment"},
     totp |-> {"TOTP", "otpauth"}, tags |-> {"tags", "keywords"}]
MatchColumn(header) ==
    LET fits == {c \in DOMAIN Synonyms : \E s \in Synonyms[c] : Trim(header) = <<s>>}
    IN  IF fits = {} THEN None ELSE CHOOSE c \in fits : TRUE

EscapeCommas(t) ==
    IF \E i \in DOMAIN t : t[i] \in {",", "n", "r"} THEN <<"q">> \o t \o <<"q">> ELSE t
Escape(t) ==
    IF \E i \in DOMAIN t : t[i] \in {",", "q", "n", "r"}
    THEN <<"q">> \o FlattenSeq([i \in DOMAIN t |-> IF t[i] = "q" THEN <<"q", "q">> ELSE <<t[i]>>]) \o <<"q">>
    ELSE t

Or(v, w) == IF v = None THEN w ELSE v
Row(record) == Join([i \in DOMAIN Columns |-> Escape(Or(record[Columns[i]], <<>>))], <<",">>)
ExportToCsv(records) ==
    Join(<<Join(Headers, <<",">>)>> \o [i \in DOMAIN records |-> Row(records[i])], <<"r", "n">>)

\* parseRows, one character after the other; a quote is doubled in a quoted field.
EndField(s) == [s EXCEPT !.row = Append(@, s.field), !.field = <<>>]
EndRow(s) == LET e == EndField(s) IN [e EXCEPT !.rows = Append(@, e.row), !.row = <<>>]
Tokenize(t) ==
    LET Char(s, i) ==
            LET c == t[i]
                more == [s EXCEPT !.field = Append(@, c)]
            IN  IF s.skip THEN [s EXCEPT !.skip = FALSE]
                ELSE IF s.quoted
                THEN IF c # "q" THEN more
                     ELSE IF i < Len(t) /\ t[i + 1] = "q" THEN [more EXCEPT !.skip = TRUE]
                     ELSE [s EXCEPT !.quoted = FALSE]
                ELSE CASE c = "q" -> [s EXCEPT !.quoted = TRUE]
                       [] c = "," -> EndField(s)
                       [] c = "r" -> s
                       [] c = "n" -> EndRow(s)
                       [] OTHER -> more
        all == FoldLeft(Char, [rows |-> <<>>, row |-> <<>>, field |-> <<>>, quoted |-> FALSE, skip |-> FALSE],
                        [i \in DOMAIN t |-> i])
        ended == IF all.field # <<>> \/ all.row # <<>> THEN EndRow(all) ELSE all
    IN  SelectSeq(ended.rows, LAMBDA r : \E i \in DOMAIN r : Trim(r[i]) # <<>>)

Empty == [title |-> <<>>, username |-> <<>>, password |-> <<>>, url |-> <<>>, notes |-> <<>>,
          group |-> None, totp |-> None, tags |-> <<>>]
FromRow(columns, row) ==
    LET Cell(record, i) ==
            LET value == IF i \in DOMAIN row THEN Trim(row[i]) ELSE <<>>
            IN  IF columns[i] = None \/ value = <<>> THEN record
                ELSE IF columns[i] = "tags" THEN [record EXCEPT !.tags = PartsOf(value, ",")]
                ELSE [record EXCEPT ![columns[i]] = value]
    IN  FoldLeft(Cell, Empty, [i \in DOMAIN columns |-> i])
ParseCsv(t) ==
    LET rows == Tokenize(t)
        columns == [i \in DOMAIN rows[1] |-> MatchColumn(rows[1][i])]
    IN  IF rows = <<>> THEN <<>>
        ELSE IF Range(columns) \cap {"title", "username", "password"} = {} THEN None
        ELSE [i \in 1..(Len(rows) - 1) |-> FromRow(columns, rows[i + 1])]

----------------------------------------------------------------------------
(* The other programs.  What is missing in an item is None.                *)

Truthy(v) == v \notin {None, <<>>}
Bitwarden(item) ==
    LET login == item.login # None
        parts == (IF Truthy(item.notes) THEN <<item.notes>> ELSE <<>>) \o
                 SelectSeq(item.fields, LAMBDA f : f # <<>>)
    IN  [Empty EXCEPT !.title = Or(item.name, <<>>), !.group = item.folder, !.notes = Or(Join(parts, <<"n">>), <<>>),
            !.username = IF login THEN Or(item.login.username, <<>>) ELSE <<>>,
            !.password = IF login THEN Or(item.login.password, <<>>) ELSE <<>>,
            !.url = IF login THEN Or(item.login.url, <<>>) ELSE <<>>,
            !.totp = IF login /\ Truthy(item.login.totp) THEN item.login.totp ELSE None]
OnePux(item) ==
    LET login == item.login # None
    IN  [Empty EXCEPT !.title = Or(item.name, <<>>), !.group = item.folder, !.notes = Or(item.notes, <<>>),
            !.username = IF login THEN Or(item.login.username, <<>>) ELSE <<>>,
            !.password = IF login THEN Or(item.login.password, <<>>) ELSE <<>>,
            !.url = Or(item.url, <<>>), !.tags = item.tags]
ProtonPass(item) ==
    LET login == item.login # None
    IN  [Empty EXCEPT !.title = Or(item.name, <<>>), !.group = item.folder, !.notes = Or(item.notes, <<>>),
            !.username = IF login THEN Or(item.login.username, <<>>) ELSE <<>>,
            !.password = IF login THEN Or(item.login.password, <<>>) ELSE <<>>,
            !.url = IF login THEN Or(item.login.url, <<>>) ELSE <<>>,
            !.totp = IF login /\ Truthy(item.login.totp) THEN item.login.totp ELSE None]

Records ==
    CASE source.kind = "csv" -> ParseCsv(text)
      [] source.kind = "bitwarden" -> [i \in DOMAIN source.items |-> Bitwarden(source.items[i])]
      [] source.kind = "1pux" -> [i \in DOMAIN source.items |-> OnePux(source.items[i])]
      [] source.kind = "protonpass" -> [i \in DOMAIN source.items |-> ProtonPass(source.items[i])]

----------------------------------------------------------------------------
(* vault-session.ts.                                                       *)

\* resolveGroupPath: the first child of that name, or a new one.
Child(all, parent, name) ==
    LET found == {i \in DOMAIN all : all[i].parent = parent /\ all[i].name = name}
    IN  IF found = {} THEN 0 ELSE CHOOSE i \in found : \A j \in found : i <= j
Segments(path) == PartsOf(path, "/")
Resolved(all, path) ==
    LET Enter(s, name) ==
            LET child == Child(s.all, s.at, name)
            IN  IF child # 0 THEN [s EXCEPT !.at = child]
                ELSE [all |-> Append(s.all, [parent |-> s.at, name |-> name, bin |-> FALSE]), at |-> Len(s.all) + 1]
    IN  FoldLeft(Enter, [all |-> all, at |-> Target], Segments(path))
Imported(records) ==
    LET One(s, r) ==
            LET place == IF Truthy(r.group) THEN Resolved(s.groups, r.group)
                         ELSE [all |-> s.groups, at |-> Target]
            IN  [groups |-> place.all,
                 entries |-> Append(s.entries, [r EXCEPT !.group = place.at])]
    IN  FoldLeft(One, [groups |-> groups, entries |-> entries], records)

----------------------------------------------------------------------------
(* The operations.                                                         *)

Init ==
    /\ source \in Sources
    /\ text = None
    /\ groups = Before
    /\ entries = <<>>

\* exportVault: kdbxToRecords walks the groups but for the bin, and joins the names of the
\* groups on the way, which may have slashes of their own, to the group of a record.
Walked(items) ==
    LET kept == SelectSeq(items, LAMBDA r : ~r.binned)
    IN  [i \in DOMAIN kept |-> [c \in DOMAIN kept[i] \cup {"group"} |->
                                 IF c = "group" THEN Join(kept[i].path, <<"/">>) ELSE kept[i][c]]]
Export ==
    /\ source.kind = "csv" /\ text = None
    /\ text' = IF "text" \in DOMAIN source THEN source.text ELSE ExportToCsv(Walked(source.items))
    /\ UNCHANGED <<source, groups, entries>>

\* A file may be imported more than once.
ImportEntries ==
    /\ source.kind = "csv" => text # None
    /\ Records # None
    /\ Len(entries) < 4
    /\ groups' = Imported(Records).groups
    /\ entries' = Imported(Records).entries
    /\ UNCHANGED <<source, text>>

Next == Export \/ ImportEntries

Spec == Init /\ [][Next]_vars

----------------------------------------------------------------------------
(* Properties.                                                             *)

TypeOK ==
    /\ source \in Sources
    /\ \A i \in DOMAIN entries : entries[i].group \in DOMAIN groups
    /\ \A i \in 2..Len(groups) : groups[i].parent \in 1..(i - 1)

\* The names from the target down to a group.
PathOf(g) ==
    FoldLeft(LAMBDA s, i : IF s.at = Target THEN s
                           ELSE [at |-> groups[s.at].parent, path |-> <<groups[s.at].name>> \o s.path],
             [at |-> g, path |-> <<>>], [i \in DOMAIN groups |-> i]).path

Value(r, c) == Trim(Or(r[c], <<>>))
Wanted(r) == \E c \in Range(Columns) : Value(r, c) # <<>>

\* The groups that the names of a path are imported as: a name without a slash or blanks
\* around it as itself, one with a slash as a group for each of its parts, and a blank
\* one as none.
Kept(name) == name # <<>> /\ Trim(name) = name /\ "/" \notin Range(name)
PathImported(path) ==
    IF \A i \in DOMAIN path : Kept(path[i]) THEN path
    ELSE FlattenSeq([i \in DOMAIN path |-> PartsOf(path[i], "/")])

\* What a vault exports and another one imports is the same but for the blanks around
\* a value: every entry with something in it, in its order, under the groups it was in
\* as far as a path tells them apart (PathImported); importing again adds entries but
\* no groups.
TransferKeepsEntries ==
    source.kind = "csv" /\ "items" \in DOMAIN source /\ entries # <<>> =>
        LET wanted == SelectSeq(Walked(source.items), Wanted)
        IN  \A i \in DOMAIN entries :
                LET r == wanted[1 + ((i - 1) % Len(wanted))]
                IN  /\ PathOf(entries[i].group) = PathImported(r.path)
                    /\ \A c \in Range(Columns) \ {"group"} : Or(entries[i][c], <<>>) = Value(r, c)
                    /\ \A g, h \in DOMAIN groups :
                            g # h /\ groups[g].parent = groups[h].parent => groups[g].name # groups[h].name
=============================================================================

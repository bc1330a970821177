------------------------------ MODULE MCFormats ------------------------------
(***************************************************************************)
(* KdbxSave and the modules of the formats that Keetar reads and writes,   *)
(* for TLC in one run.  Init chooses the module that runs, the subject;    *)
(* KdbxSave keeps variables of its own, and the other modules, of which    *)
(* one runs at most, share v1 to v7.                                       *)
(***************************************************************************)
EXTENDS KdbxSave, SequencesExt, TLC

CONSTANTS
    XmlMinors, MaxXmlChanges,                           \* of KdbxXml
    FieldNumbers, MaxFieldSteps,                        \* of ProtectedText
    Payloads, FileCredentials, FileHeaders, Draws,      \* of KdbxFile
    ByteValues, StreamStart, StreamNumbers, StreamTexts, MaxWrites, MaxHi,
    MaxPreIteration, MaxRounds, BlockCipher,            \* of Encodings
    ByteLengths, SignCounts, SignatureBytes, NumberBytes    \* of PasskeyRecords

VARIABLES subject, v1, v2, v3, v4, v5, v6, v7
shared == <<v1, v2, v3, v4, v5, v6, v7>>

----------------------------------------------------------------------------
(* The inputs of each module.                                              *)

\* KdbxFile: files of other programs in both versions, with public data, with a cipher
\* and a parameter that Keetar refuses; credentials in each form of a key file.
Kdf(u, rest) == <<[key |-> "$UUID", value |-> u], [key |-> "S", value |-> "s0"]>> \o rest
Item(k, v) == [key |-> k, value |-> v]
Header(minor, cipher, comp, kdf, public) ==
    [minor |-> minor, cipher |-> cipher, compression |-> comp, seed |-> "unset", iv |-> "unset",
     kdf |-> kdf, public |-> public]
SomeHeaders ==
    {Header(1, "ChaCha20", "None", Kdf("Aes", <<Item("R", "1")>>), <<Item("p", "1")>>),
     Header(1, "Twofish", "GZip", Kdf("Aes", <<Item("R", "1")>>), None),
     Header(0, "Aes", "None",
            Kdf("Argon2id", <<Item("P", "1"), Item("I", "1"), Item("M", "odd"), Item("V", "0x10")>>), None)}
SomeCredentials ==
    LET Of(password, keyFile) == [password |-> password, keyFile |-> keyFile]
    IN  {Of("p", None), Of("p", [form |-> "raw", key |-> "k"]), Of("p", [form |-> "xml2", key |-> "k"]),
         Of(None, [form |-> "other", key |-> "k"]), Of("p", [form |-> "wrong hash", key |-> "k"])}
SomePayloads == {<<"a", "b">>, <<"c", "d">>}
SomeDraws == <<"s1", "s2">>

\* Transfer: texts and groups with what CSV quotes and paths split at in their names, a
\* list of each importer's kind, CSV files with each kind of header.
Row(g, t, p, n, o) ==
    [title |-> t, username |-> <<>>, password |-> p, url |-> <<>>, notes |-> n, path |-> g, totp |-> o,
     tags |-> <<>>, binned |-> FALSE]
Short == BoundedSeq({"x", "q", ",", "n", "r", " "}, 2)
Paths ==
    {<<>>, <<<<"A">>>>, <<<<"A">>, <<"B">>>>, <<<<" ", "B">>>>, <<<<"A", "/", "B">>>>,
     <<<<>>, <<"B">>>>, <<<<"A", ",">>, <<"q", "/">>>>}
Full(n, l, f, no, fs, u, tg) ==
    [name |-> n, login |-> l, folder |-> f, notes |-> no, fields |-> fs, url |-> u, tags |-> tg]
Login(u, p, w, t) == [username |-> u, password |-> p, url |-> w, totp |-> t]
Listed ==
    <<Full(<<"t">>, Login(<<"u">>, <<"p">>, None, <<>>), <<"A">>, <<"m">>, <<<<"f">>, <<>>>>, None, <<>>),
      Full(None, None, None, None, <<>>, <<"w">>, <<<<"g">>>>)>>
TransferSources ==
    {[kind |-> "csv", items |-> <<Row(g, t, p, <<>>, None)>>] : g \in {<<>>, <<<<"A">>>>}, t \in Short, p \in BoundedSeq({"x", "q", ","}, 1)}
    \cup {[kind |-> "csv",
           items |-> <<Row(g, <<"x">>, <<>>, <<"x", "n", "x">>, None),
                       [Row(<<>>, <<"y">>, <<>>, <<>>, None) EXCEPT !.binned = b],
                       Row(h, <<"z">>, <<"q">>, <<>>, <<"o">>)>>]
          : g \in Paths, h \in Paths, b \in BOOLEAN}
    \cup {[kind |-> k, items |-> Listed] : k \in {"bitwarden", "1pux", "protonpass"}}
    \cup {[kind |-> "csv",
           text |-> <<h, ",", "pass", ",", "tags", "n", "q", "x", "q", "n", "y", ",", "p", ",",
                      "x", " ", "n", ",", ",", "n">>] : h \in {"name", "email", "else"}}
GroupsBefore ==
    <<[parent |-> 0, name |-> <<"root">>, bin |-> FALSE], [parent |-> 1, name |-> <<"A">>, bin |-> FALSE],
      [parent |-> 1, name |-> <<"bin">>, bin |-> TRUE]>>

\* PasswordHealth: passwords at an edit distance below, at and above the limit, and two
\* that refer to an entry.
Passwords == {"", "ab10", "ab7", "ba10", "ref3", "ref2"}
Letters ==
    [x \in Passwords |->
        CASE x = "" -> <<>>
          [] x = "ab10" -> <<"a", "a", "a", "a", "a", "b", "b", "b", "b", "b">>
          [] x = "ab7" -> <<"a", "a", "a", "a", "b", "b", "b">>
          [] x = "ba10" -> <<"b", "a", "a", "a", "a", "b", "b", "b", "a", "a">>
          [] x = "ref3" -> <<"a", "a">>
          [] x = "ref2" -> <<"a", "b">>]
Points == [x \in Passwords |-> CASE x = "ref3" -> 3 [] x = "ref2" -> 2 [] OTHER -> 0]
Start5 == [x \in Passwords |-> IF x = "ab7" THEN "x" ELSE "y"]

\* Generators: options with every kind of pool, secrets of every length to 8, the
\* parameters of an URI present, absent and out of range.
PasswordOptions ==
    [length : {0, 1, 3}, lower : BOOLEAN, upper : {FALSE}, digits : BOOLEAN, symbols : BOOLEAN,
     unambiguous : BOOLEAN, custom : {<<>>, <<" ">>, <<"!", "|", "!">>, <<"|">>, <<"0", "!">>}]
    \cup {[length |-> 4, lower |-> TRUE, upper |-> TRUE, digits |-> TRUE, symbols |-> TRUE,
           unambiguous |-> FALSE, custom |-> <<>>]}
PassphraseOptions == [count : {None, 0, 1, 3}, capital : {None, FALSE}, number : {None, TRUE}]
TotpSecrets ==
    UNION {[1..n -> {0, 1, 21, 31}] : n \in 0..4}
    \cup {<<31, 0, 21, 10, 9, 30, 1, 17>>, <<1, 2, 3, 4, 5, 6, 7>>, <<16, 0, 0, 0, 31>>}
TotpParams == [type : {"totp", "hotp"}, algorithm : {None, "SHA512", "MD5"}, digits : {None, 5, 8}, period : {None, 0, 7}]
TotpMacs == {[i \in 1..20 |-> (i * 13) % 256], [i \in 1..20 |-> IF i = 20 THEN 255 ELSE 250], [i \in 1..20 |-> 0]}

\* Encodings: numbers of each width, order and sign that stand at its ends; bytes of
\* four values.
Number(n, s, l, v) == [bytes |-> n, signed |-> s, little |-> l, value |-> v]
SomeNumbers ==
    {Number(1, FALSE, FALSE, 3), Number(1, TRUE, FALSE, -1), Number(2, FALSE, TRUE, 6),
     Number(2, TRUE, FALSE, -7), Number(2, TRUE, TRUE, 7), Number(4, FALSE, FALSE, 228),
     Number(4, TRUE, TRUE, -100), Number(8, FALSE, TRUE, 60001), Number(8, FALSE, FALSE, 300)}
SomeTexts == {<<>>, <<1>>, <<0, 1, 2, 3, 1>>}
SomeCipher == [b \in 0..3 |-> (3 * b + 1) % 4]

----------------------------------------------------------------------------
(* The modules.                                                            *)

Xml == INSTANCE KdbxXml
       WITH minor <- v1, db <- v2, file <- v3, was <- v4, changes <- v5,
            Minors <- XmlMinors, MaxChanges <- MaxXmlChanges
Text == INSTANCE ProtectedText
        WITH entries <- v1, heap <- v2, file <- v3, was <- v4, steps <- v5,
             Strings <- FieldNumbers, MaxSteps <- MaxFieldSteps
Format == INSTANCE KdbxFile
          WITH header <- v1, content <- v2, credentials <- v3, file <- v4, older <- v5, sealed <- v6,
               salts <- v7, Parts <- Payloads, Credentials <- FileCredentials,
               Foreign <- FileHeaders, Salts <- Draws
Passkey == INSTANCE PasskeyRecords
           WITH job <- v1, bytes <- v2, back <- v3, Lengths <- ByteLengths, Counts <- SignCounts,
                Digits <- SignatureBytes
Csv == INSTANCE Transfer
       WITH source <- v1, text <- v2, groups <- v3, entries <- v4,
            Sources <- TransferSources, Before <- GroupsBefore, Target <- 1
Health == INSTANCE PasswordHealth
          WITH field <- v1, binned <- v2, old <- v3, allowed <- v4, ranges <- v5, failures <- v6, job <- v7,
               Count <- 3, Texts <- Passwords, Weak <- {"ab7"}, Breached <- {"ab10"}, Prefix <- Start5,
               Jobs <- Saves, MaxFailures <- 1
Generator == INSTANCE Generators
             WITH kind <- v1, input <- v2, tries <- v3, result <- v4, Byte <- 4, Words <- 3,
                  Lowercase <- <<"a", "l">>, Uppercase <- <<"B">>, Digits <- <<"0", "2">>,
                  DefaultSymbols <- <<"!", "#">>, AmbiguousChars <- {"0", "l", "|"},
                  Options <- PasswordOptions, PhraseOptions <- PassphraseOptions, MaxAttempts <- 2,
                  Secrets <- TotpSecrets, Params <- TotpParams, Macs <- TotpMacs, MaxTime <- 31
Encoding == INSTANCE Encodings
            WITH stage <- v1, stream <- v2, todo <- v3, written <- v4, back <- v5, Byte <- ByteValues,
                 FirstCapacity <- StreamStart, Numbers <- StreamNumbers, Strings <- StreamTexts,
                 Cipher <- BlockCipher

Idle67 == v6 = None /\ v7 = None
FormatsInit ==
    /\ Init
    /\ \/ subject = "KdbxSave" /\ v1 = None /\ v2 = None /\ v3 = None /\ v4 = None /\ v5 = None /\ Idle67
       \/ subject = "KdbxXml" /\ Xml!Init /\ Idle67
       \/ subject = "ProtectedText" /\ Text!Init /\ Idle67
       \/ subject = "KdbxFile" /\ Format!Init
       \/ subject = "PasskeyRecords" /\ Passkey!Init /\ v4 = None /\ v5 = None /\ Idle67
       \/ subject = "Transfer" /\ Csv!Init /\ v5 = None /\ Idle67
       \/ subject = "PasswordHealth" /\ Health!Init
       \/ subject = "Generators" /\ Generator!Init /\ v5 = None /\ Idle67
       \/ subject = "Encodings" /\ Encoding!Init /\ Idle67

FormatsNext ==
    \/ subject = "KdbxSave" /\ Next /\ UNCHANGED <<subject, shared>>
    \/ subject = "KdbxXml" /\ Xml!Next /\ UNCHANGED <<subject, vars, v6, v7>>
    \/ subject = "ProtectedText" /\ Text!Next /\ UNCHANGED <<subject, vars, v6, v7>>
    \/ subject = "KdbxFile" /\ Format!Next /\ UNCHANGED <<subject, vars>>
    \/ subject = "PasskeyRecords" /\ Passkey!Next /\ UNCHANGED <<subject, vars, v4, v5, v6, v7>>
    \/ subject = "Transfer" /\ Csv!Next /\ UNCHANGED <<subject, vars, v5, v6, v7>>
    \/ subject = "PasswordHealth" /\ Health!Next /\ UNCHANGED <<subject, vars>>
    \/ subject = "Generators" /\ Generator!Next /\ UNCHANGED <<subject, vars, v5, v6, v7>>
    \/ subject = "Encodings" /\ Encoding!Next /\ UNCHANGED <<subject, vars, v6, v7>>

FormatsSpec == FormatsInit /\ [][FormatsNext]_<<subject, vars, shared>>

\* The two saves are the two calls of the health report as well.
Symmetric == Permutations(Saves) \cup Permutations(Binaries)

----------------------------------------------------------------------------
(* Properties: those of the modules, and of each module where it runs.     *)

\* The types of every module.
TypesOK ==
    /\ TypeOK
    /\ subject = "KdbxXml" => Xml!TypeOK
    /\ subject = "ProtectedText" => Text!TypeOK
    /\ subject = "KdbxFile" => Format!TypeOK
    /\ subject = "PasskeyRecords" => Passkey!TypeOK
    /\ subject = "Transfer" => Csv!TypeOK
    /\ subject = "PasswordHealth" => Health!TypeOK
    /\ subject = "Generators" => Generator!TypeOK
    /\ subject = "Encodings" => Encoding!TypeOK

\* What the elements of a database say (KdbxXml) and what the fields of an entry and its
\* history say, protected or not (ProtectedText), is what is read after a save.
FieldsKept ==
    /\ subject = "KdbxXml" => Xml!KeptBySave
    /\ subject = "ProtectedText" => Text!StringsKept

\* KdbxFile: a file opens with the credentials it was sealed with, in any form, with the
\* settings it had, and others are told of a wrong key.
OpensAsSealed == subject = "KdbxFile" => Format!OpensAsSealed
\* KdbxFile: whatever happens to a file, it opens as the whole of one save or not at all.
NeverOpensDamaged == subject = "KdbxFile" => Format!NeverOpensDamaged
\* PasskeyRecords: passkeys, credentials and signatures are read back as they were.
PasskeysReadBack == subject = "PasskeyRecords" => Passkey!PasskeysReadBack
\* Transfer: an exported vault is imported entry by entry, under the same groups unless
\* their names have slashes or blanks that a path loses.
TransferKeepsEntries == subject = "Transfer" => Csv!TransferKeepsEntries
\* PasswordHealth: the report names every entry with a problem and no other, and fails
\* only when a request failed while it was made.
HealthTrue == subject = "PasswordHealth" => Health!HealthTrue /\ Health!FailuresForgotten
\* Generators: every choice is equally likely, every class is there, and a one-time code
\* is the right one for as long as it says.
GeneratedRight == subject = "Generators" => Generator!GeneratedFair /\ Generator!CodesRight
\* Encodings: what a stream was given is read of it, texts give their bytes back, and a
\* key is enciphered in all its rounds.
BytesReadBack == subject = "Encodings" => Encoding!BytesReadBack /\ Encoding!KeyStretched
=============================================================================

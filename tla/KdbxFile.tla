-------------------------------- MODULE KdbxFile --------------------------------
(***************************************************************************)
(* The KDBX4 file: its header, the keys it is sealed with and its blocks;  *)
(* how it is written and what of a damaged or torn file can be opened.     *)
(*                                                                         *)
(* Source: kdbx-header.ts, kdbx-format.ts, kdbx-credentials.ts,            *)
(* utils/var-dictionary.ts, utils/binary-stream.ts, key-encryptor-kdf.ts   *)
(* and hmac-block-transform.ts of packages/core.  A file is a sequence of  *)
(* pieces, read one after the other.  Hashes are the terms they are taken  *)
(* of.  Saving is one step here, its interleavings are in KdbxSave.        *)
(***************************************************************************)
EXTENDS Naturals, Sequences, SequencesExt, FiniteSets

CONSTANTS
    Parts,          \* the payloads: each the sequence of its parts, one for a block
    Credentials,    \* [password, keyFile]: None, or [form, key]
    Foreign,        \* headers that other clients write
    Salts,          \* a sequence of names: the random values, and the bound of saves
    None

VARIABLES
    header,         \* KdbxHeader of the open database
    content,        \* its payload: inner header and XML
    credentials,
    file,           \* the pieces on disk
    older,          \* the pieces before the last save
    sealed,         \* history: what the last save wrote, and the one before it
    salts           \* how many random values were drawn

vars == <<header, content, credentials, file, older, sealed, salts>>

----------------------------------------------------------------------------
(* VarDictionary: items in a sequence, the last of a key is in the map.    *)

Item(k, v) == [key |-> k, value |-> v]
Places(d, k) == {i \in DOMAIN d : d[i].key = k}
Latest(d, k) == CHOOSE i \in Places(d, k) : \A j \in Places(d, k) : j <= i
Get(d, k) == IF Places(d, k) = {} THEN None ELSE d[Latest(d, k)].value
Set(d, k, v) ==
    IF Places(d, k) = {} THEN Append(d, Item(k, v)) ELSE [d EXCEPT ![Latest(d, k)] = Item(k, v)]

----------------------------------------------------------------------------
(* Credentials.                                                            *)

\* setKeyFile: three forms of a key give its bytes, any other file its hash; an XML
\* key file that is not right is refused.
KeyFileHash(f) ==
    CASE f.form \in {"raw", "hex", "xml1", "xml2"} -> f.key
      [] f.form \in {"no meta", "no version", "no data", "wrong hash", "version 3"} -> "refused"
      [] OTHER -> "sha256"
Accepted(c) == c.keyFile # None => KeyFileHash(c.keyFile) # "refused"

\* getHash: what there is, password first.
CredentialHash(c) ==
    (IF c.password = None THEN <<>> ELSE <<c.password>>)
        \o (IF c.keyFile = None THEN <<>>
            ELSE <<KeyFileHash(c.keyFile), IF KeyFileHash(c.keyFile) = "sha256" THEN c.keyFile.key ELSE None>>)

\* KeyEncryptorKdf.encrypt: whether a key can be derived with these parameters.
Derivable(d) ==
    LET argon2 ==
            /\ Get(d, "P") \notin {None, "0"} /\ Get(d, "I") \notin {None, "0"}
            /\ Get(d, "M") \notin {None, "0", "odd"}
            /\ Get(d, "V") \in {"0x13", "0x10"}
            /\ Get(d, "K") = None /\ Get(d, "A") = None
    IN  /\ Get(d, "S") \in Range(Salts) \cup {"s0"}
        /\ \/ Get(d, "$UUID") \in {"Argon2d", "Argon2id"} /\ argon2
           \/ Get(d, "$UUID") = "Aes" /\ Get(d, "R") \notin {None, "0"}

\* computeKeysV4: the term all keys of a file are made of.
Keys(h, c) == [seed |-> h.seed, kdf |-> h.kdf, credentials |-> CredentialHash(c)]

----------------------------------------------------------------------------
(* The header.                                                             *)

CreatedKdf(algo) ==
    <<Item("$UUID", algo), Item("S", "s0"), Item("P", "1"), Item("I", "2"), Item("M", "1M"), Item("V", "0x13")>>
Created ==
    [minor |-> 0, cipher |-> "Aes", compression |-> "GZip", seed |-> "unset", iv |-> "unset",
     kdf |-> CreatedKdf("Argon2d"), public |-> None]

SaltsKept(h, salt) ==
    LET kept == IF h.iv = "unset" THEN salt ELSE h.iv
    IN  [h EXCEPT !.seed = kept, !.iv = kept, !.kdf = Set(@, "S", kept)]
GenerateSalts(h, salt) ==
    [h EXCEPT !.seed = salt, !.iv = salt, !.kdf = Set(@, "S", salt)]

Field(id, items) == [field |-> id, items |-> items]
One(id, v) == Field(id, <<Item(id, v)>>)
FieldsWithoutPublic(h) ==
    <<One("CipherID", h.cipher), One("CompressionFlags", h.compression), One("MasterSeed", h.seed),
      One("EncryptionIV", h.iv), Field("KdfParameters", h.kdf), Field("EndOfHeader", <<>>)>>

\* What write puts there for version 4: no comment, and custom data if there is some.
Fields(h) ==
    <<One("CipherID", h.cipher), One("CompressionFlags", h.compression), One("MasterSeed", h.seed),
      One("EncryptionIV", h.iv), Field("KdfParameters", h.kdf)>>
        \o (IF h.public = None THEN <<>> ELSE <<Field("PublicCustomData", h.public)>>)
        \o <<Field("EndOfHeader", <<>>)>>
WriteHeader(h) == <<[signature |-> "kdbx"], [major |-> 4, minor |-> h.minor]>> \o Fields(h)

Is(p, name) == name \in DOMAIN p
Known == {"EndOfHeader", "Comment", "CipherID", "CompressionFlags", "MasterSeed", "TransformSeed",
          "TransformRounds", "EncryptionIV", "ProtectedStreamKey", "StreamStartBytes",
          "InnerRandomStreamID", "KdfParameters", "PublicCustomData"}
Required == {"CipherID", "CompressionFlags", "MasterSeed", "EncryptionIV", "KdfParameters"}

\* Where the header ends, 0 when it cannot be read.
EndPos(pieces) ==
    LET ends == {i \in DOMAIN pieces : Is(pieces[i], "field") /\ pieces[i].field = "EndOfHeader"}
        end == CHOOSE i \in ends : \A j \in ends : i <= j
        names == {pieces[i].field : i \in 3..end}
    IN  IF /\ Len(pieces) >= 2 /\ ends # {}
           /\ Is(pieces[1], "signature")
           /\ Is(pieces[2], "major") /\ pieces[2].major = 4 /\ pieces[2].minor <= 1
           /\ \A i \in 3..end : Is(pieces[i], "field")
           /\ names \subseteq Known /\ Required \subseteq names
        THEN end ELSE 0

\* read: the last field of a name counts.
ReadHeader(pieces) ==
    LET at(name) == {i \in 3..EndPos(pieces) : pieces[i].field = name}
        items(name) == pieces[CHOOSE i \in at(name) : \A j \in at(name) : j <= i].items
    IN  [minor |-> pieces[2].minor, cipher |-> items("CipherID")[1].value,
         compression |-> items("CompressionFlags")[1].value, seed |-> items("MasterSeed")[1].value,
         iv |-> items("EncryptionIV")[1].value, kdf |-> items("KdfParameters"),
         public |-> IF at("PublicCustomData") = {} THEN None ELSE items("PublicCustomData")]

----------------------------------------------------------------------------
(* The blocks.  The key of a block is made of its number.                  *)

Block(keys, i, data) == [mac |-> <<keys, i, data>>, data |-> data]
Blocks(keys, parts) ==
    [i \in DOMAIN parts |-> Block(keys, i - 1, parts[i])] \o <<Block(keys, Len(parts), None)>>

\* decrypt: blocks are read up to the empty one, whose hash is not looked at.
Verified(keys, pieces) ==
    LET ends == {i \in DOMAIN pieces : Is(pieces[i], "data") /\ pieces[i].data = None}
        end == CHOOSE i \in ends : \A j \in ends : i <= j
    IN  /\ ends # {}
        /\ \A i \in 1..(end - 1) :
                Is(pieces[i], "data") /\ pieces[i].mac = <<keys, i - 1, pieces[i].data>>
Data(pieces) ==
    LET end == CHOOSE i \in DOMAIN pieces :
                /\ Is(pieces[i], "data") /\ pieces[i].data = None
                /\ \A j \in 1..(i - 1) : pieces[j].data # None
    IN  [i \in 1..(end - 1) |-> pieces[i].data]

\* gunzip and the parser find that a payload is not complete; without compression
\* they cannot tell a mixture of two payloads.
Readable(parts, compression) ==
    IF compression = "GZip" THEN parts \in Parts
    ELSE \E p \in Parts : Len(p) = Len(parts) /\ parts[Len(parts)] = p[Len(p)]

----------------------------------------------------------------------------
(* Saving and loading.                                                     *)

Pieces(h, c, parts) ==
    LET top == WriteHeader(h)
    IN  top \o <<[hash |-> top], [hmac |-> Keys(h, c), over |-> top]>> \o Blocks(Keys(h, c), parts)

Outcome(pieces, c) ==
    LET end == EndPos(pieces)
        h == ReadHeader(pieces)
        top == SubSeq(pieces, 1, end)
        rest == SubSeq(pieces, end + 3, Len(pieces))
    IN  IF ~Accepted(c) THEN "InvalidArg"
        ELSE IF end = 0 THEN "FileCorrupt"
        ELSE IF Len(pieces) <= end + 2 THEN "FileCorrupt"
        ELSE IF ~Is(pieces[end + 1], "hash") \/ pieces[end + 1] # [hash |-> top] THEN "FileCorrupt"
        ELSE IF ~Derivable(h.kdf) THEN "Unsupported"
        ELSE IF pieces[end + 2] # [hmac |-> Keys(h, c), over |-> top] THEN "InvalidKey"
        ELSE IF ~Verified(Keys(h, c), rest) THEN "FileCorrupt"
        ELSE IF h.cipher \notin {"Aes", "ChaCha20"} THEN "Unsupported"
        ELSE IF ~Readable(Data(rest), h.compression) THEN "FileCorrupt"
        ELSE "ok"
Payload(pieces) == Data(SubSeq(pieces, EndPos(pieces) + 3, Len(pieces)))

\* The seed is zeroed with the keys.
Opened(pieces) == [ReadHeader(pieces) EXCEPT !.seed = "zeroed"]

----------------------------------------------------------------------------
(* The operations.                                                         *)

Sealed(h, c, parts) == [header |-> h, credentials |-> c, content |-> parts]

Init ==
    /\ header = Created
    /\ content \in Parts
    /\ credentials \in {c \in Credentials : Accepted(c)}
    /\ file = <<>> /\ older = <<>>
    /\ sealed = <<>>
    /\ salts = 0

\* setKdf, and upgrade, which sets the first minor version.
SetKdf(algo) ==
    /\ header' = [header EXCEPT !.kdf = CreatedKdf(algo)]
    /\ UNCHANGED <<content, credentials, file, older, sealed, salts>>
Upgrade ==
    /\ header' = [header EXCEPT !.minor = 0]
    /\ UNCHANGED <<content, credentials, file, older, sealed, salts>>

Replace(h, c, parts) ==
    /\ salts < Len(Salts)
    /\ salts' = salts + 1
    /\ file' = Pieces(h, c, parts) /\ older' = file
    /\ sealed' = <<Sealed(h, c, parts)>> \o SubSeq(sealed, 1, IF sealed = <<>> THEN 0 ELSE 1)

\* An edit, and the save that follows it.
Save(parts) ==
    LET h == GenerateSalts(header, Salts[salts + 1])
    IN  /\ Replace(h, credentials, parts)
        /\ header' = [h EXCEPT !.seed = "zeroed"]
        /\ content' = parts
        /\ UNCHANGED credentials

\* Another client writes the file, with settings of its own.
OtherSaves(h, parts) ==
    /\ Replace(GenerateSalts(h, Salts[salts + 1]), credentials, parts)
    /\ UNCHANGED <<header, content, credentials>>

Load(c) ==
    /\ file # <<>>
    /\ Outcome(file, c) = "ok"
    /\ header' = Opened(file)
    /\ content' = Payload(file)
    /\ credentials' = c
    /\ UNCHANGED <<file, older, sealed, salts>>

Next ==
    \/ \E p \in Parts : Save(p) \/ \E h \in Foreign : OtherSaves(h, p)
    \/ \E algo \in {"Argon2d", "Argon2id"} : SetKdf(algo)
    \/ Upgrade
    \/ \E c \in Credentials : Load(c)

Spec == Init /\ [][Next]_vars

----------------------------------------------------------------------------
(* Properties.                                                             *)

TypeOK ==
    /\ salts \in 0..Len(Salts)
    /\ content \in Parts /\ Accepted(credentials)
    /\ Len(sealed) <= 2 /\ (file = <<>> <=> sealed = <<>>)

\* A file that nothing happened to opens with the credentials it was sealed with, in
\* any form of its key file, with the settings it had; others are told of a wrong key.
Supported(h) == Derivable(h.kdf) /\ h.cipher \in {"Aes", "ChaCha20"} /\ h.minor <= 1
OpensAsSealed ==
    file # <<>> /\ Supported(sealed[1].header) =>
        \A c \in {d \in Credentials : Accepted(d)} :
            IF CredentialHash(c) = CredentialHash(sealed[1].credentials)
            THEN /\ Outcome(file, c) = "ok"
                 /\ Payload(file) = sealed[1].content
                 /\ \A f \in {"minor", "cipher", "compression", "kdf", "public", "iv"} :
                        Opened(file)[f] = sealed[1].header[f]
            ELSE Outcome(file, c) = "InvalidKey"

\* What a disk or a sync client can make of the file: a save that was only half done
\* over the older file or over nothing, a piece that is lost, there twice, in the place
\* of the next one, or other bytes.
Damaged ==
    UNION {{SubSeq(file, 1, k), SubSeq(file, 1, k) \o SubSeq(older, k + 1, Len(older)),
            RemoveAt(file, k), InsertAt(file, k, file[k]),
            [file EXCEPT ![k] = [junk |-> "junk"]],
            IF k = Len(file) THEN file ELSE [file EXCEPT ![k] = file[k + 1], ![k + 1] = file[k]]}
            : k \in DOMAIN file}

\* Whatever happens to a file, it opens as the whole of one save or not at all.
NeverOpensDamaged ==
    \A pieces \in Damaged, i \in DOMAIN sealed :
        Outcome(pieces, sealed[i].credentials) = "ok" =>
            \E j \in DOMAIN sealed : Payload(pieces) = sealed[j].content
=============================================================================

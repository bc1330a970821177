----------------------------- MODULE PasskeyRecords -----------------------------
(***************************************************************************)
(* What the extension writes of passkeys: the attachment of a native one,  *)
(* the fields of one that KeePassXC made, and what a site gets.            *)
(*                                                                         *)
(* Source: passkey/cbor.ts, native-storage.ts, keepassxc-storage.ts and    *)
(* webauthn-crypto.ts of packages/core.  Numbers of the encodings are      *)
(* bytes; the bytes of a text or a key are opaque, only how many there are *)
(* matters.  Each job is written in one step and read back in the next.    *)
(***************************************************************************)
EXTENDS Integers, Sequences

CONSTANTS
    Lengths,        \* of byte strings
    Counts,         \* signature counters
    Digits,         \* bytes of the numbers in a signature
    NumberBytes,    \* of how many each is made (32)
    None

VARIABLES
    job,            \* what is to be written
    bytes,          \* what was written, or None
    back            \* what was read of it, or None

vars == <<job, bytes, back>>

----------------------------------------------------------------------------
(* cbor.ts.                                                                *)

\* What moves a number 8, 16 or 24 bits up or down.
Bits8 == 256
Bits16 == Bits8 * Bits8
Bits24 == Bits16 * Bits8

\* The head of an item: its type and a number of one to five bytes.
EncodeHead(major, n) ==
    IF n < 24 THEN <<major * 32 + n>>
    ELSE IF n < Bits8 THEN <<major * 32 + 24, n>>
    ELSE IF n < Bits16 THEN <<major * 32 + 25, n \div Bits8, n % 256>>
    ELSE <<major * 32 + 26, n \div Bits24, (n \div Bits16) % 256, (n \div Bits8) % 256, n % 256>>

Num(n) == [type |-> "int", n |-> n, b |-> <<>>]
Bytes(b) == [type |-> "bytes", n |-> 0, b |-> b]
Text(t) == [type |-> "text", n |-> 0, b |-> <<t>>]
EmptyMap == [type |-> "map", n |-> 0, b |-> <<>>]

EncodeValue(v) ==
    CASE v.type = "int" -> IF v.n >= 0 THEN EncodeHead(0, v.n) ELSE EncodeHead(1, -1 - v.n)
      [] v.type = "bytes" -> EncodeHead(2, Len(v.b)) \o v.b
      [] v.type = "text" -> EncodeHead(3, Len(v.b)) \o v.b
      [] v.type = "map" -> EncodeHead(5, 0)
EncodeMap(m) ==
    LET parts[k \in 0..Len(m)] ==
            IF k = 0 THEN EncodeHead(5, Len(m))
            ELSE parts[k - 1] \o EncodeValue(m[k][1]) \o EncodeValue(m[k][2])
    IN  parts[Len(m)]

DecodeHead(b, pos) ==
    LET major == b[pos] \div 32
        info == b[pos] % 32
    IN  IF info < 24 THEN [major |-> major, length |-> info, pos |-> pos + 1]
        ELSE IF info = 24 THEN [major |-> major, length |-> b[pos + 1], pos |-> pos + 2]
        ELSE IF info = 25 THEN [major |-> major, length |-> b[pos + 1] * Bits8 + b[pos + 2], pos |-> pos + 3]
        ELSE [major |-> major, pos |-> pos + 5,
              length |-> b[pos + 1] * Bits24 + b[pos + 2] * Bits16 + b[pos + 3] * Bits8 + b[pos + 4]]

DecodeValue(b, pos) ==
    LET head == DecodeHead(b, pos)
        end == head.pos + head.length
        content == SubSeq(b, head.pos, end - 1)
    IN  CASE head.major = 0 -> [value |-> Num(head.length), pos |-> head.pos]
          [] head.major = 1 -> [value |-> Num(-1 - head.length), pos |-> head.pos]
          [] head.major = 2 -> [value |-> Bytes(content), pos |-> end]
          [] head.major = 3 -> [value |-> [Bytes(content) EXCEPT !.type = "text"], pos |-> end]
          [] head.major = 5 -> [value |-> EmptyMap, pos |-> head.pos]
DecodeMap(b) ==
    LET head == DecodeHead(b, 1)
        Item(s) == LET key == DecodeValue(b, s.pos)
                       value == DecodeValue(b, key.pos)
                   IN  [map |-> Append(s.map, <<key.value, value.value>>), pos |-> value.pos]
        read[k \in 0..head.length] ==
            IF k = 0 THEN [map |-> <<>>, pos |-> head.pos] ELSE Item(read[k - 1])
    IN  read[head.length].map
\* The last value set for a key.
Value(m, key) ==
    m[CHOOSE i \in DOMAIN m : m[i][1] = key /\ \A j \in DOMAIN m : m[j][1] = key => j <= i][2]

----------------------------------------------------------------------------
(* native-storage.ts.                                                      *)

Opaque(n) == [i \in 1..n |-> "b"]
EncodeNativeRecord(r) ==
    EncodeMap(<<<<Text("v"), Num(2)>>, <<Text("cid"), Bytes(r.credentialId)>>,
                <<Text("pk"), Bytes(r.privateKey)>>, <<Text("uh"), Bytes(r.userHandle)>>,
                <<Text("alg"), IF r.algorithm = "v1" THEN Num(-7) ELSE Text(r.algorithm)>>,
                <<Text("rp"), Text(r.rpId)>>, <<Text("sc"), Num(r.signCount)>>>>)
DecodeNativeRecord(b) ==
    LET m == DecodeMap(b)
        alg == Value(m, Text("alg"))
    IN  [credentialId |-> Value(m, Text("cid")).b, privateKey |-> Value(m, Text("pk")).b,
         userHandle |-> Value(m, Text("uh")).b,
         algorithm |-> IF alg = Num(-7) THEN "ES256" ELSE alg.b[1],
         rpId |-> Value(m, Text("rp")).b[1], signCount |-> Value(m, Text("sc")).n]

----------------------------------------------------------------------------
(* keepassxc-storage.ts.  Key material in base64 or base64url ("url").     *)

FieldNames == {"relyingParty", "username", "usernameLegacy", "userHandle", "credentialId",
               "credentialIdLegacy", "privateKey", "flagBE", "signCount"}
Decoded(v) == IF v = "url" THEN "plain" ELSE v
Either(v, w) == IF v # None THEN v ELSE w
Number(v) == IF v = None THEN 0 ELSE v      \* a text that is no number counts as none
ReadKeepassxc(f) ==
    LET id == Either(f.credentialId, f.credentialIdLegacy)
    IN  IF f.relyingParty \in {None, ""} \/ id \in {None, "", "bad"} \/ f.privateKey \in {None, "", "bad"}
        THEN None
        ELSE [credentialId |-> Decoded(id), privateKey |-> f.privateKey, rpId |-> f.relyingParty,
              userHandle |-> IF f.userHandle = None THEN "" ELSE Decoded(f.userHandle),
              username |-> LET u == Either(f.username, f.usernameLegacy) IN IF u = None THEN "" ELSE u,
              signCount |-> Number(f.signCount)]
WriteKeepassxc(f, r) ==
    [f EXCEPT !.relyingParty = r.rpId, !.username = r.username, !.userHandle = r.userHandle,
              !.credentialId = r.credentialId, !.privateKey = r.privateKey, !.signCount = r.signCount]

----------------------------------------------------------------------------
(* webauthn-crypto.ts.                                                     *)

Uint16(n) == <<(n \div Bits8) % 256, n % 256>>
Uint32(n) == <<(n \div Bits24) % 256, (n \div Bits16) % 256>> \o Uint16(n)
CoseKey == EncodeMap(<<<<Num(1), Num(2)>>, <<Num(3), Num(-7)>>, <<Num(-1), Num(1)>>,
                       <<Num(-2), Bytes(Opaque(32))>>, <<Num(-3), Bytes(Opaque(32))>>>>)
AttestedData(id) == Opaque(16) \o Uint16(Len(id)) \o id \o CoseKey
AuthenticatorData(count, attested) ==
    Opaque(32) \o <<IF attested = <<>> THEN 5 ELSE 69>> \o Uint32(count) \o attested
AttestationObject(data) ==
    EncodeMap(<<<<Text("fmt"), Text("none")>>, <<Text("attStmt"), EmptyMap>>, <<Text("authData"), Bytes(data)>>>>)

\* derInteger: no leading zeros but one before a byte that would make it negative.
Trimmed(b) ==
    LET start == CHOOSE i \in DOMAIN b : (i = Len(b) \/ b[i] # 0) /\ \A j \in 1..(i - 1) : b[j] = 0
    IN  SubSeq(b, start, Len(b))
\* Without the byte that keeps a number positive.
DerUnpadded(b) == <<2, Len(Trimmed(b))>> \o Trimmed(b)
DerInteger(b) ==
    LET t == Trimmed(b)
        padded == IF t[1] >= 128 THEN <<0>> \o t ELSE t
    IN  <<2, Len(padded)>> \o padded
Der(r, s) ==
    LET body == DerInteger(r) \o DerInteger(s)
    IN  <<48, Len(body)>> \o body

\* decodeOid: seven bits to a byte, the highest bit says that there are more.
OidParts(b) ==
    LET Part(s, x) == IF x >= 128 THEN [s EXCEPT !.value = @ * 128 + (x % 128)]
                      ELSE [parts |-> Append(s.parts, s.value * 128 + x), value |-> 0]
        read[k \in 0..(Len(b) - 1)] ==
            IF k = 0 THEN [parts |-> <<b[1] \div 40, b[1] % 40>>, value |-> 0] ELSE Part(read[k - 1], b[k + 1])
    IN  read[Len(b) - 1].parts
DetectAlgorithm(b) ==
    CASE OidParts(b) = <<1, 2, 840, 113 * 1000 + 549, 1, 1, 1>> -> "RS256"
      [] OidParts(b) = <<1, 2, 840, 10045, 2, 1>> -> "ES256"
      [] OidParts(b) = <<1, 3, 101, 112>> -> "EdDSA"
      [] OTHER -> "unsupported"

----------------------------------------------------------------------------
(* How the other side reads what it gets (the site, a decoder of DER).     *)

Unsigned(b) ==
    LET upto[k \in 0..Len(b)] == IF k = 0 THEN 0 ELSE upto[k - 1] * 256 + b[k] IN upto[Len(b)]
SiteReads(object) ==
    LET data == Value(DecodeMap(object), Text("authData")).b
        length == Unsigned(SubSeq(data, 54, 55))
    IN  [signCount |-> Unsigned(SubSeq(data, 34, 37)), credentialId |-> SubSeq(data, 56, 55 + length),
         key |-> Value(DecodeMap(SubSeq(data, 56 + length, Len(data))), Num(3)).n]
DerReads(b) ==
    LET first == SubSeq(b, 5, 4 + b[4])
        second == SubSeq(b, 7 + b[4], 6 + b[4] + b[6 + b[4]])
    IN  [r |-> Unsigned(first), s |-> Unsigned(second),
         canonical |-> \A n \in {first, second} :
            n[1] < 128 /\ (Len(n) > 1 /\ n[1] = 0 => n[2] >= 128)]

----------------------------------------------------------------------------
(* The jobs.                                                               *)

Records ==
    [credentialId : {Opaque(32)}, privateKey : {Opaque(n) : n \in Lengths},
     userHandle : {Opaque(n) : n \in Lengths}, algorithm : {"ES256", "RS256", "EdDSA", "v1"},
     rpId : {"site"}, signCount : Counts]
KeepassxcFields ==
    [relyingParty : {None, "site"}, username : {None, "user"}, usernameLegacy : {None, "old"},
     userHandle : {None, "plain", "url"}, credentialId : {None, "", "plain", "url", "bad"},
     credentialIdLegacy : {None, "url"}, privateKey : {None, "pem", "bad"}, flagBE : {None, "1"},
     signCount : {None, 0, 1}]
Numbers == [1..NumberBytes -> Digits]
Oids == {<<42, 134, 72, 134, 247, 13, 1, 1, 1>>, <<42, 134, 72, 206, 61, 2, 1>>, <<43, 101, 112>>, <<42, 3>>}

Jobs ==
    [kind : {"native"}, record : Records]
        \cup [kind : {"keepassxc"}, fields : KeepassxcFields]
        \cup [kind : {"attestation"}, count : Counts, id : {Opaque(n) : n \in Lengths}]
        \cup [kind : {"signature"}, r : Numbers, s : Numbers]
        \cup [kind : {"algorithm"}, oid : Oids]

Init == job \in Jobs /\ bytes = None /\ back = None

\* The code's side.
Write ==
    /\ bytes = None
    /\ bytes' =
        CASE job.kind = "native" -> EncodeNativeRecord(job.record)
          [] job.kind = "keepassxc" ->
                LET r == ReadKeepassxc(job.fields)
                IN  IF r = None THEN job.fields
                    ELSE WriteKeepassxc(job.fields, [r EXCEPT !.signCount = @ + 1])
          [] job.kind = "attestation" -> AttestationObject(AuthenticatorData(job.count, AttestedData(job.id)))
          [] job.kind = "signature" -> Der(job.r, job.s)
          [] job.kind = "algorithm" -> job.oid
    /\ UNCHANGED <<job, back>>

\* Read again by the code, or by the other side.
Read ==
    /\ bytes # None /\ back = None
    /\ back' =
        CASE job.kind = "native" -> DecodeNativeRecord(bytes)
          [] job.kind = "keepassxc" -> [fields |-> bytes, record |-> ReadKeepassxc(bytes)]
          [] job.kind = "attestation" -> SiteReads(bytes)
          [] job.kind = "signature" -> DerReads(bytes)
          [] job.kind = "algorithm" -> [algorithm |-> DetectAlgorithm(bytes)]
    /\ UNCHANGED <<job, bytes>>

Next == Write \/ Read

Spec == Init /\ [][Next]_vars

----------------------------------------------------------------------------
(* Properties.                                                             *)

TypeOK == job \in Jobs /\ (back # None => bytes # None)

\* A passkey is read back as it was written, whatever the lengths of its parts and
\* its counter; one of the first version gets its algorithm; one of KeePassXC keeps
\* its key and what Keetar does not know; a site finds its credential and its counter;
\* a signature is the pair of numbers in the one form DER allows for it.
PasskeysReadBack ==
    back # None =>
        CASE job.kind = "native" ->
                back = [job.record EXCEPT !.algorithm = IF @ = "v1" THEN "ES256" ELSE @]
          [] job.kind = "keepassxc" ->
                LET r == ReadKeepassxc(job.fields)
                IN  /\ back.record = (IF r = None THEN None ELSE [r EXCEPT !.signCount = @ + 1])
                    /\ \A f \in {"flagBE", "usernameLegacy", "credentialIdLegacy"} :
                            back.fields[f] = job.fields[f]
          [] job.kind = "attestation" ->
                back = [signCount |-> job.count, credentialId |-> job.id, key |-> -7]
          [] job.kind = "signature" ->
                back = [r |-> Unsigned(job.r), s |-> Unsigned(job.s), canonical |-> TRUE]
          [] job.kind = "algorithm" ->
                back.algorithm = (CASE Len(job.oid) = 9 -> "RS256" [] Len(job.oid) = 7 -> "ES256"
                                    [] Len(job.oid) = 3 -> "EdDSA" [] OTHER -> "unsupported")
=============================================================================

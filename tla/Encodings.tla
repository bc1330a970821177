--------------------------------- MODULE Encodings ---------------------------------
(***************************************************************************)
(* Bytes: the stream that headers are written to and read from, numbers of *)
(* 64 bits, texts that stand for bytes, and the rounds of the AES key      *)
(* derivation.                                                             *)
(*                                                                         *)
(* Source: utils/binary-stream.ts, int64.ts, byte-utils.ts and             *)
(* crypto/key-encryptor-aes.ts of packages/core.  A byte has Byte values   *)
(* (256), so there are Power[n] numbers of n bytes; AES is any function of  *)
(* the blocks.  Floats are left out.                                       *)
(***************************************************************************)
EXTENDS Integers, Sequences

CONSTANTS
    Byte,
    FirstCapacity,  \* of a stream that grows (1024)
    Numbers,        \* what is written: [bytes, signed, little, value]
    Strings,        \* byte strings that are written
    MaxWrites,      \* bound: writes to a stream
    MaxHi,          \* upper halves a number may have (2^21)
    MaxPreIteration,\* rounds done at once (10000)
    MaxRounds,      \* bound: rounds asked for
    Cipher          \* of each block of AES, what it becomes; blocks are 0..3

VARIABLES
    stage,          \* "write", "read" or "done"; "key" while rounds are left
    stream,         \* [data, pos, grows]
    todo,           \* what is still to be read, or the rounds left
    written,        \* history: what was written
    back            \* what was read

vars == <<stage, stream, todo, written, back>>

----------------------------------------------------------------------------
(* binary-stream.ts.  A stream that is read has a buffer of its own size.  *)

Zeros(n) == [i \in 1..n |-> 0]
DoubledOnce(length, wanted) == IF length < wanted THEN 2 * length ELSE length
Doubled(length, wanted) ==
    LET after[k \in 0..wanted] == IF k = 0 THEN length ELSE DoubledOnce(after[k - 1], wanted)
    IN  after[wanted]
CheckCapacity(s, n) ==
    IF ~s.grows \/ Len(s.data) - s.pos >= n THEN s
    ELSE [s EXCEPT !.data = @ \o Zeros(Doubled(Len(@), s.pos + n) - Len(@))]

\* Outside the buffer a write fails, and so does a read of a number.
WriteBytes(s, b) ==
    LET t == CheckCapacity(s, Len(b))
    IN  IF t.pos + Len(b) > Len(t.data) THEN t
        ELSE [t EXCEPT !.data = SubSeq(@, 1, t.pos) \o b \o SubSeq(@, t.pos + Len(b) + 1, Len(@)),
                       !.pos = @ + Len(b)]
\* A read of bytes gets those there are.
ReadBytes(s, n) == SubSeq(s.data, s.pos + 1, IF s.pos + n <= Len(s.data) THEN s.pos + n ELSE Len(s.data))
GetWrittenBytes(s) == SubSeq(s.data, 1, s.pos)

\* The bytes of a number, and the number that bytes are; negative ones are complements.
BytesOf(value, n, little) ==
    LET rest[k \in 0..n] == IF k = 0 THEN value ELSE rest[k - 1] \div Byte
    IN  [i \in 1..n |-> rest[IF little THEN i - 1 ELSE n - i] % Byte]
NumberOf(b, little) ==
    LET upto[k \in 0..Len(b)] ==
            IF k = 0 THEN 0 ELSE upto[k - 1] * Byte + b[IF little THEN Len(b) + 1 - k ELSE k]
    IN  upto[Len(b)]
Power[n \in 0..8] == IF n = 0 THEN 1 ELSE Power[n - 1] * Byte
Signed(v, n) == IF 2 * v >= Power[n] THEN v - Power[n] ELSE v

\* Eight bytes are two numbers of four: the lower first when little comes first.
SetUint64(value, little) ==
    LET lo == value % Power[4]
        hi == value \div Power[4]
    IN  IF little THEN BytesOf(lo, 4, TRUE) \o BytesOf(hi, 4, TRUE)
        ELSE BytesOf(hi, 4, FALSE) \o BytesOf(lo, 4, FALSE)
GetUint64(b, little) ==
    LET part1 == NumberOf(SubSeq(b, 1, 4), little)
        part2 == NumberOf(SubSeq(b, 5, 8), little)
    IN  IF little THEN part1 + part2 * Power[4] ELSE part1 * Power[4] + part2

Encoded(w) == IF w.bytes = 8 THEN SetUint64(w.value, w.little) ELSE BytesOf(w.value, w.bytes, w.little)
Decoded(b, w) ==
    IF w.bytes = 8 THEN GetUint64(b, w.little)
    ELSE IF w.signed THEN Signed(NumberOf(b, w.little), w.bytes) ELSE NumberOf(b, w.little)

----------------------------------------------------------------------------
(* int64.ts, and byte-utils.ts: hexadecimal digits, and base64 for links,  *)
(* whose padding is dropped and put back.                                  *)

Int64From(value) ==
    LET lo == value % Power[4] IN [lo |-> lo, hi |-> (value - lo) \div Power[4]]
Int64Value(x) == IF x.hi # 0 THEN x.hi * Power[4] + x.lo ELSE x.lo

Digit == CHOOSE d \in 1..Byte : d * d = Byte     \* values of a hexadecimal digit
BytesToHex(b) ==
    [i \in 1..(2 * Len(b)) |-> IF i % 2 = 1 THEN b[(i + 1) \div 2] \div Digit ELSE b[i \div 2] % Digit]
HexToBytes(h) ==
    [i \in 1..((Len(h) + 1) \div 2) |-> IF 2 * i <= Len(h) THEN h[2 * i - 1] * Digit + h[2 * i] ELSE h[2 * i - 1]]

\* Three bytes are four characters of base64; an incomplete group is padded with "=".
Base64Length(n) == 4 * ((n + 2) \div 3)
Base64Pad(n) == (3 - (n % 3)) % 3
BytesToBase64Url(n) == Base64Length(n) - Base64Pad(n)
Base64UrlToBytes(chars) ==
    LET padded == chars + ((4 - (chars % 4)) % 4)
    IN  (padded \div 4) * 3 - (padded - chars)

----------------------------------------------------------------------------
(* key-encryptor-aes.ts: rounds of AES are blocks of a chain of zeros,     *)
(* which ends with a block of padding that is dropped.                     *)

Xor(a, b) == ((a + b) % 2) + 2 * ((a \div 2 + b \div 2) % 2)
Padding == 3
AesCbc(iv, blocks) ==
    LET chain[k \in 0..(blocks + 1)] ==
            IF k = 0 THEN iv ELSE Cipher[Xor(IF k > blocks THEN Padding ELSE 0, chain[k - 1])]
    IN  [k \in 1..(blocks + 1) |-> chain[k]]
LastBlock(iv, rounds) == AesCbc(iv, rounds)[rounds + 1]
EncryptBlockBuffer(iv, rounds) == AesCbc(iv, rounds)[rounds]

----------------------------------------------------------------------------

Init ==
    /\ written = <<>>
    /\ \/ /\ stage = "write" /\ todo = 0 /\ back = <<>>
          /\ stream = [data |-> Zeros(FirstCapacity), pos |-> 0, grows |-> TRUE]
       \/ \* The two blocks of a key, and the rounds.
          /\ stage = "key" /\ todo \in 0..MaxRounds
          /\ \E a, b \in 0..3 : stream = [data |-> <<a, b, todo>>, pos |-> 0, grows |-> FALSE] /\ back = <<a, b>>

SetNumber(w) ==
    /\ stage = "write" /\ Len(written) < MaxWrites
    /\ stream' = WriteBytes(stream, Encoded(w))
    /\ written' = Append(written, [is |-> "number", number |-> w, bytes |-> <<>>])
    /\ UNCHANGED <<stage, todo, back>>
SetBytes(b) ==
    /\ stage = "write" /\ Len(written) < MaxWrites
    /\ stream' = WriteBytes(stream, b)
    /\ written' = Append(written, [is |-> "bytes", number |-> <<>>, bytes |-> b])
    /\ UNCHANGED <<stage, todo, back>>

\* What was written becomes a stream to read.
Reopen ==
    /\ stage = "write" /\ written # <<>>
    /\ stage' = "read" /\ todo' = 1
    /\ stream' = [data |-> GetWrittenBytes(stream), pos |-> 0, grows |-> FALSE]
    /\ UNCHANGED <<written, back>>
Get ==
    LET w == written[todo]
        n == IF w.is = "bytes" THEN Len(w.bytes) ELSE w.number.bytes
        b == ReadBytes(stream, n)
    IN  /\ stage = "read"
        /\ back' = Append(back, IF w.is = "bytes" THEN b ELSE IF Len(b) < n THEN <<>> ELSE <<Decoded(b, w.number)>>)
        /\ stream' = [stream EXCEPT !.pos = @ + n]
        /\ todo' = todo + 1
        /\ stage' = IF todo = Len(written) THEN "done" ELSE "read"
        /\ UNCHANGED written

\* encryptBlock: the rounds are done in pieces, each from where the last one ended.
EncryptBlocks ==
    LET now == IF todo < MaxPreIteration THEN todo ELSE MaxPreIteration
    IN  /\ stage = "key"
        /\ IF todo = 0 THEN stage' = "done" /\ UNCHANGED <<back, todo>>
           ELSE /\ back' = [i \in 1..2 |-> EncryptBlockBuffer(back[i], now)]
                /\ todo' = todo - now
                /\ UNCHANGED stage
        /\ UNCHANGED <<stream, written>>

Next == (\E w \in Numbers : SetNumber(w)) \/ (\E b \in Strings : SetBytes(b)) \/ Reopen \/ Get \/ EncryptBlocks

Spec == Init /\ [][Next]_vars

----------------------------------------------------------------------------
(* Properties.                                                             *)

TypeOK ==
    /\ stage \in {"write", "read", "done", "key"}
    /\ stream.pos \in 0..Len(stream.data)

\* What is written to a stream is what is read of it, in any order and of any size,
\* wherever its buffer had to grow; the texts that stand for bytes, and the two halves of
\* a number, give it back.
BytesReadBack ==
    /\ \A i \in DOMAIN back :
          written # <<>> => back[i] = IF written[i].is = "bytes" THEN written[i].bytes ELSE <<written[i].number.value>>
    /\ stage = "write" =>
          LET b == GetWrittenBytes(stream)
          IN  HexToBytes(BytesToHex(b)) = b /\ Base64UrlToBytes(BytesToBase64Url(Len(b))) = Len(b)
    /\ stage = "write" /\ written = <<>> =>
          \A v \in 0..(MaxHi * Power[4] - 1) : Int64Value(Int64From(v)) = v /\ Int64From(v).hi < MaxHi

\* Each block of the key has been enciphered as many times as there were rounds, however
\* they were cut into pieces.
Enciphered(block, rounds) ==
    LET after[n \in 0..rounds] == IF n = 0 THEN block ELSE Cipher[after[n - 1]] IN after[rounds]
KeyStretched ==
    stage = "done" /\ written = <<>> =>
        \A i \in 1..2 : back[i] = Enciphered(stream.data[i], stream.data[3])
=============================================================================

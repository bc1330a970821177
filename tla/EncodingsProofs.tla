--------------------------- MODULE EncodingsProofs ---------------------------
(***************************************************************************)
(* Proofs about what the formats are made of: about Encodings, for any     *)
(* size of a byte, capacity, text and number of rounds, that every writing *)
(* gives back what was written; and about PasskeyRecords, for any lengths, *)
(* counters and numbers, that a passkey is read as it was written, by      *)
(* Keetar and by the site.                                                 *)
(***************************************************************************)
EXTENDS MCFormats, SequenceTheorems, WellFoundedInduction, TLAPS

-----------------------------------------------------------------------------
(* Recursion.                                                              *)

\* A set of naturals that is not empty has a least element.
LEMMA LeastOf ==
    ASSUME NEW S \in SUBSET Nat, S # {}
    PROVE  \E n \in S : \A k \in S : n <= k
<1>1. IsWellFoundedOn(OpToRel(<, Nat), Nat)
    BY NatLessThanWellFounded
<1>2. PICK x \in S : \A y \in S : ~(<<y, x>> \in OpToRel(<, Nat))
    BY <1>1, WFMin
<1>3. \A y \in S : ~(y < x)
    BY <1>2 DEF OpToRel
<1>4. \A y \in S : x <= y
    BY <1>3
<1> QED BY <1>4

\* What holds at 0, and at n when it held before, holds up to m.
LEMMA StepByStep ==
    ASSUME NEW m \in Nat, NEW T, 0 \in T, \A n \in 1..m : n - 1 \in T => n \in T
    PROVE  \A n \in 0..m : n \in T
<1> SUFFICES ASSUME NEW k \in 0..m, k \notin T PROVE FALSE
    OBVIOUS
<1> DEFINE S == {n \in 0..m : n \notin T}
<1>1. S \in SUBSET Nat /\ S # {}
    OBVIOUS
<1>2. PICK n \in S : \A j \in S : n <= j
    BY <1>1, LeastOf
<1>3. n \in 1..m /\ n - 1 \in 0..m
    BY <1>2
<1>4. n - 1 \in T
    BY <1>2, <1>3
<1> QED BY <1>2, <1>3, <1>4

\* A value that is taken m steps further, each by a function of the step and the value.
Iterates(f, m, S, a, G) == f \in [0..m -> S] /\ f[0] = a /\ \A n \in 1..m : f[n] = G[<<n, f[n - 1]>>]
StepsOn(G, m, S) == G \in [(1..m) \X S -> S]

LEMMA Iterated ==
    ASSUME NEW m \in Nat, NEW S, NEW a \in S, NEW G, StepsOn(G, m, S)
    PROVE  \E f : Iterates(f, m, S, a, G)
<1>0. G \in [(1..m) \X S -> S]
    BY DEF StepsOn
<1> DEFINE Good(f, k) == f \in [0..k -> S] /\ f[0] = a /\ \A n \in 1..k : f[n] = G[<<n, f[n - 1]>>]
           T == {k \in 0..m : \E f : Good(f, k)}
<1>1. 0 \in T
    <2>1. Good([k \in 0..0 |-> a], 0)
        OBVIOUS
    <2> HIDE DEF Good
    <2> QED BY <2>1
<1>2. ASSUME NEW n \in 1..m, n - 1 \in T PROVE n \in T
    <2>1. PICK f : Good(f, n - 1)
        BY <1>2
    <2> DEFINE g == [k \in 0..n |-> IF k = n THEN G[<<n, f[n - 1]>>] ELSE f[k]]
    <2>2. f[n - 1] \in S
        BY <2>1
    <2>3. G[<<n, f[n - 1]>>] \in S
        BY <1>0, <2>2
    <2>4. g \in [0..n -> S]
        <3>1. ASSUME NEW k \in 0..n PROVE (IF k = n THEN G[<<n, f[n - 1]>>] ELSE f[k]) \in S
            BY <2>1, <2>3
        <3> QED BY <3>1
    <2>5. g[0] = a
        BY <2>1
    <2>6. ASSUME NEW k \in 1..n PROVE g[k] = G[<<k, g[k - 1]>>]
        <3>1. g[k - 1] = f[k - 1]
            OBVIOUS
        <3>2. CASE k = n
            <4>1. n \in 0..n /\ g[n] = G[<<n, f[n - 1]>>]
                OBVIOUS
            <4> HIDE DEF g
            <4> QED BY <3>1, <3>2, <4>1
        <3>3. CASE k # n
            BY <3>1, <3>3, <2>1
        <3> QED BY <3>2, <3>3
    <2>7. Good(g, n)
        BY <2>4, <2>5, <2>6
    <2> HIDE DEF Good, g
    <2> QED BY <2>7
<1> HIDE DEF T
<1>3. m \in T
    BY <1>1, <1>2, StepByStep
<1>4. PICK f : Good(f, m)
    BY <1>3 DEF T
<1> QED BY <1>4 DEF Iterates

-----------------------------------------------------------------------------
(* Encodings: bytes of numbers and of texts.                               *)

\* A byte has a number of values that is a square of the values of a digit; numbers fit
\* in their bytes, and blocks are enciphered to blocks.
ByteConstants ==
    /\ ByteValues \in Nat /\ ByteValues >= 2
    /\ \E d \in 1..ByteValues : d * d = ByteValues
Fits(w) ==
    /\ w.bytes \in {1, 2, 4, 8} /\ w.signed \in BOOLEAN /\ w.little \in BOOLEAN /\ w.value \in Int
    /\ w.bytes = 8 => ~w.signed
    /\ IF w.signed THEN -Encoding!Power[w.bytes] <= 2 * w.value /\ 2 * w.value < Encoding!Power[w.bytes]
       ELSE 0 <= w.value /\ w.value < Encoding!Power[w.bytes]
EncodingConstants ==
    /\ ByteConstants
    /\ StreamStart \in Nat \ {0}
    /\ \A w \in StreamNumbers : Fits(w)
    /\ \A s \in StreamTexts : s \in Seq(0..(ByteValues - 1))
    /\ MaxHi \in Nat /\ MaxPreIteration \in Nat \ {0} /\ MaxRounds \in Nat
    /\ BlockCipher \in [0..3 -> 0..3]

\* Only one number is so many times B and less than B more.
LEMMA DividedOnce ==
    ASSUME NEW B \in Nat, B >= 1, NEW q \in Int, NEW r \in 0..(B - 1), NEW v \in Int, v = q * B + r
    PROVE  v \div B = q /\ v % B = r
OBVIOUS

LEMMA Divided ==
    ASSUME NEW B \in Nat, B >= 1, NEW v \in Int
    PROVE  v \div B \in Int /\ v % B \in 0..(B - 1) /\ v = (v \div B) * B + (v % B)
OBVIOUS

\* What is left of a number after each of its bytes, and what is read after each.
Rest(v, n) == CHOOSE rest : rest = [k \in 0..n |-> IF k = 0 THEN v ELSE rest[k - 1] \div ByteValues]
UpTo(b, little) ==
    CHOOSE upto : upto = [k \in 0..Len(b) |->
        IF k = 0 THEN 0 ELSE upto[k - 1] * ByteValues + b[IF little THEN Len(b) + 1 - k ELSE k]]

LEMMA ByteBounds == ASSUME ByteConstants PROVE ByteValues \in Nat /\ ByteValues >= 2 /\ ByteValues >= 1
BY DEF ByteConstants

LEMMA RestSteps ==
    ASSUME ByteConstants, NEW v \in Int, NEW n \in Nat
    PROVE  /\ Rest(v, n) \in [0..n -> Int] /\ Rest(v, n)[0] = v
           /\ \A k \in 1..n : Rest(v, n)[k] = Rest(v, n)[k - 1] \div ByteValues
<1> DEFINE G == [p \in (1..n) \X Int |-> p[2] \div ByteValues]
           Is(f) == f = [k \in 0..n |-> IF k = 0 THEN v ELSE f[k - 1] \div ByteValues]
<1>1. G \in [(1..n) \X Int -> Int]
    <2>1. ASSUME NEW p \in (1..n) \X Int PROVE p[2] \div ByteValues \in Int
        BY ByteBounds, Divided
    <2> QED BY <2>1
<1>2. \A k \in 1..n, x \in Int : G[<<k, x>>] = x \div ByteValues
    OBVIOUS
<1> HIDE DEF G
<1>3. PICK f \in [0..n -> Int] : f[0] = v /\ \A k \in 1..n : f[k] = G[<<k, f[k - 1]>>]
    <2>1. StepsOn(G, n, Int)
        BY <1>1 DEF StepsOn
    <2>2. PICK f : Iterates(f, n, Int, v, G)
        BY <2>1, Iterated
    <2> QED BY <2>2 DEF Iterates
<1>4. ASSUME NEW k \in 0..n PROVE f[k] = IF k = 0 THEN v ELSE f[k - 1] \div ByteValues
    <2>1. CASE k = 0
        BY <2>1, <1>3
    <2>2. CASE k # 0
        <3>1. k \in 1..n /\ k - 1 \in 0..n
            BY <2>2
        <3>2. f[k] = G[<<k, f[k - 1]>>] /\ f[k - 1] \in Int
            BY <1>3, <3>1
        <3> QED BY <3>1, <3>2, <1>2, <2>2
    <2> QED BY <2>1, <2>2
<1>5. Is(f)
    BY <1>3, <1>4
<1>6. Is(Rest(v, n))
    <2> HIDE DEF Is
    <2>1. Is(CHOOSE g : Is(g))
        BY <1>5
    <2> QED BY <2>1 DEF Rest, Is
<1> DEFINE r == Rest(v, n)
<1> HIDE DEF r
<1>7. Is(r)
    BY <1>6 DEF r
<1>8. r[0] = v /\ \A k \in 1..n : r[k] = r[k - 1] \div ByteValues
    BY <1>7
<1>9. \A k \in 0..n : r[k] \in Int
    <2> DEFINE T == {k \in 0..n : r[k] \in Int}
    <2>1. 0 \in T
        BY <1>8
    <2>2. ASSUME NEW k \in 1..n, k - 1 \in T PROVE k \in T
        <3>1. k \in 0..n /\ r[k - 1] \in Int /\ r[k] = r[k - 1] \div ByteValues
            BY <2>2, <1>8
        <3>2. r[k] \in Int
            BY <3>1, ByteBounds, Divided
        <3> QED BY <3>1, <3>2
    <2> HIDE DEF T
    <2>3. \A k \in 0..n : k \in T
        BY <2>1, <2>2, StepByStep
    <2> QED BY <2>3 DEF T
<1>10. r \in [0..n -> Int]
    BY <1>7, <1>9
<1> QED BY <1>8, <1>10 DEF r

LEMMA BytesRest ==
    ASSUME NEW v, NEW n, NEW little
    PROVE  Encoding!BytesOf(v, n, little)
             = [i \in 1..n |-> Rest(v, n)[IF little THEN i - 1 ELSE n - i] % ByteValues]
BY DEF Encoding!BytesOf, Rest

LEMMA NumberUpTo ==
    ASSUME NEW b, NEW little
    PROVE  Encoding!NumberOf(b, little) = UpTo(b, little)[Len(b)]
BY DEF Encoding!NumberOf, UpTo

LEMMA PowerSteps ==
    ASSUME ByteConstants
    PROVE  /\ Encoding!Power[0] = 1
           /\ \A n \in 0..8 : Encoding!Power[n] \in Nat \ {0}
           /\ \A n \in 1..8 : Encoding!Power[n] = Encoding!Power[n - 1] * ByteValues
<1> DEFINE S == Nat \ {0}
           G == [p \in (1..8) \X S |-> p[2] * ByteValues]
           Is(f) == f = [n \in 0..8 |-> IF n = 0 THEN 1 ELSE f[n - 1] * ByteValues]
<1>1. StepsOn(G, 8, S)
    <2>1. ASSUME NEW p \in (1..8) \X S PROVE p[2] * ByteValues \in S
        BY ByteBounds
    <2> QED BY <2>1 DEF StepsOn
<1>2. \A k \in 1..8, x \in S : G[<<k, x>>] = x * ByteValues
    OBVIOUS
<1> HIDE DEF G
<1>3. 1 \in S /\ 8 \in Nat
    OBVIOUS
<1>4. PICK f : Iterates(f, 8, S, 1, G)
    <2> HIDE DEF S
    <2> QED BY <1>1, <1>3, Iterated
<1>5. f \in [0..8 -> S] /\ f[0] = 1 /\ \A k \in 1..8 : f[k] = f[k - 1] * ByteValues
    <2>1. f \in [0..8 -> S] /\ f[0] = 1 /\ \A k \in 1..8 : f[k] = G[<<k, f[k - 1]>>]
        BY <1>4 DEF Iterates
    <2>2. ASSUME NEW k \in 1..8 PROVE f[k] = f[k - 1] * ByteValues
        <3>1. k - 1 \in 0..8
            OBVIOUS
        <3>2. f[k - 1] \in S /\ f[k] = G[<<k, f[k - 1]>>]
            BY <2>1, <3>1
        <3> HIDE DEF S
        <3> QED BY <3>2, <1>2
    <2> QED BY <2>1, <2>2
<1>6. Is(f)
    <2>1. ASSUME NEW k \in 0..8 PROVE f[k] = IF k = 0 THEN 1 ELSE f[k - 1] * ByteValues
        <3>1. CASE k = 0
            BY <3>1, <1>5
        <3>2. CASE k # 0
            <4>1. k \in 1..8
                BY <3>2
            <4> QED BY <4>1, <3>2, <1>5
        <3> QED BY <3>1, <3>2
    <2> QED BY <1>5, <2>1
<1>7. Is(Encoding!Power)
    <2> HIDE DEF Is
    <2>1. Is(CHOOSE g : Is(g))
        BY <1>6
    <2> QED BY <2>1 DEF Encoding!Power, Is
<1>8. Encoding!Power = f
    <2> DEFINE T == {k \in 0..8 : Encoding!Power[k] = f[k]}
    <2>1. 0 \in T
        BY <1>7, <1>5
    <2>2. ASSUME NEW k \in 1..8, k - 1 \in T PROVE k \in T
        <3>1. k \in 0..8 /\ k # 0 /\ k - 1 \in 0..8
            OBVIOUS
        <3>2. Encoding!Power[k - 1] = f[k - 1]
            BY <2>2
        <3>3. Encoding!Power[k] = Encoding!Power[k - 1] * ByteValues
            BY <1>7, <3>1
        <3>4. f[k] = f[k - 1] * ByteValues
            BY <1>5
        <3>5. Encoding!Power[k] = f[k]
            BY <3>2, <3>3, <3>4
        <3> QED BY <3>1, <3>5
    <2> HIDE DEF T
    <2>3. \A k \in 0..8 : k \in T
        BY <2>1, <2>2, StepByStep
    <2>4. \A k \in 0..8 : Encoding!Power[k] = f[k]
        BY <2>3 DEF T
    <2>5. Encoding!Power = [n \in 0..8 |-> Encoding!Power[n]] /\ f = [n \in 0..8 |-> f[n]]
        BY <1>5, <1>7
    <2> QED BY <2>4, <2>5
<1> QED BY <1>5, <1>8

LEMMA Elements ==
    ASSUME NEW S, NEW s \in Seq(S)
    PROVE  Len(s) \in Nat /\ DOMAIN s = 1..Len(s) /\ \A i \in 1..Len(s) : s[i] \in S
OBVIOUS

LEMMA MoreNat == ASSUME NEW x \in Nat, NEW y \in Nat, NEW z \in Nat PROVE x * y + z \in Nat
OBVIOUS

\* What UpTo is, of bytes.
LEMMA UpToSteps ==
    ASSUME ByteConstants, NEW b \in Seq(0..(ByteValues - 1)), NEW little \in BOOLEAN
    PROVE  /\ UpTo(b, little)[0] = 0
           /\ \A k \in 1..Len(b) :
                UpTo(b, little)[k]
                    = UpTo(b, little)[k - 1] * ByteValues + b[IF little THEN Len(b) + 1 - k ELSE k]
           /\ \A k \in 0..Len(b) : UpTo(b, little)[k] \in Nat
<1> DEFINE n == Len(b)
           ByteAt(k) == b[IF little THEN n + 1 - k ELSE k]
           G == [p \in (1..n) \X Nat |-> p[2] * ByteValues + ByteAt(p[1])]
           Is(f) == f = [k \in 0..n |-> IF k = 0 THEN 0 ELSE f[k - 1] * ByteValues + ByteAt(k)]
<1>0. n \in Nat /\ \A k \in 1..n : ByteAt(k) \in Nat
    <2>1. ASSUME NEW k \in 1..n PROVE ByteAt(k) \in Nat
        <3>1. (IF little THEN n + 1 - k ELSE k) \in 1..n
            OBVIOUS
        <3>2. \A i \in 1..n : b[i] \in 0..(ByteValues - 1)
            BY Elements
        <3>3. ByteAt(k) \in 0..(ByteValues - 1)
            BY <3>1, <3>2
        <3> QED BY <3>3, ByteBounds
    <2> QED BY <2>1
<1> HIDE DEF n, ByteAt
<1>1. StepsOn(G, n, Nat)
    <2>1. ASSUME NEW p \in (1..n) \X Nat PROVE p[2] * ByteValues + ByteAt(p[1]) \in Nat
        <3>1. ByteAt(p[1]) \in Nat /\ p[2] \in Nat
            BY <1>0
        <3> QED BY <3>1, ByteBounds
    <2> QED BY <2>1 DEF StepsOn
<1>2. \A k \in 1..n, x \in Nat : G[<<k, x>>] = x * ByteValues + ByteAt(k)
    OBVIOUS
<1> HIDE DEF G
<1>3. 0 \in Nat
    OBVIOUS
<1>4. PICK f : Iterates(f, n, Nat, 0, G)
    BY <1>0, <1>1, <1>3, Iterated
<1>5. f \in [0..n -> Nat] /\ f[0] = 0 /\ \A k \in 1..n : f[k] = f[k - 1] * ByteValues + ByteAt(k)
    <2>1. f \in [0..n -> Nat] /\ f[0] = 0 /\ \A k \in 1..n : f[k] = G[<<k, f[k - 1]>>]
        BY <1>4 DEF Iterates
    <2>2. ASSUME NEW k \in 1..n PROVE f[k] = f[k - 1] * ByteValues + ByteAt(k)
        <3>1. k - 1 \in 0..n
            BY <1>0
        <3>2. f[k - 1] \in Nat /\ f[k] = G[<<k, f[k - 1]>>]
            BY <2>1, <3>1
        <3> QED BY <3>2, <1>2
    <2> QED BY <2>1, <2>2
<1>6. Is(f)
    <2>1. ASSUME NEW k \in 0..n PROVE f[k] = IF k = 0 THEN 0 ELSE f[k - 1] * ByteValues + ByteAt(k)
        <3>1. CASE k = 0
            BY <3>1, <1>5
        <3>2. CASE k # 0
            <4>1. k \in 1..n
                BY <3>2, <1>0
            <4> QED BY <4>1, <3>2, <1>5
        <3> QED BY <3>1, <3>2
    <2> QED BY <1>5, <2>1
<1> DEFINE r == UpTo(b, little)
<1>7. Is(r)
    <2> HIDE DEF Is
    <2>1. Is(CHOOSE g : Is(g))
        BY <1>6
    <2> QED BY <2>1 DEF UpTo, Is, n, ByteAt
<1> HIDE DEF r
<1>8. r[0] = 0 /\ \A k \in 1..n : r[k] = r[k - 1] * ByteValues + ByteAt(k)
    <2>1. ASSUME NEW k \in 0..n PROVE r[k] = IF k = 0 THEN 0 ELSE r[k - 1] * ByteValues + ByteAt(k)
        BY <1>7
    <2>2. 0 \in 0..n /\ \A k \in 1..n : k \in 0..n /\ k # 0
        BY <1>0
    <2> QED BY <2>1, <2>2
<1>9. \A k \in 0..n : r[k] \in Nat
    <2> DEFINE T == {k \in 0..n : r[k] \in Nat}
    <2>1. 0 \in T
        BY <1>0, <1>8
    <2>2. ASSUME NEW k \in 1..n, k - 1 \in T PROVE k \in T
        <3>1. k \in 0..n /\ r[k - 1] \in Nat /\ r[k] = r[k - 1] * ByteValues + ByteAt(k) /\ ByteAt(k) \in Nat
            BY <2>2, <1>0, <1>8
        <3>2. r[k - 1] * ByteValues + ByteAt(k) \in Nat
            BY <3>1, ByteBounds, MoreNat
        <3> QED BY <3>1, <3>2
    <2> HIDE DEF T
    <2>3. \A k \in 0..n : k \in T
        BY <1>0, <2>1, <2>2, StepByStep
    <2> QED BY <2>3 DEF T
<1> QED BY <1>8, <1>9 DEF r, n, ByteAt

\* The number that is read of the bytes of another is that one, but for what they do not hold.
ReadsBack(v, n, little) ==
    LET b == Encoding!BytesOf(v, n, little)
        u == Encoding!NumberOf(b, little)
    IN  /\ b \in Seq(0..(ByteValues - 1)) /\ Len(b) = n
        /\ u \in 0..(Encoding!Power[n] - 1)
        /\ \E q \in Int : v = q * Encoding!Power[n] + u

LEMMA NumberReadsBack ==
    ASSUME ByteConstants, NEW v \in Int, NEW n \in 1..8, NEW little \in BOOLEAN
    PROVE  ReadsBack(v, n, little)
<1> DEFINE b == Encoding!BytesOf(v, n, little)
<1>0. b = Encoding!BytesOf(v, n, little)
    OBVIOUS
<1> HIDE DEF b
<1> DEFINE rest == Rest(v, n)
           upto == UpTo(b, little)
           P == Encoding!Power
<1>1. /\ rest \in [0..n -> Int] /\ rest[0] = v
      /\ \A k \in 1..n : rest[k] = rest[k - 1] \div ByteValues
    <2>1. n \in Nat
        OBVIOUS
    <2> QED BY <2>1, RestSteps
<1>2. b = [i \in 1..n |-> rest[IF little THEN i - 1 ELSE n - i] % ByteValues]
    BY <1>0, BytesRest
<1> HIDE DEF rest
<1>3. ASSUME NEW i \in 0..(n - 1)
      PROVE  /\ rest[i] \in Int /\ rest[i + 1] \in Int /\ rest[i] % ByteValues \in 0..(ByteValues - 1)
             /\ rest[i] = rest[i + 1] * ByteValues + (rest[i] % ByteValues)
    <2>1. i \in 0..n /\ i + 1 \in 1..n /\ i + 1 \in 0..n /\ (i + 1) - 1 = i
        OBVIOUS
    <2>2. rest[i] \in Int /\ rest[i + 1] \in Int /\ rest[i + 1] = rest[i] \div ByteValues
        BY <1>1, <2>1
    <2>3. rest[i] % ByteValues \in 0..(ByteValues - 1) /\ rest[i] = (rest[i] \div ByteValues) * ByteValues + (rest[i] % ByteValues)
        BY <2>2, ByteBounds, Divided
    <2> QED BY <2>2, <2>3
<1>4. b \in Seq(0..(ByteValues - 1)) /\ Len(b) = n
    <2>1. ASSUME NEW i \in 1..n PROVE rest[IF little THEN i - 1 ELSE n - i] % ByteValues \in 0..(ByteValues - 1)
        <3>1. i - 1 \in 0..(n - 1) /\ n - i \in 0..(n - 1)
            OBVIOUS
        <3> QED BY <1>3, <3>1
    <2> QED BY <1>2, <2>1
<1>5. ASSUME NEW k \in 1..n
      PROVE  b[IF little THEN n + 1 - k ELSE k] = rest[n - k] % ByteValues
    <2>1. CASE little
        <3>1. n + 1 - k \in 1..n /\ (n + 1 - k) - 1 = n - k
            OBVIOUS
        <3> QED BY <1>2, <2>1, <3>1
    <2>2. CASE ~little
        BY <1>2, <2>2
    <2> QED BY <2>1, <2>2
<1>6. /\ upto[0] = 0
      /\ \A k \in 1..n : upto[k] = upto[k - 1] * ByteValues + (rest[n - k] % ByteValues)
      /\ \A k \in 0..n : upto[k] \in Nat
    <2>1. /\ UpTo(b, little)[0] = 0
          /\ \A k \in 1..Len(b) :
                UpTo(b, little)[k]
                    = UpTo(b, little)[k - 1] * ByteValues + b[IF little THEN Len(b) + 1 - k ELSE k]
          /\ \A k \in 0..Len(b) : UpTo(b, little)[k] \in Nat
        BY <1>4, UpToSteps
    <2> QED BY <1>4, <1>5, <2>1
<1> HIDE DEF upto
<1>7. P[0] = 1 /\ (\A k \in 0..n : P[k] \in Nat \ {0}) /\ \A k \in 1..n : P[k] = P[k - 1] * ByteValues
    BY PowerSteps
<1> HIDE DEF P
<1>8. \A k \in 0..n : upto[k] < P[k] /\ rest[n - k] = rest[n] * P[k] + upto[k]
    <2> DEFINE T == {k \in 0..n : upto[k] < P[k] /\ rest[n - k] = rest[n] * P[k] + upto[k]}
    <2>1. 0 \in T
        <3>1. rest[n] \in Int
            BY <1>1
        <3>2. n - 0 = n /\ 0 \in 0..n
            OBVIOUS
        <3>3. rest[n] = rest[n] * 1 + 0
            BY <3>1
        <3> QED BY <3>2, <3>3, <1>6, <1>7
    <2>2. ASSUME NEW k \in 1..n, k - 1 \in T PROVE k \in T
        <3>1. k \in 0..n /\ k - 1 \in 0..n /\ n - k \in 0..(n - 1) /\ (n - k) + 1 = n - (k - 1) /\ n \in 0..n
            OBVIOUS
        <3> DEFINE d == rest[n - k] % ByteValues
                   u == upto[k - 1]
                   w == P[k - 1]
                   x == rest[n - (k - 1)]
                   y == rest[n]
        <3>2. u < w /\ x = y * w + u
            BY <2>2
        <3>3. d \in 0..(ByteValues - 1) /\ x \in Int /\ rest[n - k] = x * ByteValues + d
            BY <1>3, <3>1
        <3>4. upto[k] = u * ByteValues + d /\ u \in Nat /\ P[k] = w * ByteValues /\ w \in Nat /\ y \in Int
            BY <1>1, <1>6, <1>7, <3>1
        <3> HIDE DEF d, u, w, x, y
        <3>5. upto[k] < P[k]
            <4>1. (u + 1) * ByteValues <= w * ByteValues
                BY <3>2, <3>4, ByteBounds
            <4>2. (u + 1) * ByteValues = u * ByteValues + ByteValues
                BY <3>4, ByteBounds
            <4> QED BY <3>3, <3>4, <4>1, <4>2, ByteBounds
        <3>6. rest[n - k] = y * P[k] + upto[k]
            <4>1. x * ByteValues = (y * w) * ByteValues + u * ByteValues
                BY <3>2, <3>4, ByteBounds
            <4>2. (y * w) * ByteValues = y * (w * ByteValues)
                BY <3>4, ByteBounds
            <4>3. y * (w * ByteValues) \in Int /\ u * ByteValues \in Int
                BY <3>4, ByteBounds
            <4> QED BY <3>3, <3>4, <4>1, <4>2, <4>3
        <3> QED BY <3>1, <3>5, <3>6 DEF y
    <2> HIDE DEF T
    <2>3. n \in Nat
        OBVIOUS
    <2>4. \A k \in 0..n : k \in T
        BY <2>1, <2>2, <2>3, StepByStep
    <2> QED BY <2>4 DEF T
<1>9. upto[n] < P[n] /\ upto[n] \in Nat /\ v = rest[n] * P[n] + upto[n] /\ rest[n] \in Int /\ P[n] \in Nat
    <2>1. n \in 0..n /\ n - n = 0
        OBVIOUS
    <2> QED BY <1>1, <1>6, <1>7, <1>8, <2>1
<1>10. Encoding!NumberOf(b, little) = upto[n]
    BY <1>4, NumberUpTo DEF upto
<1>11. upto[n] \in 0..(P[n] - 1) /\ \E q \in Int : v = q * P[n] + upto[n]
    BY <1>9
<1>12. /\ b \in Seq(0..(ByteValues - 1)) /\ Len(b) = n
       /\ Encoding!NumberOf(b, little) \in 0..(P[n] - 1)
       /\ \E q \in Int : v = q * P[n] + Encoding!NumberOf(b, little)
    BY <1>4, <1>10, <1>11
<1> QED BY ONLY <1>12, Zenon DEF ReadsBack, b, P

\* Two numbers below P that differ by a multiple of it are one.
LEMMA NearMultiple ==
    ASSUME NEW P \in Nat \ {0}, NEW q \in Int, NEW u \in 0..(P - 1), NEW v \in Int, v = q * P + u
    PROVE  /\ 0 <= v /\ v < P => v = u
           /\ -P <= 2 * v /\ 2 * v < P => v = IF 2 * u >= P THEN u - P ELSE u
<1>1. CASE q = 0
    BY <1>1
<1>2. CASE q >= 1
    <2>1. q * P >= P
        BY <1>2
    <2>2. v >= P
        BY <2>1
    <2> QED BY <2>2
<1>3. CASE q = -1
    <2>1. q * P = -P
        BY <1>3
    <2>2. v = u - P
        BY <2>1
    <2> QED BY <2>2
<1>4. CASE q <= -2
    <2>1. q * P <= (-2) * P
        BY <1>4
    <2>2. q * P <= -P - P
        BY <2>1
    <2>3. v < -P
        BY <2>2
    <2> QED BY <2>3
<1> QED BY <1>1, <1>2, <1>3, <1>4

LEMMA EightIsTwoFours ==
    ASSUME ByteConstants PROVE Encoding!Power[8] = Encoding!Power[4] * Encoding!Power[4]
<1> DEFINE P == Encoding!Power
           B == ByteValues
<1>1. /\ P[0] = 1 /\ P[1] = P[0] * B /\ P[2] = P[1] * B /\ P[3] = P[2] * B /\ P[4] = P[3] * B
      /\ P[5] = P[4] * B /\ P[6] = P[5] * B /\ P[7] = P[6] * B /\ P[8] = P[7] * B
    BY PowerSteps
<1>2. P[1] \in Nat /\ P[2] \in Nat /\ P[3] \in Nat /\ P[4] \in Nat
    BY PowerSteps
<1> HIDE DEF P
<1>3. P[1] = B /\ P[2] = B * B /\ P[3] = (B * B) * B /\ P[4] = ((B * B) * B) * B
    BY <1>1, ByteBounds
<1>4. P[8] = (((P[4] * B) * B) * B) * B
    BY <1>1
<1>5. ASSUME NEW x \in Nat PROVE (((x * B) * B) * B) * B = x * (((B * B) * B) * B)
    BY ByteBounds
<1> QED BY <1>2, <1>3, <1>4, <1>5 DEF P

\* The halves of two texts that are put together.
LEMMA Halves ==
    ASSUME NEW S, NEW x \in Seq(S), NEW y \in Seq(S), Len(x) = 4, Len(y) = 4
    PROVE  /\ x \o y \in Seq(S) /\ Len(x \o y) = 8
           /\ SubSeq(x \o y, 1, 4) = x /\ SubSeq(x \o y, 5, 8) = y
<1>1. /\ x \o y \in Seq(S) /\ Len(x \o y) = 8
      /\ \A i \in 1..4 : (x \o y)[i] = x[i] /\ (x \o y)[4 + i] = y[i]
    <2>1. /\ x \o y \in Seq(S) /\ Len(x \o y) = 4 + 4
          /\ \A i \in 1..(4 + 4) : (x \o y)[i] = IF i <= 4 THEN x[i] ELSE y[i - 4]
        <3>1. /\ x \o y \in Seq(S) /\ Len(x \o y) = Len(x) + Len(y)
              /\ \A i \in 1..(Len(x) + Len(y)) :
                    (x \o y)[i] = IF i <= Len(x) THEN x[i] ELSE y[i - Len(x)]
            BY ConcatProperties
        <3> QED BY <3>1
    <2>2. \A i \in 1..4 : (4 + i) - 4 = i /\ ~(4 + i <= 4) /\ i \in 1..(4 + 4) /\ 4 + i \in 1..(4 + 4)
        OBVIOUS
    <2> QED BY <2>1, <2>2
<1>2. x = [i \in 1..4 |-> x[i]] /\ y = [i \in 1..4 |-> y[i]]
    OBVIOUS
<1>3. SubSeq(x \o y, 1, 4) = [i \in 1..4 |-> (x \o y)[i]]
    BY <1>1
<1>4. SubSeq(x \o y, 5, 8) = [i \in 1..4 |-> (x \o y)[4 + i]]
    BY <1>1
<1> QED BY <1>1, <1>2, <1>3, <1>4

\* A number is read back as it was written.
LEMMA CodedBack ==
    ASSUME ByteConstants, NEW w, Fits(w)
    PROVE  /\ Encoding!Encoded(w) \in Seq(0..(ByteValues - 1)) /\ Len(Encoding!Encoded(w)) = w.bytes
           /\ Encoding!Decoded(Encoding!Encoded(w), w) = w.value
<1> DEFINE P == Encoding!Power
           n == w.bytes
           v == w.value
           b == Encoding!Encoded(w)
<1>1. /\ n \in {1, 2, 4, 8} /\ w.signed \in BOOLEAN /\ w.little \in BOOLEAN /\ v \in Int
      /\ n = 8 => ~w.signed
      /\ w.signed => -P[n] <= 2 * v /\ 2 * v < P[n]
      /\ ~w.signed => 0 <= v /\ v < P[n]
    BY DEF Fits
<1>2. n \in 1..8 /\ \A k \in 0..8 : P[k] \in Nat \ {0}
    BY <1>1, PowerSteps
<1>3. CASE n # 8
    <2>1. b = Encoding!BytesOf(v, n, w.little)
        BY <1>3 DEF Encoding!Encoded
    <2>0. ReadsBack(v, n, w.little)
        <3> HIDE DEF n, v
        <3> QED BY <1>1, <1>2, NumberReadsBack
    <2>2. b \in Seq(0..(ByteValues - 1)) /\ Len(b) = n
        <3> HIDE DEF n, v, b
        <3> QED BY <2>0, <2>1 DEF ReadsBack
    <2> DEFINE u == Encoding!NumberOf(b, w.little)
    <2>3. u \in 0..(P[n] - 1) /\ \E q \in Int : v = q * P[n] + u
        <3> HIDE DEF n, v, b
        <3> QED BY <2>0, <2>1 DEF ReadsBack
    <2>4. Encoding!Decoded(b, w) = IF w.signed THEN IF 2 * u >= P[n] THEN u - P[n] ELSE u ELSE u
        BY <1>3 DEF Encoding!Decoded, Encoding!Signed
    <2> HIDE DEF b, u, n, v, P
    <2>5. P[n] \in Nat \ {0}
        BY <1>2
    <2>6. /\ 0 <= v /\ v < P[n] => v = u
          /\ -P[n] <= 2 * v /\ 2 * v < P[n] => v = IF 2 * u >= P[n] THEN u - P[n] ELSE u
        BY <1>1, <2>3, <2>5, NearMultiple
    <2>7. Encoding!Decoded(b, w) = v
        BY <1>1, <2>4, <2>6
    <2> QED BY <2>2, <2>7 DEF b, n, v
<1>4. CASE n = 8
    <2> DEFINE F == P[4]
               lo == v % F
               hi == v \div F
               x == Encoding!BytesOf(lo, 4, w.little)
               y == Encoding!BytesOf(hi, 4, w.little)
    <2>1. F \in Nat \ {0} /\ P[8] = F * F
        BY <1>2, EightIsTwoFours
    <2>2. 0 <= v /\ v < F * F /\ v \in Int
        BY <1>1, <1>4, <2>1
    <2>3. hi \in Int /\ lo \in 0..(F - 1) /\ v = hi * F + lo
        <3> HIDE DEF F, v
        <3>1. F \in Nat /\ F >= 1
            BY <2>1
        <3> QED BY <2>2, <3>1, Divided
    <2>4. b = IF w.little THEN x \o y ELSE y \o x
        <3>1. b = Encoding!SetUint64(v, w.little)
            BY <1>4 DEF Encoding!Encoded
        <3> HIDE DEF v
        <3>2. Encoding!SetUint64(v, w.little) = IF w.little THEN x \o y ELSE y \o x
            <4>1. CASE w.little
                <5>1. w.little = TRUE
                    BY <1>1, <4>1
                <5> QED BY <5>1 DEF Encoding!SetUint64
            <4>2. CASE ~w.little
                <5>1. w.little = FALSE
                    BY <1>1, <4>2
                <5> QED BY <5>1 DEF Encoding!SetUint64
            <4> QED BY <4>1, <4>2, <1>1
        <3> QED BY <3>1, <3>2
    <2> DEFINE g == Encoding!NumberOf(x, w.little)
               h == Encoding!NumberOf(y, w.little)
    <2>5. 4 \in 1..8
        OBVIOUS
    <2>6. /\ x \in Seq(0..(ByteValues - 1)) /\ Len(x) = 4 /\ g \in 0..(F - 1)
          /\ \E q \in Int : lo = q * F + g
        <3> HIDE DEF v, lo
        <3>1. lo \in Int
            BY <2>1, <2>3
        <3>2. ReadsBack(lo, 4, w.little)
            BY <1>1, <2>5, <3>1, NumberReadsBack
        <3> QED BY <3>2 DEF ReadsBack
    <2>7. /\ y \in Seq(0..(ByteValues - 1)) /\ Len(y) = 4 /\ h \in 0..(F - 1)
          /\ \E q \in Int : hi = q * F + h
        <3> HIDE DEF v, hi
        <3>1. ReadsBack(hi, 4, w.little)
            BY <1>1, <2>3, <2>5, NumberReadsBack
        <3> QED BY <3>1 DEF ReadsBack
    <2> DEFINE D == Encoding!Decoded(b, w)
    <2>8. D = IF w.little THEN Encoding!NumberOf(SubSeq(b, 1, 4), w.little) + Encoding!NumberOf(SubSeq(b, 5, 8), w.little) * F
              ELSE Encoding!NumberOf(SubSeq(b, 1, 4), w.little) * F + Encoding!NumberOf(SubSeq(b, 5, 8), w.little)
        BY <1>4 DEF Encoding!Decoded, Encoding!GetUint64
    <2>9. /\ b \in Seq(0..(ByteValues - 1)) /\ Len(b) = 8
          /\ D = IF w.little THEN g + h * F ELSE h * F + g
        <3> HIDE DEF b, x, y, v, F, D
        <3>1. CASE w.little
            <4>1. /\ b = x \o y /\ SubSeq(b, 1, 4) = x /\ SubSeq(b, 5, 8) = y
                  /\ b \in Seq(0..(ByteValues - 1)) /\ Len(b) = 8
                BY <2>4, <2>6, <2>7, <3>1, Halves
            <4> QED BY <2>8, <3>1, <4>1
        <3>2. CASE ~w.little
            <4>1. /\ b = y \o x /\ SubSeq(b, 1, 4) = y /\ SubSeq(b, 5, 8) = x
                  /\ b \in Seq(0..(ByteValues - 1)) /\ Len(b) = 8
                BY <2>4, <2>6, <2>7, <3>2, Halves
            <4> QED BY <2>8, <3>2, <4>1
        <3> QED BY <3>1, <3>2, <1>1
    <2> HIDE DEF F, lo, hi, g, h, v, D, b, x, y
    <2>10. 0 <= hi /\ hi < F
        <3>1. hi >= F => hi * F >= F * F
            BY <2>1, <2>3
        <3>2. hi <= -1 => hi * F <= (-1) * F
            BY <2>1, <2>3
        <3>3. hi <= -1 => hi * F <= -F
            BY <3>2, <2>1
        <3>4. hi * F \in Int /\ F * F \in Int
            BY <2>1, <2>3
        <3> QED BY <2>1, <2>2, <2>3, <3>1, <3>3, <3>4
    <2>11. lo = g
        BY <2>1, <2>3, <2>6, NearMultiple
    <2>12. hi = h
        BY <2>1, <2>3, <2>7, <2>10, NearMultiple
    <2>13. D = v
        <3>1. h * F \in Int /\ g \in Int
            BY <2>1, <2>6, <2>7
        <3> QED BY <2>3, <2>9, <2>11, <2>12, <3>1
    <2> QED BY <1>4, <2>9, <2>13 DEF b, v, D
<1> QED BY <1>3, <1>4

\* The two halves of a number of 64 bits give it back.
LEMMA Int64Back ==
    ASSUME EncodingConstants, NEW v \in 0..(MaxHi * Encoding!Power[4] - 1)
    PROVE  Encoding!Int64Value(Encoding!Int64From(v)) = v /\ Encoding!Int64From(v).hi < MaxHi
<1> DEFINE F == Encoding!Power[4]
           lo == v % F
           x == Encoding!Int64From(v)
           hi == x.hi
<1>1. F \in Nat \ {0} /\ MaxHi \in Nat
    BY PowerSteps DEF EncodingConstants
<1>2. x.lo = lo /\ x.hi = (v - lo) \div F
    BY DEF Encoding!Int64From
<1>3. Encoding!Int64Value(x) = IF hi # 0 THEN hi * F + x.lo ELSE x.lo
    BY DEF Encoding!Int64Value
<1> HIDE DEF x, F
<1>4. v \in Nat /\ v < MaxHi * F
    BY <1>1 DEF F
<1> DEFINE q == v \div F
<1>5. q \in Int /\ lo \in 0..(F - 1) /\ v = q * F + lo
    BY <1>1, <1>4, Divided
<1>6. hi = q
    <2> HIDE DEF q, lo, hi
    <2>1. v - lo = q * F + 0
        BY <1>1, <1>4, <1>5
    <2>2. v - lo \in Int /\ 0 \in 0..(F - 1)
        BY <1>1, <1>4, <1>5
    <2>3. (v - lo) \div F = q
        BY <1>1, <1>5, <2>1, <2>2, DividedOnce
    <2> QED BY <1>2, <2>3 DEF hi
<1> HIDE DEF q, lo, hi
<1>7. hi * F + lo = v /\ (hi = 0 => lo = v)
    BY <1>1, <1>4, <1>5, <1>6
<1>8. hi < MaxHi
    <2>1. q >= MaxHi => q * F >= MaxHi * F
        BY <1>1, <1>5
    <2>2. q * F \in Int /\ MaxHi * F \in Int
        BY <1>1, <1>5
    <2> QED BY <1>1, <1>4, <1>5, <1>6, <2>1, <2>2
<1> QED BY <1>2, <1>3, <1>7, <1>8 DEF x, hi

\* Hexadecimal digits give the bytes back.
LEMMA HexBack ==
    ASSUME ByteConstants, NEW b \in Seq(0..(ByteValues - 1))
    PROVE  Encoding!HexToBytes(Encoding!BytesToHex(b)) = b
<1> DEFINE D == Encoding!Digit
           n == Len(b)
           h == Encoding!BytesToHex(b)
<1>1. D \in 1..ByteValues /\ D * D = ByteValues
    BY DEF ByteConstants, Encoding!Digit
<1>2. n \in Nat /\ b = [i \in 1..n |-> b[i]] /\ \A i \in 1..n : b[i] \in 0..(ByteValues - 1)
    <2>1. n \in Nat /\ DOMAIN b = 1..n /\ \A i \in 1..n : b[i] \in 0..(ByteValues - 1)
        BY Elements
    <2>2. b = [i \in DOMAIN b |-> b[i]]
        OBVIOUS
    <2> QED BY <2>1, <2>2
<1> HIDE DEF D, n
<1>3. D \in Nat /\ D >= 1
    BY <1>1, ByteBounds
<1>4. ASSUME NEW i \in 1..n
      PROVE  /\ b[i] \div D \in Int /\ b[i] % D \in Int
             /\ b[i] = (b[i] \div D) * D + (b[i] % D)
    <2> DEFINE v == b[i]
    <2>1. v \in Int
        BY <1>2, ByteBounds
    <2> HIDE DEF v
    <2>2. v \div D \in Int /\ v % D \in 0..(D - 1) /\ v = (v \div D) * D + (v % D)
        BY <1>3, <2>1, Divided
    <2>3. v % D \in Int
        BY <1>3, <2>2
    <2> QED BY <2>2, <2>3 DEF v
<1>5. h = [i \in 1..(2 * n) |-> IF i % 2 = 1 THEN b[(i + 1) \div 2] \div D ELSE b[i \div 2] % D]
    BY DEF Encoding!BytesToHex, D, n
<1>6. ASSUME NEW i \in 1..n
      PROVE  /\ 2 * i - 1 \in 1..(2 * n) /\ (2 * i - 1) % 2 = 1 /\ ((2 * i - 1) + 1) \div 2 = i
             /\ 2 * i \in 1..(2 * n) /\ (2 * i) % 2 = 0 /\ (2 * i) \div 2 = i
    BY <1>2
<1>7. ASSUME NEW i \in 1..n PROVE h[2 * i - 1] = b[i] \div D /\ h[2 * i] = b[i] % D
    BY <1>5, <1>6
<1>8. h \in Seq(Int) /\ Len(h) = 2 * n
    <2>1. ASSUME NEW i \in 1..(2 * n)
          PROVE  (IF i % 2 = 1 THEN b[(i + 1) \div 2] \div D ELSE b[i \div 2] % D) \in Int
        <3>1. CASE i % 2 = 1
            <4>1. (i + 1) \div 2 \in 1..n
                BY <1>2, <3>1
            <4> QED BY <1>4, <3>1, <4>1
        <3>2. CASE i % 2 # 1
            <4>1. i \div 2 \in 1..n
                BY <1>2, <3>2
            <4> QED BY <1>4, <3>2, <4>1
        <3> QED BY <3>1, <3>2
    <2>2. 2 * n \in Nat
        BY <1>2
    <2> QED BY <1>5, <2>1, <2>2
<1> HIDE DEF h
<1>9. (2 * n + 1) \div 2 = n
    BY <1>2
<1>10. Encoding!HexToBytes(h)
        = [i \in 1..n |-> IF 2 * i <= 2 * n THEN h[2 * i - 1] * D + h[2 * i] ELSE h[2 * i - 1]]
    BY <1>8, <1>9 DEF Encoding!HexToBytes, D
<1>11. ASSUME NEW i \in 1..n
       PROVE  (IF 2 * i <= 2 * n THEN h[2 * i - 1] * D + h[2 * i] ELSE h[2 * i - 1]) = b[i]
    <2>1. 2 * i <= 2 * n
        BY <1>2
    <2> QED BY <1>4, <1>7, <2>1
<1>12. Encoding!HexToBytes(h) = b
    BY <1>2, <1>10, <1>11
<1> QED BY <1>12 DEF h

\* What is padded for base64 has the length it had.
LEMMA Base64Back ==
    ASSUME NEW n \in Nat
    PROVE  Encoding!Base64UrlToBytes(Encoding!BytesToBase64Url(n)) = n
<1>1. PICK q \in Nat, r \in 0..2 : n = 3 * q + r
    <2>1. n \div 3 \in Nat /\ n % 3 \in 0..2 /\ n = 3 * (n \div 3) + (n % 3)
        OBVIOUS
    <2> QED BY <2>1
<1> DEFINE c == Encoding!BytesToBase64Url(n)
<1>2. c = 4 * ((n + 2) \div 3) - ((3 - (n % 3)) % 3)
    BY DEF Encoding!BytesToBase64Url, Encoding!Base64Length, Encoding!Base64Pad
<1> HIDE DEF c
<1>3. Encoding!Base64UrlToBytes(c)
        = ((c + ((4 - (c % 4)) % 4)) \div 4) * 3 - ((c + ((4 - (c % 4)) % 4)) - c)
    BY DEF Encoding!Base64UrlToBytes
<1>4. CASE r = 0
    <2>1. c = 4 * q
        BY <1>1, <1>2, <1>4
    <2>2. c + ((4 - (c % 4)) % 4) = 4 * q
        BY <2>1
    <2> QED BY <1>1, <1>3, <1>4, <2>1, <2>2 DEF c
<1>5. CASE r = 1
    <2>1. c = 4 * q + 2
        BY <1>1, <1>2, <1>5
    <2>2. c + ((4 - (c % 4)) % 4) = 4 * q + 4
        BY <2>1
    <2> QED BY <1>1, <1>3, <1>5, <2>1, <2>2 DEF c
<1>6. CASE r = 2
    <2>1. c = 4 * q + 3
        BY <1>1, <1>2, <1>6
    <2>2. c + ((4 - (c % 4)) % 4) = 4 * q + 4
        BY <2>1
    <2> QED BY <1>1, <1>3, <1>6, <2>1, <2>2 DEF c
<1> QED BY <1>4, <1>5, <1>6

-----------------------------------------------------------------------------
(* Encodings: streams that grow.                                           *)

ByteSet == 0..(ByteValues - 1)
Grown(length, wanted) ==
    CHOOSE after : after = [k \in 0..wanted |->
        IF k = 0 THEN length ELSE Encoding!DoubledOnce(after[k - 1], wanted)]

\* A buffer that is doubled often enough holds what is wanted.
LEMMA GrownEnough ==
    ASSUME NEW length \in Nat, length >= 1, NEW wanted \in Nat
    PROVE  /\ Encoding!Doubled(length, wanted) \in Nat
           /\ Encoding!Doubled(length, wanted) >= wanted /\ Encoding!Doubled(length, wanted) >= length
<1> DEFINE S == Nat \ {0}
           Once(x) == Encoding!DoubledOnce(x, wanted)
           G == [p \in (1..wanted) \X S |-> Once(p[2])]
           Is(f) == f = [k \in 0..wanted |-> IF k = 0 THEN length ELSE Once(f[k - 1])]
<1>0. \A x \in S : Once(x) = (IF x < wanted THEN 2 * x ELSE x) /\ Once(x) \in S
    BY DEF Encoding!DoubledOnce
<1> HIDE DEF Once
<1>1. StepsOn(G, wanted, S)
    <2> HIDE DEF S
    <2>1. ASSUME NEW p \in (1..wanted) \X S PROVE Once(p[2]) \in S
        BY <1>0
    <2> QED BY <2>1 DEF StepsOn
<1>2. \A k \in 1..wanted, x \in S : G[<<k, x>>] = Once(x)
    OBVIOUS
<1> HIDE DEF G
<1>3. length \in S
    OBVIOUS
<1>4. PICK f : Iterates(f, wanted, S, length, G)
    <2> HIDE DEF S
    <2> QED BY <1>1, <1>3, Iterated
<1>5. f \in [0..wanted -> S] /\ f[0] = length /\ \A k \in 1..wanted : f[k] = Once(f[k - 1])
    <2>1. f \in [0..wanted -> S] /\ f[0] = length /\ \A k \in 1..wanted : f[k] = G[<<k, f[k - 1]>>]
        BY <1>4 DEF Iterates
    <2>2. ASSUME NEW k \in 1..wanted PROVE f[k] = Once(f[k - 1])
        <3>1. k - 1 \in 0..wanted
            OBVIOUS
        <3> HIDE DEF S
        <3>2. f[k - 1] \in S /\ f[k] = G[<<k, f[k - 1]>>]
            BY <2>1, <3>1
        <3> QED BY <3>2, <1>2
    <2> QED BY <2>1, <2>2
<1>6. Is(f)
    <2>1. ASSUME NEW k \in 0..wanted PROVE f[k] = IF k = 0 THEN length ELSE Once(f[k - 1])
        <3>1. CASE k = 0
            BY <3>1, <1>5
        <3>2. CASE k # 0
            <4>1. k \in 1..wanted
                BY <3>2
            <4> QED BY <4>1, <3>2, <1>5
        <3> QED BY <3>1, <3>2
    <2> QED BY <1>5, <2>1
<1> DEFINE r == Grown(length, wanted)
<1>7. Is(r)
    <2> HIDE DEF Is
    <2>1. Is(CHOOSE g : Is(g))
        BY <1>6
    <2> QED BY <2>1 DEF Grown, Is, Once
<1> HIDE DEF r
<1>8. r[0] = length /\ \A k \in 1..wanted : r[k] = Once(r[k - 1])
    <2>1. ASSUME NEW k \in 0..wanted PROVE r[k] = IF k = 0 THEN length ELSE Once(r[k - 1])
        BY <1>7
    <2>2. 0 \in 0..wanted /\ \A k \in 1..wanted : k \in 0..wanted /\ k # 0
        OBVIOUS
    <2> QED BY <2>1, <2>2
<1>9. \A k \in 0..wanted : r[k] \in S /\ r[k] >= length /\ (r[k] >= wanted \/ r[k] >= length + k)
    <2> DEFINE T == {k \in 0..wanted : r[k] \in S /\ r[k] >= length /\ (r[k] >= wanted \/ r[k] >= length + k)}
    <2>1. 0 \in T
        BY <1>8
    <2>2. ASSUME NEW k \in 1..wanted, k - 1 \in T PROVE k \in T
        <3> DEFINE x == r[k - 1]
        <3>1. x \in Nat \ {0} /\ x >= length /\ (x >= wanted \/ x >= length + (k - 1))
            BY <2>2
        <3>2. r[k] = Once(x)
            BY <1>8
        <3>3. r[k] = IF x < wanted THEN 2 * x ELSE x
            BY <3>1, <3>2, <1>0
        <3> HIDE DEF x
        <3>4. r[k] \in Nat \ {0} /\ r[k] >= length /\ (r[k] >= wanted \/ r[k] >= length + k)
            BY <3>1, <3>3
        <3> QED BY <3>4
    <2> HIDE DEF T
    <2>3. \A k \in 0..wanted : k \in T
        BY <2>1, <2>2, StepByStep
    <2> QED BY <2>3 DEF T
<1>10. Encoding!Doubled(length, wanted) = r[wanted]
    BY DEF Encoding!Doubled, Grown, r
<1>11. wanted \in 0..wanted
    OBVIOUS
<1> QED BY <1>9, <1>10, <1>11

\* A stream that is written: a buffer of at least a byte, filled up to pos.
Streams == [data : Seq(ByteSet), pos : Nat, grows : BOOLEAN]
Writable(s) == s \in Streams /\ s.grows = TRUE /\ Len(s.data) >= 1 /\ s.pos <= Len(s.data)

LEMMA PartOf ==
    ASSUME NEW S, NEW s \in Seq(S), NEW m \in 1..(Len(s) + 1), NEW n \in (m - 1)..Len(s)
    PROVE  /\ SubSeq(s, m, n) \in Seq(S) /\ Len(SubSeq(s, m, n)) = n - m + 1
           /\ \A i \in 1..(n - m + 1) : SubSeq(s, m, n)[i] = s[m + i - 1]
<1>1. Len(s) \in Nat
    OBVIOUS
<1>2. m \in Int /\ n \in Int /\ n - m + 1 >= 0
    BY <1>1
<1>3. \A i \in m..n : s[i] \in S
    <2>1. \A i \in m..n : i \in 1..Len(s)
        BY <1>1
    <2> QED BY <2>1, Elements
<1>4. /\ SubSeq(s, m, n) \in Seq(S)
      /\ Len(SubSeq(s, m, n)) = IF m <= n THEN n - m + 1 ELSE 0
      /\ \A i \in 1..(n - m + 1) : SubSeq(s, m, n)[i] = s[m + i - 1]
    BY <1>2, <1>3, SubSeqProperties
<1> QED BY <1>1, <1>2, <1>4

LEMMA Together ==
    ASSUME NEW S, NEW x \in Seq(S), NEW y \in Seq(S)
    PROVE  /\ x \o y \in Seq(S) /\ Len(x \o y) = Len(x) + Len(y)
           /\ \A i \in 1..Len(x) : (x \o y)[i] = x[i]
           /\ \A i \in 1..Len(y) : (x \o y)[Len(x) + i] = y[i]
<1>1. Len(x) \in Nat /\ Len(y) \in Nat
    OBVIOUS
<1>2. /\ x \o y \in Seq(S) /\ Len(x \o y) = Len(x) + Len(y)
      /\ \A i \in 1..(Len(x) + Len(y)) : (x \o y)[i] = IF i <= Len(x) THEN x[i] ELSE y[i - Len(x)]
    BY ConcatProperties
<1>3. \A i \in 1..Len(x) : i \in 1..(Len(x) + Len(y)) /\ i <= Len(x)
    BY <1>1
<1>4. \A i \in 1..Len(y) : Len(x) + i \in 1..(Len(x) + Len(y)) /\ ~(Len(x) + i <= Len(x)) /\ (Len(x) + i) - Len(x) = i
    BY <1>1
<1> QED BY <1>2, <1>3, <1>4

\* After it is checked, a stream has room for n more bytes and the bytes that it had.
LEMMA RoomForMore ==
    ASSUME ByteConstants, NEW s, Writable(s), NEW n \in Nat, NEW t, t = Encoding!CheckCapacity(s, n)
    PROVE  /\ Writable(t) /\ t.pos = s.pos /\ t.pos + n <= Len(t.data)
           /\ \A i \in 1..s.pos : t.data[i] = s.data[i]
<1>1. PICK data \in Seq(ByteSet), pos \in Nat : s = [data |-> data, pos |-> pos, grows |-> TRUE]
    BY DEF Writable, Streams
<1>2. /\ s.data = data /\ s.pos = pos /\ s.grows = TRUE
      /\ Len(data) \in Nat /\ Len(data) >= 1 /\ pos <= Len(data)
    BY <1>1 DEF Writable
<1>3. CASE Len(data) - pos >= n
    <2>1. t = s
        BY <1>2, <1>3 DEF Encoding!CheckCapacity
    <2>2. s.pos + n <= Len(s.data)
        BY <1>2, <1>3
    <2> QED BY <2>1, <2>2
<1>4. CASE ~(Len(data) - pos >= n)
    <2> DEFINE size == Encoding!Doubled(Len(data), pos + n)
               zeros == Encoding!Zeros(size - Len(data))
               all == data \o zeros
    <2>1. t = [data |-> all, pos |-> pos, grows |-> TRUE]
        BY <1>1, <1>2, <1>4 DEF Encoding!CheckCapacity
    <2>2. size \in Nat /\ size >= pos + n /\ size >= Len(data)
        <3> DEFINE wanted == pos + n
        <3>1. wanted \in Nat /\ Len(data) \in Nat /\ Len(data) >= 1
            BY <1>2
        <3>2. size = Encoding!Doubled(Len(data), wanted)
            OBVIOUS
        <3> HIDE DEF wanted, size
        <3>3. size \in Nat /\ size >= wanted /\ size >= Len(data)
            BY <3>1, <3>2, GrownEnough
        <3> QED BY <3>3 DEF wanted
    <2> HIDE DEF size
    <2>3. zeros \in Seq(ByteSet) /\ Len(zeros) = size - Len(data)
        <3>1. 0 \in ByteSet /\ size - Len(data) \in Nat
            BY <1>2, <2>2, ByteBounds DEF ByteSet
        <3> QED BY <3>1 DEF Encoding!Zeros
    <2> HIDE DEF zeros
    <2>4. all \in Seq(ByteSet) /\ Len(all) = Len(data) + Len(zeros) /\ \A i \in 1..Len(data) : all[i] = data[i]
        BY <2>3, Together
    <2> HIDE DEF all
    <2>5. t.data = all /\ t.pos = pos /\ t.grows = TRUE /\ t \in Streams
        BY <2>1, <2>4 DEF Streams
    <2>6. Len(all) = size
        BY <1>2, <2>2, <2>3, <2>4
    <2>7. Writable(t) /\ pos + n <= Len(all)
        BY <1>2, <2>2, <2>5, <2>6 DEF Writable
    <2>8. \A i \in 1..pos : all[i] = data[i]
        BY <1>2, <2>4
    <2> QED BY <1>2, <2>5, <2>7, <2>8
<1> QED BY <1>3, <1>4

\* What is written stands after what was written before, which stays.
LEMMA WrittenAfter ==
    ASSUME ByteConstants, NEW s, Writable(s), NEW b \in Seq(ByteSet), NEW r, r = Encoding!WriteBytes(s, b)
    PROVE  /\ Writable(r) /\ r.pos = s.pos + Len(b)
           /\ \A i \in 1..s.pos : r.data[i] = s.data[i]
           /\ \A i \in 1..Len(b) : r.data[s.pos + i] = b[i]
<1> DEFINE t == Encoding!CheckCapacity(s, Len(b))
           n == Len(b)
<1>0. n \in Nat
    OBVIOUS
<1>1. /\ Writable(t) /\ t.pos = s.pos /\ t.pos + n <= Len(t.data)
      /\ \A i \in 1..s.pos : t.data[i] = s.data[i]
    BY <1>0, RoomForMore
<1>2. r = IF t.pos + n > Len(t.data) THEN t
          ELSE [t EXCEPT !.data = (SubSeq(@, 1, t.pos) \o b) \o SubSeq(@, t.pos + n + 1, Len(@)),
                         !.pos = @ + n]
    BY DEF Encoding!WriteBytes
<1> HIDE DEF t
<1>3. PICK data \in Seq(ByteSet), pos \in Nat : t = [data |-> data, pos |-> pos, grows |-> TRUE]
    BY <1>1 DEF Writable, Streams
<1>4. /\ t.data = data /\ t.pos = pos /\ s.pos = pos /\ Len(data) \in Nat /\ Len(data) >= 1
      /\ pos <= Len(data) /\ pos + n <= Len(data) /\ \A i \in 1..pos : data[i] = s.data[i]
    BY <1>1, <1>3 DEF Writable
<1> DEFINE x == SubSeq(data, 1, pos)
           y == SubSeq(data, pos + n + 1, Len(data))
           all == (x \o b) \o y
<1>5. x \in Seq(ByteSet) /\ Len(x) = pos /\ \A i \in 1..pos : x[i] = data[i]
    <2>1. 1 \in 1..(Len(data) + 1) /\ pos \in (1 - 1)..Len(data) /\ pos - 1 + 1 = pos
        BY <1>4
    <2>2. \A i \in 1..pos : 1 + i - 1 = i
        OBVIOUS
    <2> QED BY <2>1, <2>2, PartOf
<1>6. y \in Seq(ByteSet) /\ Len(y) = Len(data) - (pos + n)
    <2>1. pos + n + 1 \in 1..(Len(data) + 1) /\ Len(data) \in ((pos + n + 1) - 1)..Len(data)
        BY <1>0, <1>4
    <2>2. y \in Seq(ByteSet) /\ Len(y) = Len(data) - (pos + n + 1) + 1
        BY <2>1, PartOf
    <2> QED BY <1>0, <1>4, <2>2
<1> HIDE DEF x, y
<1>7. /\ x \o b \in Seq(ByteSet) /\ Len(x \o b) = pos + n
      /\ \A i \in 1..pos : (x \o b)[i] = x[i]
      /\ \A i \in 1..n : (x \o b)[pos + i] = b[i]
    <2>1. /\ x \o b \in Seq(ByteSet) /\ Len(x \o b) = Len(x) + Len(b)
          /\ \A i \in 1..Len(x) : (x \o b)[i] = x[i]
          /\ \A i \in 1..Len(b) : (x \o b)[Len(x) + i] = b[i]
        <3>1. x \in Seq(ByteSet) /\ b \in Seq(ByteSet)
            BY <1>5
        <3> QED BY ONLY <3>1, Together
    <2> QED BY <1>5, <2>1
<1>8. /\ all \in Seq(ByteSet) /\ Len(all) = Len(data)
      /\ \A i \in 1..pos : all[i] = data[i]
      /\ \A i \in 1..n : all[pos + i] = b[i]
    <2>1. /\ all \in Seq(ByteSet) /\ Len(all) = Len(x \o b) + Len(y)
          /\ \A i \in 1..Len(x \o b) : all[i] = (x \o b)[i]
        <3> DEFINE z == x \o b
        <3>1. z \in Seq(ByteSet)
            BY <1>7
        <3> HIDE DEF z
        <3>2. /\ z \o y \in Seq(ByteSet) /\ Len(z \o y) = Len(z) + Len(y)
              /\ \A i \in 1..Len(z) : (z \o y)[i] = z[i]
            BY <1>6, <3>1, Together
        <3> QED BY <3>2 DEF z
    <2>2. \A i \in 1..pos : i \in 1..(pos + n)
        BY <1>0
    <2>3. \A i \in 1..n : pos + i \in 1..(pos + n)
        BY <1>0
    <2>4. Len(all) = Len(data)
        BY <1>0, <1>4, <1>6, <1>7, <2>1
    <2> HIDE DEF all
    <2> QED BY <1>5, <1>7, <2>1, <2>2, <2>3, <2>4
<1> HIDE DEF all
<1>9. r = [data |-> all, pos |-> pos + n, grows |-> TRUE]
    <2>1. ~(t.pos + n > Len(t.data))
        BY <1>0, <1>4
    <2> QED BY <1>2, <1>3, <1>4, <2>1 DEF all, x, y
<1>10. r.data = all /\ r.pos = pos + n /\ Writable(r)
    BY <1>0, <1>4, <1>8, <1>9 DEF Writable, Streams
<1> QED BY <1>4, <1>8, <1>10

\* What a stream was given, the bytes it is and what is to be read of it.
StreamItems ==
    {[is |-> "number", number |-> w, bytes |-> <<>>] : w \in StreamNumbers}
    \cup {[is |-> "bytes", number |-> <<>>, bytes |-> b] : b \in StreamTexts}
BytesPut(x) == IF x.is = "bytes" THEN x.bytes ELSE Encoding!Encoded(x.number)
ValueGot(x) == IF x.is = "bytes" THEN x.bytes ELSE <<x.number.value>>

\* The bytes of one after the other, each at its place in the data.
StandsAt(data, p, b) == \A j \in 1..Len(b) : data[p + j] = b[j]
Packed(w, data, at, end) ==
    /\ at \in [1..(Len(w) + 1) -> 0..end] /\ at[1] = 0 /\ at[Len(w) + 1] = end
    /\ \A i \in 1..Len(w) :
        at[i + 1] = at[i] + Len(BytesPut(w[i])) /\ StandsAt(data, at[i], BytesPut(w[i]))

LEMMA ItemBytes ==
    ASSUME EncodingConstants, NEW x \in StreamItems
    PROVE  /\ BytesPut(x) \in Seq(ByteSet)
           /\ x.is = "bytes" => ValueGot(x) = BytesPut(x) /\ x.bytes = BytesPut(x)
           /\ x.is # "bytes" => /\ x.number \in StreamNumbers /\ x.number.bytes = Len(BytesPut(x))
                                /\ ValueGot(x) = <<Encoding!Decoded(BytesPut(x), x.number)>>
<1>1. CASE \E w \in StreamNumbers : x = [is |-> "number", number |-> w, bytes |-> <<>>]
    <2>1. PICK w \in StreamNumbers : x = [is |-> "number", number |-> w, bytes |-> <<>>]
        BY <1>1
    <2>2. x.is = "number" /\ x.number = w
        BY <2>1
    <2>3. Fits(w) /\ ByteConstants
        BY DEF EncodingConstants
    <2>4. BytesPut(x) = Encoding!Encoded(w) /\ ValueGot(x) = <<w.value>> /\ x.is # "bytes"
        BY <2>2 DEF BytesPut, ValueGot
    <2> QED BY <2>2, <2>3, <2>4, CodedBack DEF ByteSet
<1>2. CASE \E b \in StreamTexts : x = [is |-> "bytes", number |-> <<>>, bytes |-> b]
    <2>1. PICK b \in StreamTexts : x = [is |-> "bytes", number |-> <<>>, bytes |-> b]
        BY <1>2
    <2>2. x.is = "bytes" /\ x.bytes = b /\ b \in Seq(ByteSet)
        BY <2>1 DEF EncodingConstants, ByteSet
    <2> QED BY <2>2 DEF BytesPut, ValueGot
<1> QED BY <1>1, <1>2 DEF StreamItems

LEMMA OneMoreItem ==
    ASSUME EncodingConstants, NEW s, Writable(s), NEW w \in Seq(StreamItems), NEW at, Packed(w, s.data, at, s.pos),
           NEW x \in StreamItems, NEW r, r = Encoding!WriteBytes(s, BytesPut(x))
    PROVE  Writable(r) /\ \E to : Packed(Append(w, x), r.data, to, r.pos)
<1> DEFINE b == BytesPut(x)
           n == Len(w)
           m == Len(b)
           v == Append(w, x)
           to == [i \in 1..(n + 2) |-> IF i = n + 2 THEN r.pos ELSE at[i]]
<1>1. b \in Seq(ByteSet) /\ m \in Nat /\ n \in Nat /\ s.pos \in Nat
    BY ItemBytes DEF Writable, Streams
<1>2. /\ Writable(r) /\ r.pos = s.pos + m
      /\ \A i \in 1..s.pos : r.data[i] = s.data[i]
      /\ \A i \in 1..m : r.data[s.pos + i] = b[i]
    <2>1. ByteConstants
        BY DEF EncodingConstants
    <2> QED BY <1>1, <2>1, WrittenAfter
<1>3. /\ at \in [1..(n + 1) -> 0..s.pos] /\ at[1] = 0 /\ at[n + 1] = s.pos
      /\ \A i \in 1..n : at[i + 1] = at[i] + Len(BytesPut(w[i])) /\ StandsAt(s.data, at[i], BytesPut(w[i]))
    BY DEF Packed
<1>4. Len(v) = n + 1 /\ v[n + 1] = x /\ \A i \in 1..n : v[i] = w[i]
    BY AppendProperties
<1> HIDE DEF n, m, v, b
<1>5. to \in [1..(n + 2) -> 0..r.pos] /\ to[1] = 0 /\ to[n + 2] = r.pos /\ \A i \in 1..(n + 1) : to[i] = at[i]
    <2>1. ASSUME NEW i \in 1..(n + 2) PROVE (IF i = n + 2 THEN r.pos ELSE at[i]) \in 0..r.pos
        <3>1. CASE i = n + 2
            BY <1>1, <1>2, <3>1
        <3>2. CASE i # n + 2
            <4>1. i \in 1..(n + 1)
                BY <1>1, <3>2
            <4>2. at[i] \in 0..s.pos
                BY <1>3, <4>1
            <4> QED BY <1>1, <1>2, <3>2, <4>2
        <3> QED BY <3>1, <3>2
    <2>2. 1 \in 1..(n + 1) /\ 1 \in 1..(n + 2) /\ 1 # n + 2 /\ n + 2 \in 1..(n + 2)
        BY <1>1
    <2>3. \A i \in 1..(n + 1) : i \in 1..(n + 2) /\ i # n + 2
        BY <1>1
    <2> QED BY <1>3, <2>1, <2>2, <2>3
<1> HIDE DEF to
<1>6. ASSUME NEW i \in 1..(n + 1)
      PROVE  to[i + 1] = to[i] + Len(BytesPut(v[i])) /\ StandsAt(r.data, to[i], BytesPut(v[i]))
    <2>1. CASE i = n + 1
        <3>1. to[i + 1] = r.pos /\ to[i] = s.pos /\ BytesPut(v[i]) = b
            BY <1>1, <1>3, <1>4, <1>5, <2>1 DEF b
        <3> QED BY <1>2, <3>1 DEF StandsAt, m
    <2>2. CASE i # n + 1
        <3>1. i \in 1..n /\ i + 1 \in 1..(n + 1)
            BY <1>1, <2>2
        <3> DEFINE c == BytesPut(w[i])
        <3>2. to[i + 1] = at[i + 1] /\ to[i] = at[i] /\ BytesPut(v[i]) = c
            BY <1>4, <1>5, <3>1
        <3>3. at[i + 1] = at[i] + Len(c) /\ StandsAt(s.data, at[i], c) /\ at[i + 1] \in 0..s.pos /\ at[i] \in 0..s.pos
            BY <1>3, <3>1
        <3>4. c \in Seq(ByteSet)
            <4>1. w[i] \in StreamItems
                BY <3>1, Elements DEF n
            <4> QED BY <4>1, ItemBytes
        <3> HIDE DEF c
        <3>5. ASSUME NEW j \in 1..Len(c) PROVE r.data[at[i] + j] = c[j]
            <4>1. at[i] + j \in 1..s.pos
                BY <1>1, <3>3, <3>4
            <4>2. r.data[at[i] + j] = s.data[at[i] + j]
                BY <1>2, <4>1
            <4> QED BY <3>3, <4>2 DEF StandsAt
        <3>6. StandsAt(r.data, to[i], c)
            BY <3>2, <3>5 DEF StandsAt
        <3> QED BY <3>2, <3>3, <3>6
    <2> QED BY <2>1, <2>2
<1>7. (n + 1) + 1 = n + 2
    BY <1>1
<1>8. Packed(v, r.data, to, r.pos)
    BY <1>4, <1>5, <1>6, <1>7 DEF Packed
<1> QED BY <1>2, <1>8 DEF v

\* The bytes at a place are what is read there.
LEMMA ReadThere ==
    ASSUME NEW s \in Streams, NEW w \in Seq(StreamItems), NEW at, Packed(w, s.data, at, Len(s.data)),
           EncodingConstants, NEW i \in 1..Len(w), s.pos = at[i]
    PROVE  /\ Encoding!ReadBytes(s, Len(BytesPut(w[i]))) = BytesPut(w[i])
           /\ s.pos + Len(BytesPut(w[i])) = at[i + 1] /\ at[i + 1] <= Len(s.data)
<1> DEFINE b == BytesPut(w[i])
           d == s.data
           m == Len(b)
           l == Len(d)
<1>1. b \in Seq(ByteSet) /\ m \in Nat /\ d \in Seq(ByteSet) /\ l \in Nat
    <2>1. w[i] \in StreamItems
        BY Elements
    <2>2. b \in Seq(ByteSet) /\ d \in Seq(ByteSet)
        BY <2>1, ItemBytes DEF Streams
    <2> HIDE DEF b, d
    <2> QED BY <2>2
<1>2. /\ at[i] \in 0..l /\ at[i + 1] \in 0..l /\ at[i + 1] = at[i] + m /\ StandsAt(d, at[i], b)
    <2>1. i \in 1..(Len(w) + 1) /\ i + 1 \in 1..(Len(w) + 1)
        OBVIOUS
    <2> QED BY <2>1 DEF Packed
<1>3. Encoding!ReadBytes(s, m) = SubSeq(d, s.pos + 1, IF s.pos + m <= l THEN s.pos + m ELSE l)
    BY DEF Encoding!ReadBytes
<1> HIDE DEF b, d, m, l
<1> DEFINE p == at[i]
<1>4. Encoding!ReadBytes(s, m) = SubSeq(d, p + 1, p + m)
    <2>1. s.pos = p /\ p + m <= l
        BY <1>2
    <2> HIDE DEF p
    <2> QED BY <1>3, <2>1
<1>5. SubSeq(d, p + 1, p + m) = b
    <2>1. p + 1 \in 1..(Len(d) + 1) /\ p + m \in ((p + 1) - 1)..Len(d) /\ (p + m) - (p + 1) + 1 = m
        BY <1>1, <1>2 DEF l
    <2> DEFINE c == SubSeq(d, p + 1, p + m)
    <2> HIDE DEF p
    <2>2. c \in Seq(ByteSet) /\ Len(c) = (p + m) - (p + 1) + 1 /\ \A k \in 1..((p + m) - (p + 1) + 1) : c[k] = d[(p + 1) + k - 1]
        BY <1>1, <2>1, PartOf
    <2> HIDE DEF c
    <2>3. \A k \in 1..m : c[k] = b[k]
        <3>1. ASSUME NEW k \in 1..m PROVE c[k] = b[k]
            <4>1. (p + 1) + k - 1 = p + k
                BY <1>1, <1>2 DEF p
            <4> QED BY <1>2, <2>1, <2>2, <4>1 DEF StandsAt, m, p
        <3> QED BY <3>1
    <2>4. c \in Seq(ByteSet) /\ b \in Seq(ByteSet) /\ Len(c) = Len(b)
        BY <1>1, <2>1, <2>2 DEF m
    <2>5. c = b
        BY ONLY <2>3, <2>4 DEF m
    <2> QED BY <2>5 DEF c
<1> QED BY <1>2, <1>4, <1>5 DEF b, m, l, d

-----------------------------------------------------------------------------
(* Encodings: the rounds of a key.                                         *)

Blocks == 0..3
Rounds(x, n) == CHOOSE after : after = [k \in 0..n |-> IF k = 0 THEN x ELSE BlockCipher[after[k - 1]]]
Chain(iv, n) ==
    CHOOSE chain : chain = [k \in 0..(n + 1) |->
        IF k = 0 THEN iv ELSE BlockCipher[Encoding!Xor(IF k > n THEN Encoding!Padding ELSE 0, chain[k - 1])]]

LEMMA XorTyped ==
    \A a, b \in Blocks : Encoding!Xor(a, b) \in Blocks /\ Encoding!Xor(0, b) = b
BY DEF Encoding!Xor, Blocks

LEMMA RoundSteps ==
    ASSUME BlockCipher \in [Blocks -> Blocks], NEW x \in Blocks, NEW n \in Nat
    PROVE  /\ Rounds(x, n)[0] = x
           /\ \A k \in 1..n : Rounds(x, n)[k] = BlockCipher[Rounds(x, n)[k - 1]]
           /\ \A k \in 0..n : Rounds(x, n)[k] \in Blocks
<1> DEFINE G == [p \in (1..n) \X Blocks |-> BlockCipher[p[2]]]
           Is(f) == f = [k \in 0..n |-> IF k = 0 THEN x ELSE BlockCipher[f[k - 1]]]
<1>1. StepsOn(G, n, Blocks)
    <2>1. ASSUME NEW p \in (1..n) \X Blocks PROVE BlockCipher[p[2]] \in Blocks
        OBVIOUS
    <2> QED BY <2>1 DEF StepsOn
<1>2. \A k \in 1..n, b \in Blocks : G[<<k, b>>] = BlockCipher[b]
    OBVIOUS
<1> HIDE DEF G
<1>4. PICK f : Iterates(f, n, Blocks, x, G)
    BY <1>1, Iterated
<1>5. f \in [0..n -> Blocks] /\ f[0] = x /\ \A k \in 1..n : f[k] = BlockCipher[f[k - 1]]
    <2>1. f \in [0..n -> Blocks] /\ f[0] = x /\ \A k \in 1..n : f[k] = G[<<k, f[k - 1]>>]
        BY <1>4 DEF Iterates
    <2>2. ASSUME NEW k \in 1..n PROVE f[k] = BlockCipher[f[k - 1]]
        <3>1. k - 1 \in 0..n
            OBVIOUS
        <3>2. f[k - 1] \in Blocks /\ f[k] = G[<<k, f[k - 1]>>]
            BY <2>1, <3>1
        <3> QED BY <3>2, <1>2
    <2> QED BY <2>1, <2>2
<1>6. Is(f)
    <2>1. ASSUME NEW k \in 0..n PROVE f[k] = IF k = 0 THEN x ELSE BlockCipher[f[k - 1]]
        <3>1. CASE k = 0
            BY <3>1, <1>5
        <3>2. CASE k # 0
            <4>1. k \in 1..n
                BY <3>2
            <4> QED BY <4>1, <3>2, <1>5
        <3> QED BY <3>1, <3>2
    <2> QED BY <1>5, <2>1
<1> DEFINE r == Rounds(x, n)
<1>7. Is(r)
    <2> HIDE DEF Is
    <2>1. Is(CHOOSE g : Is(g))
        BY <1>6
    <2> QED BY <2>1 DEF Rounds, Is
<1> HIDE DEF r
<1>8. r[0] = x /\ \A k \in 1..n : r[k] = BlockCipher[r[k - 1]]
    <2>1. ASSUME NEW k \in 0..n PROVE r[k] = IF k = 0 THEN x ELSE BlockCipher[r[k - 1]]
        BY <1>7
    <2>2. 0 \in 0..n /\ \A k \in 1..n : k \in 0..n /\ k # 0
        OBVIOUS
    <2> QED BY <2>1, <2>2
<1>9. \A k \in 0..n : r[k] \in Blocks
    <2> DEFINE T == {k \in 0..n : r[k] \in Blocks}
    <2>1. 0 \in T
        BY <1>8
    <2>2. ASSUME NEW k \in 1..n, k - 1 \in T PROVE k \in T
        <3>1. k \in 0..n /\ r[k - 1] \in Blocks /\ r[k] = BlockCipher[r[k - 1]]
            BY <2>2, <1>8
        <3> QED BY <3>1
    <2> HIDE DEF T
    <2>3. \A k \in 0..n : k \in T
        BY <2>1, <2>2, StepByStep
    <2> QED BY <2>3 DEF T
<1> QED BY <1>8, <1>9 DEF r

LEMMA ChainSteps ==
    ASSUME BlockCipher \in [Blocks -> Blocks], NEW x \in Blocks, NEW n \in Nat
    PROVE  /\ Chain(x, n)[0] = x
           /\ \A k \in 1..n : Chain(x, n)[k] = BlockCipher[Chain(x, n)[k - 1]]
           /\ \A k \in 0..n : Chain(x, n)[k] \in Blocks
<1> DEFINE Plain(k) == IF k > n THEN Encoding!Padding ELSE 0
           Next1(k, b) == BlockCipher[Encoding!Xor(Plain(k), b)]
           G == [p \in (1..(n + 1)) \X Blocks |-> Next1(p[1], p[2])]
           Is(f) == f = [k \in 0..(n + 1) |-> IF k = 0 THEN x ELSE Next1(k, f[k - 1])]
<1>0. /\ \A k \in 1..(n + 1), b \in Blocks : Next1(k, b) \in Blocks
      /\ \A k \in 1..n, b \in Blocks : Next1(k, b) = BlockCipher[b]
    <2>1. \A k : Plain(k) \in Blocks
        BY DEF Encoding!Padding, Blocks
    <2>2. \A k \in 1..n : Plain(k) = 0
        OBVIOUS
    <2> HIDE DEF Plain
    <2>3. 0 \in Blocks
        BY DEF Blocks
    <2>4. ASSUME NEW k, NEW b \in Blocks PROVE Next1(k, b) \in Blocks
        BY <2>1, XorTyped
    <2>5. ASSUME NEW k \in 1..n, NEW b \in Blocks PROVE Next1(k, b) = BlockCipher[b]
        BY <2>2, <2>3, XorTyped
    <2> HIDE DEF Next1
    <2> QED BY <2>4, <2>5
<1> HIDE DEF Next1
<1>1. StepsOn(G, n + 1, Blocks)
    <2>1. ASSUME NEW p \in (1..(n + 1)) \X Blocks PROVE Next1(p[1], p[2]) \in Blocks
        BY <1>0
    <2> QED BY <2>1 DEF StepsOn
<1>2. \A k \in 1..(n + 1), b \in Blocks : G[<<k, b>>] = Next1(k, b)
    OBVIOUS
<1> HIDE DEF G
<1>3. n + 1 \in Nat
    OBVIOUS
<1>4. PICK f : Iterates(f, n + 1, Blocks, x, G)
    BY <1>1, <1>3, Iterated
<1>5. f \in [0..(n + 1) -> Blocks] /\ f[0] = x /\ \A k \in 1..(n + 1) : f[k] = Next1(k, f[k - 1])
    <2>1. f \in [0..(n + 1) -> Blocks] /\ f[0] = x /\ \A k \in 1..(n + 1) : f[k] = G[<<k, f[k - 1]>>]
        BY <1>4 DEF Iterates
    <2>2. ASSUME NEW k \in 1..(n + 1) PROVE f[k] = Next1(k, f[k - 1])
        <3>1. k - 1 \in 0..(n + 1)
            OBVIOUS
        <3>2. f[k - 1] \in Blocks /\ f[k] = G[<<k, f[k - 1]>>]
            BY <2>1, <3>1
        <3> QED BY <3>2, <1>2
    <2> QED BY <2>1, <2>2
<1>6. Is(f)
    <2>1. ASSUME NEW k \in 0..(n + 1) PROVE f[k] = IF k = 0 THEN x ELSE Next1(k, f[k - 1])
        <3>1. CASE k = 0
            BY <3>1, <1>5
        <3>2. CASE k # 0
            <4>1. k \in 1..(n + 1)
                BY <3>2
            <4> QED BY <4>1, <3>2, <1>5
        <3> QED BY <3>1, <3>2
    <2> QED BY <1>5, <2>1
<1> DEFINE r == Chain(x, n)
<1>7. Is(r)
    <2> HIDE DEF Is
    <2>1. Is(CHOOSE g : Is(g))
        BY <1>6
    <2> QED BY <2>1 DEF Chain, Is, Next1
<1> HIDE DEF r
<1>8. r[0] = x /\ \A k \in 1..(n + 1) : r[k] = Next1(k, r[k - 1])
    <2>1. ASSUME NEW k \in 0..(n + 1) PROVE r[k] = IF k = 0 THEN x ELSE Next1(k, r[k - 1])
        BY <1>7
    <2>2. 0 \in 0..(n + 1) /\ \A k \in 1..(n + 1) : k \in 0..(n + 1) /\ k # 0
        OBVIOUS
    <2> QED BY <2>1, <2>2
<1>9. \A k \in 0..n : r[k] \in Blocks
    <2> DEFINE T == {k \in 0..n : r[k] \in Blocks}
    <2>1. 0 \in T
        BY <1>8
    <2>2. ASSUME NEW k \in 1..n, k - 1 \in T PROVE k \in T
        <3>1. k \in 0..n /\ k \in 1..(n + 1) /\ r[k - 1] \in Blocks
            BY <2>2
        <3> QED BY <1>0, <1>8, <3>1
    <2> HIDE DEF T
    <2>3. \A k \in 0..n : k \in T
        BY <2>1, <2>2, StepByStep
    <2> QED BY <2>3 DEF T
<1>10. ASSUME NEW k \in 1..n PROVE r[k] = BlockCipher[r[k - 1]]
    <2>1. k \in 1..(n + 1) /\ k - 1 \in 0..n
        OBVIOUS
    <2> QED BY <1>0, <1>8, <1>9, <2>1
<1> QED BY <1>8, <1>9, <1>10 DEF r

\* Two pieces of a key's rounds are as many rounds as both.
LEMMA PiecesAdd ==
    ASSUME BlockCipher \in [Blocks -> Blocks], NEW x \in Blocks, NEW m \in Nat, NEW n \in Nat \ {0}
    PROVE  Encoding!EncryptBlockBuffer(Encoding!Enciphered(x, m), n) = Encoding!Enciphered(x, m + n)
<1> DEFINE f == Rounds(x, m)
           g == Rounds(x, m + n)
           y == f[m]
           c == Chain(y, n)
<1>1. /\ f[0] = x /\ \A k \in 1..m : f[k] = BlockCipher[f[k - 1]]
      /\ \A k \in 0..m : f[k] \in Blocks
    BY RoundSteps
<1>2. g[0] = x /\ \A k \in 1..(m + n) : g[k] = BlockCipher[g[k - 1]]
    <2>1. m + n \in Nat
        OBVIOUS
    <2> QED BY <2>1, RoundSteps
<1>3. y \in Blocks
    <2>1. m \in 0..m
        OBVIOUS
    <2> QED BY <1>1, <2>1
<1>4. c[0] = y /\ \A k \in 1..n : c[k] = BlockCipher[c[k - 1]]
    <2> HIDE DEF y
    <2> QED BY <1>3, ChainSteps
<1>5. Encoding!Enciphered(x, m) = y /\ Encoding!Enciphered(x, m + n) = g[m + n]
    BY DEF Encoding!Enciphered, Rounds
<1>6. Encoding!EncryptBlockBuffer(y, n) = c[n]
    <2>1. Encoding!AesCbc(y, n) = [k \in 1..(n + 1) |-> c[k]]
        BY DEF Encoding!AesCbc, Chain
    <2>2. n \in 1..(n + 1)
        OBVIOUS
    <2> HIDE DEF c, y
    <2> QED BY <2>1, <2>2 DEF Encoding!EncryptBlockBuffer
<1> HIDE DEF f, g, y, c
<1>7. f[m] = g[m]
    <2> DEFINE T == {k \in 0..m : f[k] = g[k]}
    <2>1. 0 \in T
        BY <1>1, <1>2
    <2>2. ASSUME NEW k \in 1..m, k - 1 \in T PROVE k \in T
        <3>1. k \in 0..m /\ k \in 1..(m + n) /\ f[k - 1] = g[k - 1]
            BY <2>2
        <3>2. f[k] = g[k]
            BY <1>1, <1>2, <3>1
        <3> QED BY <3>1, <3>2
    <2> HIDE DEF T
    <2>3. m \in T
        <3>1. m \in 0..m
            OBVIOUS
        <3> QED BY <2>1, <2>2, <3>1, StepByStep
    <2> QED BY <2>3 DEF T
<1>8. c[n] = g[m + n]
    <2> DEFINE T == {k \in 0..n : c[k] = g[m + k]}
    <2>1. 0 \in T
        <3>1. m + 0 = m
            OBVIOUS
        <3> QED BY <1>4, <1>7, <3>1 DEF y
    <2>2. ASSUME NEW k \in 1..n, k - 1 \in T PROVE k \in T
        <3>1. k \in 0..n /\ m + k \in 1..(m + n) /\ (m + k) - 1 = m + (k - 1) /\ c[k - 1] = g[m + (k - 1)]
            BY <2>2
        <3>2. c[k] = g[m + k]
            BY <1>2, <1>4, <3>1
        <3> QED BY <3>1, <3>2
    <2> HIDE DEF T
    <2>3. n \in T
        <3>1. n \in 0..n /\ n \in Nat
            OBVIOUS
        <3> QED BY <2>1, <2>2, <3>1, StepByStep
    <2> QED BY <2>3 DEF T
<1> QED BY <1>5, <1>6, <1>8

LEMMA NoRounds ==
    ASSUME BlockCipher \in [Blocks -> Blocks], NEW x \in Blocks, NEW m \in Nat
    PROVE  Encoding!Enciphered(x, m) \in Blocks /\ Encoding!Enciphered(x, 0) = x
<1>1. Encoding!Enciphered(x, m) = Rounds(x, m)[m] /\ Encoding!Enciphered(x, 0) = Rounds(x, 0)[0]
    BY DEF Encoding!Enciphered, Rounds
<1>2. m \in 0..m /\ 0 \in Nat
    OBVIOUS
<1> QED BY <1>1, <1>2, RoundSteps

-----------------------------------------------------------------------------
(* Encodings: the invariant.                                               *)

StreamValues == {ValueGot(x) : x \in StreamItems}

\* What was written is in the buffer, one after the other.
WritingInv ==
    /\ v1 = "write" /\ Writable(v2) /\ v5 = <<>> /\ v4 \in Seq(StreamItems)
    /\ \E at : Packed(v4, v2.data, at, v2.pos)
\* What was read is what was written, and the next stands where the stream is.
ReadingInv ==
    /\ v1 \in {"read", "done"} /\ v4 \in Seq(StreamItems) /\ v4 # <<>> /\ v2 \in Streams
    /\ v5 \in Seq(StreamValues) /\ Len(v5) <= Len(v4)
    /\ \A i \in 1..Len(v5) : v5[i] = ValueGot(v4[i])
    /\ v1 = "read" => v3 = Len(v5) + 1 /\ Len(v5) < Len(v4)
    /\ \E at : Packed(v4, v2.data, at, Len(v2.data)) /\ v2.pos = at[Len(v5) + 1]
\* Each block is enciphered as often as the rounds that are left say.
KeyOf(a, b, n) ==
    /\ v2 = [data |-> <<a, b, n>>, pos |-> 0, grows |-> FALSE] /\ v3 \in 0..n
    /\ v5[1] = Encoding!Enciphered(a, n - v3) /\ v5[2] = Encoding!Enciphered(b, n - v3)
KeyInv ==
    /\ v1 \in {"key", "done"} /\ v4 = <<>>
    /\ \E a, b \in Blocks, n \in Nat : KeyOf(a, b, n)
    /\ v1 = "done" => v3 = 0
EncodingInv == WritingInv \/ ReadingInv \/ KeyInv

LEMMA EncodingInvInit == ASSUME EncodingConstants, Encoding!Init PROVE EncodingInv
<1>1. CASE v1 = "write" /\ v3 = 0 /\ v5 = <<>>
           /\ v2 = [data |-> Encoding!Zeros(StreamStart), pos |-> 0, grows |-> TRUE] /\ v4 = <<>>
    <2>1. Encoding!Zeros(StreamStart) \in Seq(ByteSet) /\ Len(Encoding!Zeros(StreamStart)) = StreamStart
        <3>1. 0 \in ByteSet /\ StreamStart \in Nat
            BY ByteBounds DEF ByteSet, EncodingConstants
        <3> QED BY <3>1 DEF Encoding!Zeros
    <2>2. v2.data = Encoding!Zeros(StreamStart) /\ v2.pos = 0 /\ v2.grows = TRUE
        BY <1>1
    <2>3. Writable(v2)
        BY <1>1, <2>1, <2>2 DEF Writable, Streams, EncodingConstants
    <2>4. v4 \in Seq(StreamItems) /\ Len(v4) = 0
        BY <1>1
    <2> DEFINE at == [i \in 1..(0 + 1) |-> 0]
    <2>5. Packed(v4, v2.data, at, v2.pos)
        <3>1. at \in [1..(0 + 1) -> 0..0] /\ at[1] = 0 /\ at[0 + 1] = 0
            OBVIOUS
        <3> HIDE DEF at
        <3> QED BY <2>2, <2>4, <3>1 DEF Packed
    <2> HIDE DEF at
    <2>6. WritingInv
        BY <1>1, <2>3, <2>4, <2>5 DEF WritingInv
    <2> QED BY <2>6 DEF EncodingInv
<1>2. CASE v1 = "key" /\ v3 \in 0..MaxRounds /\ v4 = <<>>
           /\ \E a, b \in 0..3 : v2 = [data |-> <<a, b, v3>>, pos |-> 0, grows |-> FALSE] /\ v5 = <<a, b>>
    <2>1. PICK a \in Blocks, b \in Blocks :
                v2 = [data |-> <<a, b, v3>>, pos |-> 0, grows |-> FALSE] /\ v5 = <<a, b>>
        BY <1>2 DEF Blocks
    <2>2. v3 \in Nat /\ v3 \in 0..v3 /\ v3 - v3 = 0 /\ v5[1] = a /\ v5[2] = b
        BY <1>2, <2>1 DEF EncodingConstants
    <2>3. Encoding!Enciphered(a, 0) = a /\ Encoding!Enciphered(b, 0) = b
        <3>1. 0 \in Nat /\ BlockCipher \in [Blocks -> Blocks]
            BY DEF EncodingConstants, Blocks
        <3> QED BY <3>1, NoRounds
    <2>4. KeyOf(a, b, v3)
        BY <2>1, <2>2, <2>3 DEF KeyOf
    <2>5. KeyInv
        BY <1>2, <2>2, <2>4 DEF KeyInv
    <2> QED BY <2>5 DEF EncodingInv
<1> QED BY <1>1, <1>2 DEF Encoding!Init

\* A number or a text is written.
LEMMA PutMore ==
    ASSUME EncodingConstants, EncodingInv, v1 = "write", NEW x \in StreamItems,
           v2' = Encoding!WriteBytes(v2, BytesPut(x)), v4' = Append(v4, x), v1' = v1, v5' = v5
    PROVE  EncodingInv'
<1>1. WritingInv
    BY DEF EncodingInv, ReadingInv, KeyInv
<1>2. PICK at : Packed(v4, v2.data, at, v2.pos)
    BY <1>1 DEF WritingInv
<1>3. Writable(v2) /\ v4 \in Seq(StreamItems) /\ v5 = <<>>
    BY <1>1 DEF WritingInv
<1>4. Writable(v2') /\ \E to : Packed(v4', v2'.data, to, v2'.pos)
    BY <1>2, <1>3, OneMoreItem
<1>5. v4' \in Seq(StreamItems)
    BY <1>3, AppendProperties
<1>6. WritingInv'
    BY <1>3, <1>4, <1>5 DEF WritingInv
<1> QED BY <1>6 DEF EncodingInv

LEMMA SetPreserves ==
    ASSUME EncodingConstants, EncodingInv,
           (\E w \in StreamNumbers : Encoding!SetNumber(w)) \/ (\E b \in StreamTexts : Encoding!SetBytes(b))
    PROVE  EncodingInv'
<1>1. ASSUME NEW w \in StreamNumbers, Encoding!SetNumber(w) PROVE EncodingInv'
    <2> DEFINE x == [is |-> "number", number |-> w, bytes |-> <<>>]
    <2>1. x \in StreamItems /\ BytesPut(x) = Encoding!Encoded(w)
        BY DEF StreamItems, BytesPut
    <2>2. /\ v1 = "write" /\ v2' = Encoding!WriteBytes(v2, Encoding!Encoded(w)) /\ v4' = Append(v4, x)
          /\ v1' = v1 /\ v5' = v5
        BY <1>1 DEF Encoding!SetNumber
    <2> HIDE DEF x
    <2> QED BY <2>1, <2>2, PutMore
<1>2. ASSUME NEW b \in StreamTexts, Encoding!SetBytes(b) PROVE EncodingInv'
    <2> DEFINE x == [is |-> "bytes", number |-> <<>>, bytes |-> b]
    <2>1. x \in StreamItems /\ BytesPut(x) = b
        BY DEF StreamItems, BytesPut
    <2>2. /\ v1 = "write" /\ v2' = Encoding!WriteBytes(v2, b) /\ v4' = Append(v4, x)
          /\ v1' = v1 /\ v5' = v5
        BY <1>2 DEF Encoding!SetBytes
    <2> HIDE DEF x
    <2> QED BY <2>1, <2>2, PutMore
<1> QED BY <1>1, <1>2

LEMMA ReopenEncoding ==
    ASSUME EncodingConstants, EncodingInv, Encoding!Reopen PROVE EncodingInv'
<1>1. /\ v1 = "write" /\ v4 # <<>> /\ v1' = "read" /\ v3' = 1 /\ v4' = v4 /\ v5' = v5
      /\ v2' = [data |-> SubSeq(v2.data, 1, v2.pos), pos |-> 0, grows |-> FALSE]
    BY DEF Encoding!Reopen, Encoding!GetWrittenBytes
<1>2. Writable(v2) /\ v5 = <<>> /\ v4 \in Seq(StreamItems)
    BY <1>1 DEF EncodingInv, WritingInv, ReadingInv, KeyInv
<1>3. PICK at : Packed(v4, v2.data, at, v2.pos)
    BY <1>1 DEF EncodingInv, WritingInv, ReadingInv, KeyInv
<1> DEFINE d == v2.data
           p == v2.pos
           c == SubSeq(d, 1, p)
<1>4. d \in Seq(ByteSet) /\ p \in Nat /\ p <= Len(d) /\ Len(d) \in Nat
    BY <1>2 DEF Writable, Streams
<1>5. c \in Seq(ByteSet) /\ Len(c) = p /\ \A i \in 1..p : c[i] = d[i]
    <2> HIDE DEF d, p
    <2>1. 1 \in 1..(Len(d) + 1) /\ p \in (1 - 1)..Len(d) /\ p - 1 + 1 = p /\ \A i \in 1..p : 1 + i - 1 = i
        BY <1>4
    <2> QED BY <1>4, <2>1, PartOf
<1>6. v2'.data = c /\ v2'.pos = 0 /\ v2' \in Streams
    <2> HIDE DEF c
    <2>1. v2' = [data |-> c, pos |-> 0, grows |-> FALSE]
        BY <1>1 DEF c, d, p
    <2> QED BY <1>5, <2>1 DEF Streams
<1> HIDE DEF d, p, c
<1>7. Packed(v4, c, at, p)
    <2>1. /\ at \in [1..(Len(v4) + 1) -> 0..p] /\ at[1] = 0 /\ at[Len(v4) + 1] = p
          /\ \A i \in 1..Len(v4) :
                at[i + 1] = at[i] + Len(BytesPut(v4[i])) /\ StandsAt(d, at[i], BytesPut(v4[i]))
        BY <1>3 DEF Packed, d, p
    <2>2. ASSUME NEW i \in 1..Len(v4) PROVE StandsAt(c, at[i], BytesPut(v4[i]))
        <3> DEFINE b == BytesPut(v4[i])
        <3>1. i \in 1..(Len(v4) + 1) /\ i + 1 \in 1..(Len(v4) + 1)
            BY <1>2
        <3>2. at[i] \in 0..p /\ at[i + 1] \in 0..p /\ at[i + 1] = at[i] + Len(b) /\ StandsAt(d, at[i], b)
            BY <2>1, <3>1
        <3>3. b \in Seq(ByteSet)
            <4>1. v4[i] \in StreamItems
                BY <1>2, Elements
            <4> QED BY <4>1, ItemBytes
        <3> HIDE DEF b
        <3>4. ASSUME NEW j \in 1..Len(b) PROVE c[at[i] + j] = b[j]
            <4>1. at[i] + j \in 1..p
                BY <1>4, <3>2, <3>3
            <4> QED BY <1>5, <3>2, <4>1 DEF StandsAt
        <3> QED BY <3>4 DEF StandsAt, b
    <2> QED BY <2>1, <2>2 DEF Packed
<1>8. v5' \in Seq(StreamValues) /\ Len(v5') = 0
    BY <1>1, <1>2
<1>9. Len(v4) \in Nat /\ Len(v4) > 0
    BY <1>1, <1>2
<1>10. at[0 + 1] = 0
    BY <1>3 DEF Packed
<1>11. ReadingInv'
    <2>1. \E to : Packed(v4', v2'.data, to, Len(v2'.data)) /\ v2'.pos = to[Len(v5') + 1]
        BY <1>1, <1>5, <1>6, <1>7, <1>8, <1>10
    <2>2. v1' = "read" /\ v4' \in Seq(StreamItems) /\ v4' # <<>> /\ v2' \in Streams
        BY <1>1, <1>2, <1>6
    <2>3. Len(v5') <= Len(v4') /\ (\A i \in 1..Len(v5') : v5'[i] = ValueGot(v4'[i]))
          /\ v3' = Len(v5') + 1 /\ Len(v5') < Len(v4')
        BY <1>1, <1>8, <1>9
    <2> QED BY <1>8, <2>1, <2>2, <2>3 DEF ReadingInv
<1> QED BY <1>11 DEF EncodingInv

LEMMA GetPreserves ==
    ASSUME EncodingConstants, EncodingInv, Encoding!Get PROVE EncodingInv'
<1> DEFINE k == Len(v5) + 1
           w == v4[k]
           b == BytesPut(w)
<1>1. /\ v4 \in Seq(StreamItems) /\ v4 # <<>> /\ v2 \in Streams /\ v5 \in Seq(StreamValues)
      /\ (\A i \in 1..Len(v5) : v5[i] = ValueGot(v4[i])) /\ v3 = k /\ Len(v5) < Len(v4)
    BY DEF Encoding!Get, EncodingInv, WritingInv, ReadingInv, KeyInv
<1>2. PICK at : Packed(v4, v2.data, at, Len(v2.data)) /\ v2.pos = at[k]
    BY DEF Encoding!Get, EncodingInv, WritingInv, ReadingInv, KeyInv
<1>3. k \in 1..Len(v4) /\ k \in Nat /\ Len(v5) \in Nat /\ Len(v4) \in Nat
    BY <1>1
<1>4. w \in StreamItems
    <2> HIDE DEF k
    <2> QED BY <1>1, <1>3, Elements
<1>5. Encoding!ReadBytes(v2, Len(b)) = b /\ v2.pos + Len(b) = at[k + 1]
    <2> HIDE DEF k
    <2> QED BY <1>1, <1>2, <1>3, ReadThere
<1>6. b \in Seq(ByteSet) /\ Len(b) \in Nat
    <2>1. b \in Seq(ByteSet)
        BY <1>4, ItemBytes
    <2> HIDE DEF b
    <2> QED BY <2>1
<1>7. /\ v2' = [v2 EXCEPT !.pos = @ + Len(b)] /\ v5' = Append(v5, ValueGot(w))
      /\ v3' = k + 1 /\ v4' = v4 /\ v1' = (IF k = Len(v4) THEN "done" ELSE "read")
    <2> HIDE DEF k
    <2>1. CASE w.is = "bytes"
        <3>1. ValueGot(w) = b /\ w.bytes = b
            BY <1>4, <2>1, ItemBytes
        <3> QED BY <1>1, <1>5, <2>1, <3>1 DEF Encoding!Get
    <2>2. CASE w.is # "bytes"
        <3>1. w.number.bytes = Len(b) /\ ValueGot(w) = <<Encoding!Decoded(b, w.number)>>
            BY <1>4, <2>2, ItemBytes
        <3>2. ~(Len(b) < Len(b))
            BY <1>6
        <3> QED BY <1>1, <1>5, <2>2, <3>1, <3>2 DEF Encoding!Get
    <2> QED BY <2>1, <2>2
<1> DEFINE x == ValueGot(w)
<1>8. x \in StreamValues
    BY <1>4 DEF StreamValues
<1> HIDE DEF w, b, x
<1>9. /\ v5' \in Seq(StreamValues) /\ Len(v5') = k /\ v5'[k] = x /\ \A i \in 1..Len(v5) : v5'[i] = v5[i]
    BY <1>1, <1>7, <1>8, AppendProperties DEF x
<1>10. \A i \in 1..Len(v5') : v5'[i] = ValueGot(v4'[i])
    <2>1. ASSUME NEW i \in 1..k PROVE v5'[i] = ValueGot(v4[i])
        <3>1. CASE i = k
            BY <1>9, <3>1 DEF x, w
        <3>2. CASE i # k
            <4>1. i \in 1..Len(v5)
                BY <1>3, <3>2
            <4> QED BY <1>1, <1>9, <4>1
        <3> QED BY <3>1, <3>2
    <2> QED BY <1>7, <1>9, <2>1
<1>11. v2' \in Streams /\ v2'.data = v2.data /\ v2'.pos = v2.pos + Len(b)
    <2>1. PICK data \in Seq(ByteSet), pos \in Nat, grows \in BOOLEAN :
                v2 = [data |-> data, pos |-> pos, grows |-> grows]
        BY <1>1 DEF Streams
    <2>2. v2' = [data |-> data, pos |-> pos + Len(b), grows |-> grows]
        BY <1>7, <2>1
    <2>3. pos + Len(b) \in Nat
        BY <1>6, <2>1
    <2> QED BY <2>1, <2>2, <2>3 DEF Streams
<1>12. \E to : Packed(v4', v2'.data, to, Len(v2'.data)) /\ v2'.pos = to[Len(v5') + 1]
    <2>1. v2'.pos = at[k + 1] /\ v4' = v4 /\ v2'.data = v2.data /\ Len(v5') = k
        BY <1>5, <1>7, <1>9, <1>11
    <2> HIDE DEF k
    <2> QED BY <1>2, <2>1
<1>13. /\ v1' \in {"read", "done"} /\ Len(v5') <= Len(v4')
       /\ (v1' = "read" => v3' = Len(v5') + 1 /\ Len(v5') < Len(v4'))
    BY <1>3, <1>7, <1>9
<1>14. ReadingInv'
    BY <1>1, <1>7, <1>9, <1>10, <1>11, <1>12, <1>13 DEF ReadingInv
<1> QED BY <1>14 DEF EncodingInv

LEMMA EncryptPreserves ==
    ASSUME EncodingConstants, EncodingInv, Encoding!EncryptBlocks PROVE EncodingInv'
<1>1. v1 = "key" /\ KeyInv
    BY DEF Encoding!EncryptBlocks, EncodingInv, WritingInv, ReadingInv, KeyInv
<1>2. PICK a \in Blocks, b \in Blocks, n \in Nat : KeyOf(a, b, n)
    BY <1>1 DEF KeyInv
<1>3. v4 = <<>> /\ v4' = v4 /\ v2' = v2
    BY <1>1 DEF KeyInv, Encoding!EncryptBlocks
<1>4. v3 \in 0..n /\ v3 \in Nat
    BY <1>2 DEF KeyOf
<1>5. CASE v3 = 0
    <2>1. v1' = "done" /\ v5' = v5 /\ v3' = v3
        BY <1>5 DEF Encoding!EncryptBlocks
    <2>2. KeyOf(a, b, n)'
        BY <1>2, <1>3, <2>1 DEF KeyOf
    <2>3. KeyInv'
        BY <1>3, <1>5, <2>1, <2>2 DEF KeyInv
    <2> QED BY <2>3 DEF EncodingInv
<1>6. CASE v3 # 0
    <2> DEFINE now == IF v3 < MaxPreIteration THEN v3 ELSE MaxPreIteration
               m == n - v3
    <2>1. now \in Nat \ {0} /\ now <= v3 /\ m \in Nat /\ v3 - now \in 0..n /\ m + now = n - (v3 - now)
        BY <1>4, <1>6 DEF EncodingConstants
    <2>2. /\ v1' = v1 /\ v3' = v3 - now
          /\ v5' = [i \in 1..2 |-> Encoding!EncryptBlockBuffer(v5[i], now)]
        BY <1>6 DEF Encoding!EncryptBlocks
    <2>3. v5[1] = Encoding!Enciphered(a, m) /\ v5[2] = Encoding!Enciphered(b, m)
        BY <1>2 DEF KeyOf
    <2> HIDE DEF now, m
    <2>4. BlockCipher \in [Blocks -> Blocks]
        BY DEF EncodingConstants, Blocks
    <2>5. /\ Encoding!EncryptBlockBuffer(Encoding!Enciphered(a, m), now) = Encoding!Enciphered(a, m + now)
          /\ Encoding!EncryptBlockBuffer(Encoding!Enciphered(b, m), now) = Encoding!Enciphered(b, m + now)
        BY <2>1, <2>4, PiecesAdd
    <2>6. v5'[1] = Encoding!Enciphered(a, n - v3') /\ v5'[2] = Encoding!Enciphered(b, n - v3')
        BY <2>1, <2>2, <2>3, <2>5
    <2>7. KeyOf(a, b, n)'
        BY <1>2, <1>3, <2>1, <2>2, <2>6 DEF KeyOf
    <2>8. KeyInv'
        BY <1>1, <1>3, <2>2, <2>7 DEF KeyInv
    <2> QED BY <2>8 DEF EncodingInv
<1> QED BY <1>5, <1>6

LEMMA EncodingInvNext == ASSUME EncodingConstants, EncodingInv, Encoding!Next PROVE EncodingInv'
BY SetPreserves, ReopenEncoding, GetPreserves, EncryptPreserves DEF Encoding!Next

LEMMA EncodingInvSays ==
    ASSUME EncodingConstants, EncodingInv
    PROVE  Encoding!TypeOK /\ Encoding!BytesReadBack /\ Encoding!KeyStretched
<1>1. CASE WritingInv
    <2>1. v1 = "write" /\ Writable(v2) /\ v5 = <<>>
        BY <1>1 DEF WritingInv
    <2>2. v2.data \in Seq(ByteSet) /\ v2.pos \in Nat /\ v2.pos <= Len(v2.data)
        BY <2>1 DEF Writable, Streams
    <2> DEFINE d == v2.data
               p == v2.pos
               b == Encoding!GetWrittenBytes(v2)
    <2>3. b \in Seq(ByteSet) /\ Len(b) \in Nat
        <3>1. b = SubSeq(d, 1, p)
            BY DEF Encoding!GetWrittenBytes
        <3> HIDE DEF d, p, b
        <3>2. 1 \in 1..(Len(d) + 1) /\ p \in (1 - 1)..Len(d)
            BY <2>2 DEF d, p
        <3>3. SubSeq(d, 1, p) \in Seq(ByteSet)
            BY <2>2, <3>2, PartOf DEF d, p
        <3> QED BY <3>1, <3>3
    <2> HIDE DEF b
    <2>4. Encoding!HexToBytes(Encoding!BytesToHex(b)) = b
        BY <2>3, HexBack DEF EncodingConstants, ByteSet
    <2>5. Encoding!Base64UrlToBytes(Encoding!BytesToBase64Url(Len(b))) = Len(b)
        BY <2>3, Base64Back
    <2>6. \A v \in 0..(MaxHi * Encoding!Power[4] - 1) :
            Encoding!Int64Value(Encoding!Int64From(v)) = v /\ Encoding!Int64From(v).hi < MaxHi
        BY Int64Back
    <2>7. DOMAIN v5 = {}
        BY <2>1
    <2>8. Encoding!BytesReadBack
        BY <2>4, <2>5, <2>6, <2>7 DEF Encoding!BytesReadBack, b
    <2>9. Encoding!KeyStretched
        BY <2>1 DEF Encoding!KeyStretched
    <2>10. Encoding!TypeOK
        BY <2>1, <2>2 DEF Encoding!TypeOK
    <2> QED BY <2>8, <2>9, <2>10
<1>2. CASE ReadingInv
    <2>1. /\ v1 # "write" /\ v4 # <<>> /\ v1 \in {"read", "done"}
          /\ v5 \in Seq(StreamValues) /\ \A i \in 1..Len(v5) : v5[i] = ValueGot(v4[i])
        BY <1>2 DEF ReadingInv
    <2>2. \A i \in DOMAIN v5 : v5[i] = ValueGot(v4[i])
        BY <2>1
    <2>3. Encoding!BytesReadBack
        BY <2>1, <2>2 DEF Encoding!BytesReadBack, ValueGot
    <2>4. Encoding!KeyStretched
        BY <2>1 DEF Encoding!KeyStretched
    <2>5. v2.pos \in 0..Len(v2.data)
        <3>1. PICK at : Packed(v4, v2.data, at, Len(v2.data)) /\ v2.pos = at[Len(v5) + 1]
            BY <1>2 DEF ReadingInv
        <3>2. Len(v5) + 1 \in 1..(Len(v4) + 1)
            BY <1>2 DEF ReadingInv
        <3>3. at[Len(v5) + 1] \in 0..Len(v2.data)
            BY <3>1, <3>2 DEF Packed
        <3> QED BY <3>1, <3>3
    <2> QED BY <2>1, <2>3, <2>4, <2>5 DEF Encoding!TypeOK
<1>3. CASE KeyInv
    <2>1. v1 \in {"key", "done"} /\ v4 = <<>> /\ (v1 = "done" => v3 = 0)
        BY <1>3 DEF KeyInv
    <2>2. PICK a \in Blocks, b \in Blocks, n \in Nat : KeyOf(a, b, n)
        BY <1>3 DEF KeyInv
    <2>3. /\ v2.data = <<a, b, n>> /\ v2.pos = 0
          /\ v2.data[1] = a /\ v2.data[2] = b /\ v2.data[3] = n /\ Len(v2.data) = 3
        BY <2>2 DEF KeyOf
    <2>4. Encoding!BytesReadBack
        BY <2>1 DEF Encoding!BytesReadBack
    <2>5. Encoding!KeyStretched
        <3> SUFFICES ASSUME v1 = "done", NEW i \in 1..2
                     PROVE  v5[i] = Encoding!Enciphered(v2.data[i], v2.data[3])
            BY DEF Encoding!KeyStretched
        <3>1. n - v3 = n
            BY <2>1
        <3>2. v5[1] = Encoding!Enciphered(a, n) /\ v5[2] = Encoding!Enciphered(b, n)
            BY <2>2, <3>1 DEF KeyOf
        <3>3. i = 1 \/ i = 2
            OBVIOUS
        <3> QED BY <2>3, <3>2, <3>3
    <2>6. Encoding!TypeOK
        BY <2>1, <2>3 DEF Encoding!TypeOK
    <2> QED BY <2>4, <2>5, <2>6
<1> QED BY <1>1, <1>2, <1>3 DEF EncodingInv

LEMMA EncodingKept == ASSUME EncodingConstants PROVE FormatsSpec => [](subject = "Encodings" => EncodingInv)
<1> DEFINE Inv == subject = "Encodings" => EncodingInv
<1>1. FormatsInit => Inv
    BY EncodingInvInit DEF FormatsInit
<1>2. Inv /\ [FormatsNext]_<<subject, vars, shared>> => Inv'
    <2> SUFFICES ASSUME Inv, [FormatsNext]_<<subject, vars, shared>>, subject' = "Encodings" PROVE EncodingInv'
        OBVIOUS
    <2>1. subject' = subject
        BY DEF FormatsNext
    <2>2. EncodingInv
        BY <2>1
    <2>3. Encoding!Next \/ UNCHANGED <<v1, v2, v3, v4, v5>>
        BY <2>1 DEF FormatsNext, shared
    <2>4. CASE Encoding!Next
        BY <2>2, <2>4, EncodingInvNext
    <2>5. CASE UNCHANGED <<v1, v2, v3, v4, v5>>
        BY <2>2, <2>5 DEF EncodingInv, WritingInv, ReadingInv, KeyInv, KeyOf
    <2> QED BY <2>3, <2>4, <2>5
<1> QED BY <1>1, <1>2, PTL DEF FormatsSpec

\* What a stream was given is what is read of it, for numbers and texts of any size, in any
\* order and wherever the buffer had to grow; hexadecimal digits, base64 and the halves of
\* a number give back what they stand for; and a key is enciphered in all its rounds,
\* however they are cut into pieces.
THEOREM FormatsBytesReadBack == ASSUME EncodingConstants PROVE FormatsSpec => []BytesReadBack
<1>1. (subject = "Encodings" => EncodingInv) => BytesReadBack
    BY EncodingInvSays DEF BytesReadBack
<1> QED BY <1>1, EncodingKept, PTL

-----------------------------------------------------------------------------
(* PasskeyRecords: what a map of CBOR is read as.                          *)

\* What stands in a sequence of bytes: bytes, and texts, which are opaque.
Words == {"b", "v", "cid", "pk", "uh", "alg", "rp", "sc", "site", "ES256", "RS256", "EdDSA", "v1",
          "fmt", "none", "attStmt", "authData"}
Sym == Int \cup Words
Room == 0..(Passkey!Bits8 * Passkey!Bits24 - 1)
LEMMA ShiftsAre ==
    /\ Passkey!Bits8 = 256 /\ Passkey!Bits16 = 256 * 256 /\ Passkey!Bits24 = 256 * 256 * 256
    /\ \A n \in Room : n \in Nat /\ n < 256 * 256 * 256 * 256
<1>1. Passkey!Bits8 = 256
    BY DEF Passkey!Bits8
<1>2. Passkey!Bits16 = 256 * 256
    BY <1>1 DEF Passkey!Bits16
<1>3. Passkey!Bits24 = 256 * 256 * 256
    BY <1>1, <1>2 DEF Passkey!Bits24
<1>4. Passkey!Bits8 * Passkey!Bits24 - 1 = 256 * 256 * 256 * 256 - 1
    BY <1>1, <1>3
<1>5. \A n \in Room : n \in Nat /\ n < 256 * 256 * 256 * 256
    BY <1>4 DEF Room
<1> QED BY <1>1, <1>2, <1>3, <1>5

\* After the first p of b comes x.
Comes(b, p, x) == p + Len(x) <= Len(b) /\ \A k \in 1..Len(x) : b[p + k] = x[k]

LEMMA ComesWhole == ASSUME NEW x \in Seq(Sym) PROVE Comes(x, 0, x)
<1>1. Len(x) \in Nat
    OBVIOUS
<1>2. \A k \in 1..Len(x) : 0 + k = k
    BY <1>1
<1> QED BY <1>1, <1>2 DEF Comes

LEMMA ComesInTurn ==
    ASSUME NEW b \in Seq(Sym), NEW x \in Seq(Sym), NEW y \in Seq(Sym), NEW p \in Nat, Comes(b, p, x \o y)
    PROVE  Comes(b, p, x) /\ Comes(b, p + Len(x), y) /\ p + Len(x) \in Nat
<1>1. Len(x) \in Nat /\ Len(y) \in Nat /\ Len(b) \in Nat
    OBVIOUS
<1>2. /\ Len(x \o y) = Len(x) + Len(y)
      /\ \A i \in 1..Len(x) : (x \o y)[i] = x[i]
      /\ \A i \in 1..Len(y) : (x \o y)[Len(x) + i] = y[i]
    BY Together
<1> DEFINE z == x \o y
           m == Len(x)
           n == Len(y)
<1>3. p + Len(z) <= Len(b) /\ \A k \in 1..Len(z) : b[p + k] = z[k]
    BY DEF Comes
<1>4. Len(z) = m + n /\ (\A i \in 1..m : z[i] = x[i]) /\ (\A i \in 1..n : z[m + i] = y[i])
    BY <1>2
<1>5. m \in Nat /\ n \in Nat
    BY <1>1
<1> HIDE DEF z, m, n
<1>6. p + m <= Len(b) /\ \A k \in 1..m : b[p + k] = x[k]
    <2>1. \A k \in 1..m : k \in 1..Len(z)
        BY <1>4, <1>5
    <2> QED BY <1>1, <1>3, <1>4, <1>5, <2>1
<1>7. (p + m) + n <= Len(b) /\ \A k \in 1..n : b[(p + m) + k] = y[k]
    <2>1. \A k \in 1..n : m + k \in 1..Len(z) /\ p + (m + k) = (p + m) + k
        BY <1>4, <1>5
    <2>2. ASSUME NEW k \in 1..n PROVE b[(p + m) + k] = y[k]
        <3>1. m + k \in 1..Len(z) /\ p + (m + k) = (p + m) + k
            BY <2>1
        <3>2. b[p + (m + k)] = z[m + k] /\ z[m + k] = y[k]
            BY <1>3, <1>4, <3>1
        <3> QED BY <3>1, <3>2
    <2> QED BY <1>1, <1>3, <1>4, <1>5, <2>2
<1> QED BY <1>5, <1>6, <1>7, SMTT(30) DEF Comes, m, n

LEMMA ComesCut ==
    ASSUME NEW b \in Seq(Sym), NEW x \in Seq(Sym), NEW p \in Nat, Comes(b, p, x)
    PROVE  SubSeq(b, p + 1, p + Len(x)) = x
<1> DEFINE m == Len(x)
           c == SubSeq(b, p + 1, p + m)
<1>1. m \in Nat /\ Len(b) \in Nat
    OBVIOUS
<1>2. p + m <= Len(b) /\ \A k \in 1..m : b[p + k] = x[k]
    BY DEF Comes
<1> HIDE DEF m
<1>3. p + 1 \in 1..(Len(b) + 1) /\ p + m \in ((p + 1) - 1)..Len(b) /\ (p + m) - (p + 1) + 1 = m
    BY <1>1, <1>2
<1>4. c \in Seq(Sym) /\ Len(c) = (p + m) - (p + 1) + 1 /\ \A k \in 1..((p + m) - (p + 1) + 1) : c[k] = b[(p + 1) + k - 1]
    BY <1>3, PartOf
<1> HIDE DEF c
<1>5. ASSUME NEW k \in 1..m PROVE c[k] = x[k]
    <2>1. (p + 1) + k - 1 = p + k
        BY <1>1
    <2> QED BY <1>2, <1>3, <1>4, <2>1
<1>6. c \in Seq(Sym) /\ x \in Seq(Sym) /\ Len(c) = Len(x)
    BY <1>3, <1>4 DEF m
<1>7. c = x
    BY ONLY <1>5, <1>6 DEF m
<1> QED BY <1>7 DEF c, m

LEMMA HeadTyped ==
    ASSUME NEW major \in 0..5, NEW n \in Room
    PROVE  Passkey!EncodeHead(major, n) \in Seq(Sym)
<1>1. n \in Nat /\ n < 256 * 256 * 256 * 256
    BY ShiftsAre
<1>2. /\ major * 32 + n \in Int /\ major * 32 + 24 \in Int /\ major * 32 + 25 \in Int /\ major * 32 + 26 \in Int
      /\ n \div 256 \in Int /\ n \div (256 * 256) \in Int /\ n \div (256 * 256 * 256) \in Int
      /\ n % 256 \in Int /\ (n \div 256) % 256 \in Int /\ (n \div (256 * 256)) % 256 \in Int
    BY <1>1
<1>3. \A x \in Int : x \in Sym
    BY DEF Sym
<1> QED BY <1>2, <1>3, ShiftsAre DEF Passkey!EncodeHead

\* The head of an item is read as it was written, whatever number it holds.
LEMMA HeadReads ==
    ASSUME NEW b \in Seq(Sym), NEW p \in Nat, NEW major \in 0..5, NEW n \in Room,
           Comes(b, p, Passkey!EncodeHead(major, n))
    PROVE  Passkey!DecodeHead(b, p + 1)
               = [major |-> major, length |-> n, pos |-> p + 1 + Len(Passkey!EncodeHead(major, n))]
<1> DEFINE h == Passkey!EncodeHead(major, n)
<1>1. n \in Nat /\ n < 256 * 256 * 256 * 256
    BY ShiftsAre
<1>2. \A k \in 1..Len(h) : b[p + k] = h[k]
    BY DEF Comes
<1>3. CASE n < 24
    <2>1. h = <<major * 32 + n>>
        BY <1>3, ShiftsAre DEF Passkey!EncodeHead
    <2>2. b[p + 1] = major * 32 + n /\ Len(h) = 1
        BY <1>2, <2>1
    <2>3. (major * 32 + n) \div 32 = major /\ (major * 32 + n) % 32 = n
        BY <1>1, <1>3
    <2> HIDE DEF h
    <2>4. Passkey!DecodeHead(b, p + 1) = [major |-> major, length |-> n, pos |-> p + 1 + 1]
        BY <1>3, <2>2, <2>3, ShiftsAre DEF Passkey!DecodeHead
    <2> QED BY <2>2, <2>4 DEF h
<1>4. CASE ~(n < 24) /\ n < 256
    <2>1. h = <<major * 32 + 24, n>>
        BY <1>4, ShiftsAre DEF Passkey!EncodeHead
    <2>2. b[p + 1] = major * 32 + 24 /\ b[p + 2] = n /\ Len(h) = 2
        BY <1>2, <2>1
    <2>3. (major * 32 + 24) \div 32 = major /\ (major * 32 + 24) % 32 = 24 /\ (p + 1) + 1 = p + 2 /\ (p + 1) + 2 = p + 1 + 2
        OBVIOUS
    <2> HIDE DEF h
    <2>4. Passkey!DecodeHead(b, p + 1) = [major |-> major, length |-> n, pos |-> p + 1 + 2]
        BY <2>2, <2>3, ShiftsAre DEF Passkey!DecodeHead
    <2> QED BY <2>2, <2>4 DEF h
<1>5. CASE ~(n < 256) /\ n < (256 * 256)
    <2>1. h = <<major * 32 + 25, n \div 256, n % 256>>
        BY <1>1, <1>5, ShiftsAre DEF Passkey!EncodeHead
    <2>2. b[p + 1] = major * 32 + 25 /\ b[p + 2] = n \div 256 /\ b[p + 3] = n % 256 /\ Len(h) = 3
        BY <1>2, <2>1
    <2>3. (major * 32 + 25) \div 32 = major /\ (major * 32 + 25) % 32 = 25 /\ (p + 1) + 1 = p + 2 /\ (p + 1) + 2 = p + 3
        OBVIOUS
    <2>4. (n \div 256) * 256 + (n % 256) = n
        BY <1>1
    <2> HIDE DEF h
    <2>5. Passkey!DecodeHead(b, p + 1) = [major |-> major, length |-> n, pos |-> p + 1 + 3]
        BY <2>2, <2>3, <2>4, ShiftsAre, SMTT(30) DEF Passkey!DecodeHead
    <2> QED BY <2>2, <2>5 DEF h
<1>6. CASE ~(n < (256 * 256))
    <2>1. h = <<major * 32 + 26, n \div (256 * 256 * 256), (n \div (256 * 256)) % 256, (n \div 256) % 256, n % 256>>
        BY <1>1, <1>6, ShiftsAre DEF Passkey!EncodeHead
    <2>2. /\ b[p + 1] = major * 32 + 26 /\ b[p + 2] = n \div (256 * 256 * 256) /\ b[p + 3] = (n \div (256 * 256)) % 256
          /\ b[p + 4] = (n \div 256) % 256 /\ b[p + 5] = n % 256 /\ Len(h) = 5
        BY <1>2, <2>1
    <2>3. /\ (major * 32 + 26) \div 32 = major /\ (major * 32 + 26) % 32 = 26
          /\ (p + 1) + 1 = p + 2 /\ (p + 1) + 2 = p + 3 /\ (p + 1) + 3 = p + 4 /\ (p + 1) + 4 = p + 5
        OBVIOUS
    <2>4. (n \div (256 * 256 * 256)) * (256 * 256 * 256) + ((n \div (256 * 256)) % 256) * (256 * 256) + ((n \div 256) % 256) * 256 + (n % 256) = n
        BY <1>1
    <2> HIDE DEF h
    <2>5. b[p + 1] \div 32 = major /\ b[p + 1] % 32 = 26
        BY <2>2, <2>3
    <2> DEFINE l == b[p + 2] * Passkey!Bits24 + b[p + 3] * Passkey!Bits16 + b[p + 4] * Passkey!Bits8 + b[p + 5]
    <2>6. l = n
        BY <2>2, <2>4, ShiftsAre
    <2>7. Passkey!DecodeHead(b, p + 1) = [major |-> major, pos |-> p + 1 + 5, length |-> l]
        BY <2>3, <2>5 DEF Passkey!DecodeHead
    <2>8. Passkey!DecodeHead(b, p + 1) = [major |-> major, length |-> n, pos |-> p + 1 + 5]
        BY <2>6, <2>7
    <2> QED BY <2>2, <2>8 DEF h
<1> QED BY <1>1, <1>3, <1>4, <1>5, <1>6

\* Numbers of four bytes, texts, byte strings and the empty map.
Pieces == {s \in Seq(Sym) : Len(s) \in Room}
Values ==
    {Passkey!Num(n) : n \in Room} \cup {Passkey!Num(-1 - n) : n \in Room}
    \cup {Passkey!Bytes(s) : s \in Pieces} \cup {Passkey!Text(t) : t \in Words} \cup {Passkey!EmptyMap}

LEMMA RoomHas == \A n \in 0..255 : n \in Room
<1>1. Passkey!Bits8 * Passkey!Bits24 - 1 = 256 * 256 * 256 * 256 - 1
    BY ShiftsAre
<1> QED BY <1>1 DEF Room

TextOf(s) == [type |-> "text", n |-> 0, b |-> s]
LEMMA ValueKinds ==
    ASSUME NEW v \in Values
    PROVE  \/ \E n \in Room : v = Passkey!Num(n) /\ Passkey!EncodeValue(v) = Passkey!EncodeHead(0, n)
           \/ \E n \in Room : v = Passkey!Num(-1 - n) /\ Passkey!EncodeValue(v) = Passkey!EncodeHead(1, n)
           \/ \E s \in Pieces : /\ v = Passkey!Bytes(s)
                                /\ Passkey!EncodeValue(v) = Passkey!EncodeHead(2, Len(s)) \o s
           \/ \E s \in Pieces : /\ v = TextOf(s)
                                /\ Passkey!EncodeValue(v) = Passkey!EncodeHead(3, Len(s)) \o s
           \/ v = Passkey!EmptyMap /\ Passkey!EncodeValue(v) = Passkey!EncodeHead(5, 0)
<1>1. CASE \E n \in Room : v = Passkey!Num(n)
    <2>1. PICK n \in Room : v = Passkey!Num(n)
        BY <1>1
    <2>2. v.type = "int" /\ v.n = n /\ n >= 0
        BY <2>1, ShiftsAre DEF Passkey!Num
    <2>3. Passkey!EncodeValue(v) = Passkey!EncodeHead(0, n)
        BY <2>2 DEF Passkey!EncodeValue
    <2> QED BY <2>1, <2>3
<1>2. CASE \E n \in Room : v = Passkey!Num(-1 - n)
    <2>1. PICK n \in Room : v = Passkey!Num(-1 - n)
        BY <1>2
    <2>2. v.type = "int" /\ v.n = -1 - n /\ n \in Nat
        BY <2>1, ShiftsAre DEF Passkey!Num
    <2>3. ~(v.n >= 0) /\ -1 - v.n = n
        BY <2>2
    <2>4. Passkey!EncodeValue(v) = Passkey!EncodeHead(1, n)
        BY <2>2, <2>3 DEF Passkey!EncodeValue
    <2> QED BY <2>1, <2>4
<1>3. CASE \E s \in Pieces : v = Passkey!Bytes(s)
    <2>1. PICK s \in Pieces : v = Passkey!Bytes(s)
        BY <1>3
    <2>2. v.type = "bytes" /\ v.b = s
        BY <2>1 DEF Passkey!Bytes
    <2>3. Passkey!EncodeValue(v) = Passkey!EncodeHead(2, Len(s)) \o s
        BY <2>2 DEF Passkey!EncodeValue
    <2> QED BY <2>1, <2>3
<1>4. CASE \E t \in Words : v = Passkey!Text(t)
    <2>1. PICK t \in Words : v = Passkey!Text(t)
        BY <1>4
    <2> DEFINE s == <<t>>
    <2>2. s \in Pieces
        <3>1. t \in Sym
            BY DEF Sym
        <3>2. \A x \in Sym : <<x>> \in Seq(Sym) /\ Len(<<x>>) = 1
            OBVIOUS
        <3>3. s \in Seq(Sym) /\ Len(s) = 1
            BY <3>1, <3>2
        <3>4. 1 \in Room
            BY RoomHas
        <3> HIDE DEF s
        <3> QED BY <3>3, <3>4 DEF Pieces
    <2>3. v.type = "text" /\ v.b = s /\ v = TextOf(s)
        BY <2>1 DEF Passkey!Text, TextOf
    <2> HIDE DEF s
    <2>4. Passkey!EncodeValue(v) = Passkey!EncodeHead(3, Len(s)) \o s
        BY <2>3 DEF Passkey!EncodeValue
    <2> QED BY <2>2, <2>3, <2>4
<1>5. CASE v = Passkey!EmptyMap
    <2>1. v.type = "map"
        BY <1>5 DEF Passkey!EmptyMap
    <2>2. Passkey!EncodeValue(v) = Passkey!EncodeHead(5, 0)
        BY <2>1 DEF Passkey!EncodeValue
    <2> QED BY <1>5, <2>2
<1> QED BY <1>1, <1>2, <1>3, <1>4, <1>5 DEF Values

LEMMA ValueTyped == ASSUME NEW v \in Values PROVE Passkey!EncodeValue(v) \in Seq(Sym)
<1>1. \A major \in 0..5, n \in Room : Passkey!EncodeHead(major, n) \in Seq(Sym)
    BY HeadTyped
<1>2. \A major \in 0..5, s \in Pieces : Passkey!EncodeHead(major, Len(s)) \o s \in Seq(Sym)
    BY <1>1, Together DEF Pieces
<1>3. 0 \in Room
    BY RoomHas
<1> DEFINE e == Passkey!EncodeValue(v)
<1>4. \/ \E n \in Room : e = Passkey!EncodeHead(0, n) \/ e = Passkey!EncodeHead(1, n)
      \/ \E s \in Pieces : \E major \in {2, 3} : e = Passkey!EncodeHead(major, Len(s)) \o s
      \/ e = Passkey!EncodeHead(5, 0)
    <2> HIDE DEF e
    <2>1. \/ \E n \in Room : v = Passkey!Num(n) /\ e = Passkey!EncodeHead(0, n)
          \/ \E n \in Room : v = Passkey!Num(-1 - n) /\ e = Passkey!EncodeHead(1, n)
          \/ \E s \in Pieces : v = Passkey!Bytes(s) /\ e = Passkey!EncodeHead(2, Len(s)) \o s
          \/ \E s \in Pieces : /\ v = TextOf(s)
                               /\ e = Passkey!EncodeHead(3, Len(s)) \o s
          \/ v = Passkey!EmptyMap /\ e = Passkey!EncodeHead(5, 0)
        BY ValueKinds DEF e
    <2> QED BY ONLY <2>1
<1> HIDE DEF e
<1>5. 0 \in 0..5 /\ 1 \in 0..5 /\ 2 \in 0..5 /\ 3 \in 0..5 /\ 5 \in 0..5
    OBVIOUS
<1>6. e \in Seq(Sym)
    BY ONLY <1>1, <1>2, <1>3, <1>4, <1>5
<1> QED BY <1>6 DEF e

\* The major type of the item at i, its content and where it ends.
MajorAt(b, i) == Passkey!DecodeHead(b, i).major
ContentAt(b, i) ==
    LET head == Passkey!DecodeHead(b, i) IN SubSeq(b, head.pos, (head.pos + head.length) - 1)
EndAt(b, i) == LET head == Passkey!DecodeHead(b, i) IN head.pos + head.length

\* What comes after a head that is read as it was written.
LEMMA ContentReads ==
    ASSUME NEW b \in Seq(Sym), NEW p \in Nat, NEW major \in 0..5, NEW s \in Pieces,
           Comes(b, p, Passkey!EncodeHead(major, Len(s)) \o s)
    PROVE  /\ MajorAt(b, p + 1) = major /\ ContentAt(b, p + 1) = s
           /\ EndAt(b, p + 1) = p + 1 + Len(Passkey!EncodeHead(major, Len(s)) \o s)
<1> DEFINE h == Passkey!EncodeHead(major, Len(s))
           head == Passkey!DecodeHead(b, p + 1)
           n == Len(s)
           m == Len(h)
<1>1. s \in Seq(Sym) /\ n \in Room /\ n \in Nat
    BY ShiftsAre DEF Pieces
<1>2. h \in Seq(Sym) /\ m \in Nat
    <2>1. h \in Seq(Sym)
        BY <1>1, HeadTyped
    <2> HIDE DEF h
    <2> QED BY <2>1
<1>3. Comes(b, p, h) /\ Comes(b, p + m, s) /\ p + m \in Nat
    <2> HIDE DEF h
    <2> QED BY <1>1, <1>2, ComesInTurn DEF h
<1>4. head = [major |-> major, length |-> n, pos |-> p + 1 + m]
    BY <1>1, <1>3, HeadReads
<1>5. SubSeq(b, (p + m) + 1, (p + m) + n) = s
    BY <1>1, <1>3, ComesCut
<1>6. Len(h \o s) = m + n
    <2> HIDE DEF h
    <2> QED BY <1>1, <1>2, Together
<1>7. p + 1 + m = (p + m) + 1 /\ ((p + 1 + m) + n) - 1 = (p + m) + n /\ p + 1 + m + n = p + 1 + (m + n)
    BY <1>1, <1>2
<1> HIDE DEF h, n, m, head
<1>8. head.major = major /\ head.pos = p + 1 + m /\ head.length = n
    BY <1>4
<1>9. SubSeq(b, head.pos, (head.pos + head.length) - 1) = s /\ head.pos + head.length = p + 1 + Len(h \o s)
    BY <1>5, <1>6, <1>7, <1>8
<1> QED BY <1>8, <1>9 DEF head, h, n, MajorAt, ContentAt, EndAt

\* Which item is read is what the head says.
LEMMA ByMajor ==
    ASSUME NEW b \in Seq(Sym), NEW i \in Nat
    PROVE  /\ MajorAt(b, i) = 2 =>
                Passkey!DecodeValue(b, i) = [value |-> Passkey!Bytes(ContentAt(b, i)), pos |-> EndAt(b, i)]
           /\ MajorAt(b, i) = 3 =>
                Passkey!DecodeValue(b, i) = [value |-> TextOf(ContentAt(b, i)), pos |-> EndAt(b, i)]
<1> DEFINE head == Passkey!DecodeHead(b, i)
           end == head.pos + head.length
           content == SubSeq(b, head.pos, end - 1)
           A0 == [value |-> Passkey!Num(head.length), pos |-> head.pos]
           A1 == [value |-> Passkey!Num(-1 - head.length), pos |-> head.pos]
           A2 == [value |-> Passkey!Bytes(content), pos |-> end]
           A3 == [value |-> [Passkey!Bytes(content) EXCEPT !.type = "text"], pos |-> end]
           A5 == [value |-> Passkey!EmptyMap, pos |-> head.pos]
<1>1. Passkey!DecodeValue(b, i) =
          CASE head.major = 0 -> A0
            [] head.major = 1 -> A1
            [] head.major = 2 -> A2
            [] head.major = 3 -> A3
            [] head.major = 5 -> A5
    BY DEF Passkey!DecodeValue
<1> HIDE DEF head, end, content, A0, A1, A2, A3, A5
<1>2. (head.major = 2 => Passkey!DecodeValue(b, i) = A2) /\ (head.major = 3 => Passkey!DecodeValue(b, i) = A3)
    BY <1>1
<1>3. A3 = [value |-> TextOf(content), pos |-> end]
    BY DEF A3, Passkey!Bytes, TextOf
<1>4. MajorAt(b, i) = head.major /\ ContentAt(b, i) = content /\ EndAt(b, i) = end
    BY DEF head, end, content, MajorAt, ContentAt, EndAt
<1>5. A2 = [value |-> Passkey!Bytes(content), pos |-> end]
    BY DEF A2
<1> QED BY ONLY <1>2, <1>3, <1>4, <1>5

\* A value is read where it stands, and the next one is read after it.
LEMMA ValueReads ==
    ASSUME NEW b \in Seq(Sym), NEW p \in Nat, NEW v \in Values, Comes(b, p, Passkey!EncodeValue(v))
    PROVE  Passkey!DecodeValue(b, p + 1) = [value |-> v, pos |-> p + 1 + Len(Passkey!EncodeValue(v))]
<1> DEFINE e == Passkey!EncodeValue(v)
           head == Passkey!DecodeHead(b, p + 1)
<1>1. CASE \E n \in Room : v = Passkey!Num(n) /\ e = Passkey!EncodeHead(0, n)
    <2>1. PICK n \in Room : v = Passkey!Num(n) /\ e = Passkey!EncodeHead(0, n)
        BY <1>1
    <2>2. head = [major |-> 0, length |-> n, pos |-> p + 1 + Len(e)]
        <3>1. Comes(b, p, Passkey!EncodeHead(0, n)) /\ 0 \in 0..5
            BY <2>1
        <3> HIDE DEF e
        <3> QED BY <2>1, <3>1, HeadReads
    <2> HIDE DEF e, head
    <2>3. head.major = 0 /\ head.length = n /\ head.pos = p + 1 + Len(e)
        BY <2>2
    <2>4. Passkey!DecodeValue(b, p + 1) = [value |-> v, pos |-> p + 1 + Len(e)]
        BY <2>1, <2>3 DEF Passkey!DecodeValue, head
    <2> QED BY <2>4 DEF e
<1>2. CASE \E n \in Room : v = Passkey!Num(-1 - n) /\ e = Passkey!EncodeHead(1, n)
    <2>1. PICK n \in Room : v = Passkey!Num(-1 - n) /\ e = Passkey!EncodeHead(1, n)
        BY <1>2
    <2>2. head = [major |-> 1, length |-> n, pos |-> p + 1 + Len(e)]
        <3>1. Comes(b, p, Passkey!EncodeHead(1, n)) /\ 1 \in 0..5
            BY <2>1
        <3> HIDE DEF e
        <3> QED BY <2>1, <3>1, HeadReads
    <2> HIDE DEF e, head
    <2>3. head.major = 1 /\ head.length = n /\ head.pos = p + 1 + Len(e)
        BY <2>2
    <2>4. Passkey!DecodeValue(b, p + 1) = [value |-> v, pos |-> p + 1 + Len(e)]
        BY <2>1, <2>3 DEF Passkey!DecodeValue, head
    <2> QED BY <2>4 DEF e
<1>3. CASE \E s \in Pieces : v = Passkey!Bytes(s) /\ e = Passkey!EncodeHead(2, Len(s)) \o s
    <2>1. PICK s \in Pieces : v = Passkey!Bytes(s) /\ e = Passkey!EncodeHead(2, Len(s)) \o s
        BY <1>3
    <2>2. MajorAt(b, p + 1) = 2 /\ ContentAt(b, p + 1) = s /\ EndAt(b, p + 1) = p + 1 + Len(e)
        <3>1. Comes(b, p, Passkey!EncodeHead(2, Len(s)) \o s) /\ 2 \in 0..5
            BY <2>1
        <3> HIDE DEF e
        <3> QED BY <2>1, <3>1, ContentReads
    <2> HIDE DEF e, head
    <2>3. Passkey!DecodeValue(b, p + 1) = [value |-> Passkey!Bytes(ContentAt(b, p + 1)), pos |-> EndAt(b, p + 1)]
        <3>1. p + 1 \in Nat
            OBVIOUS
        <3> QED BY <2>2, <3>1, ByMajor
    <2>4. Passkey!DecodeValue(b, p + 1) = [value |-> v, pos |-> p + 1 + Len(e)]
        BY <2>1, <2>2, <2>3
    <2> QED BY <2>4 DEF e
<1>4. CASE \E s \in Pieces : v = TextOf(s) /\ e = Passkey!EncodeHead(3, Len(s)) \o s
    <2>1. PICK s \in Pieces : v = TextOf(s) /\ e = Passkey!EncodeHead(3, Len(s)) \o s
        BY <1>4
    <2>2. MajorAt(b, p + 1) = 3 /\ ContentAt(b, p + 1) = s /\ EndAt(b, p + 1) = p + 1 + Len(e)
        <3>1. Comes(b, p, Passkey!EncodeHead(3, Len(s)) \o s) /\ 3 \in 0..5
            <4>1. Comes(b, p, e) /\ e = Passkey!EncodeHead(3, Len(s)) \o s
                BY <2>1
            <4> QED BY ONLY <4>1
        <3> HIDE DEF e
        <3> QED BY <2>1, <3>1, ContentReads
    <2> HIDE DEF e, head
    <2>3. Passkey!DecodeValue(b, p + 1) = [value |-> TextOf(ContentAt(b, p + 1)), pos |-> EndAt(b, p + 1)]
        <3>1. p + 1 \in Nat
            OBVIOUS
        <3> QED BY <2>2, <3>1, ByMajor
    <2>4. Passkey!DecodeValue(b, p + 1) = [value |-> v, pos |-> p + 1 + Len(e)]
        BY <2>1, <2>2, <2>3
    <2> QED BY <2>4 DEF e
<1>5. CASE v = Passkey!EmptyMap /\ e = Passkey!EncodeHead(5, 0)
    <2>1. 0 \in Room
        BY RoomHas
    <2>2. head = [major |-> 5, length |-> 0, pos |-> p + 1 + Len(e)]
        BY <1>5, <2>1, HeadReads
    <2> HIDE DEF e, head
    <2>3. head.major = 5 /\ head.pos = p + 1 + Len(e)
        BY <2>2
    <2>4. Passkey!DecodeValue(b, p + 1) = [value |-> v, pos |-> p + 1 + Len(e)]
        BY <1>5, <2>3 DEF Passkey!DecodeValue, head
    <2> QED BY <2>4 DEF e
<1> QED BY <1>1, <1>2, <1>3, <1>4, <1>5, ValueKinds

\* What comes in a part of a sequence comes in it.
LEMMA ComesWithin ==
    ASSUME NEW b \in Seq(Sym), NEW x \in Seq(Sym), NEW y \in Seq(Sym), Comes(b, 0, x), Comes(x, 0, y)
    PROVE  Comes(b, 0, y)
<1>1. Len(b) \in Nat /\ Len(x) \in Nat /\ Len(y) \in Nat
    OBVIOUS
<1>2. 0 + Len(x) <= Len(b) /\ 0 + Len(y) <= Len(x)
    BY DEF Comes
<1>3. ASSUME NEW k \in 1..Len(y) PROVE b[0 + k] = y[k]
    <2>1. k \in 1..Len(x) /\ 0 + k = k
        BY <1>1, <1>2
    <2>2. b[0 + k] = x[k] /\ x[0 + k] = y[k]
        BY <2>1 DEF Comes
    <2> QED BY <2>1, <2>2
<1>4. 0 + Len(y) <= Len(b)
    BY <1>1, <1>2
<1> QED BY <1>3, <1>4 DEF Comes

\* What is written of a map before and after each of its items.
Maps == {m \in Seq(Values \X Values) : Len(m) \in Room}
MapParts(m) ==
    CHOOSE parts : parts = [k \in 0..Len(m) |->
        IF k = 0 THEN Passkey!EncodeHead(5, Len(m))
        ELSE parts[k - 1] \o Passkey!EncodeValue(m[k][1]) \o Passkey!EncodeValue(m[k][2])]

LEMMA MapIs == ASSUME NEW m PROVE Passkey!EncodeMap(m) = MapParts(m)[Len(m)]
BY DEF Passkey!EncodeMap, MapParts

LEMMA MapItems ==
    ASSUME NEW m \in Maps
    PROVE  /\ Len(m) \in Nat /\ Len(m) \in Room /\ m \in Seq(Values \X Values)
           /\ \A k \in 1..Len(m) :
                /\ m[k] \in Values \X Values /\ m[k][1] \in Values /\ m[k][2] \in Values
                /\ m[k] = <<m[k][1], m[k][2]>>
                /\ Passkey!EncodeValue(m[k][1]) \in Seq(Sym) /\ Passkey!EncodeValue(m[k][2]) \in Seq(Sym)
<1>1. m \in Seq(Values \X Values) /\ Len(m) \in Room /\ Len(m) \in Nat
    BY ShiftsAre DEF Maps
<1>2. ASSUME NEW k \in 1..Len(m)
      PROVE  /\ m[k] \in Values \X Values /\ m[k][1] \in Values /\ m[k][2] \in Values
             /\ m[k] = <<m[k][1], m[k][2]>>
    <2>1. m[k] \in Values \X Values
        BY <1>1, Elements
    <2>2. \A x \in Values \X Values : x[1] \in Values /\ x[2] \in Values /\ x = <<x[1], x[2]>>
        OBVIOUS
    <2> QED BY <2>1, <2>2
<1> QED BY <1>1, <1>2, ValueTyped

LEMMA MapSteps ==
    ASSUME NEW m \in Maps
    PROVE  /\ MapParts(m)[0] = Passkey!EncodeHead(5, Len(m))
           /\ \A k \in 1..Len(m) :
                MapParts(m)[k] = MapParts(m)[k - 1] \o Passkey!EncodeValue(m[k][1]) \o Passkey!EncodeValue(m[k][2])
           /\ \A k \in 0..Len(m) : MapParts(m)[k] \in Seq(Sym)
<1> DEFINE n == Len(m)
           S == Seq(Sym)
           h == Passkey!EncodeHead(5, n)
           X(k) == Passkey!EncodeValue(m[k][1])
           Y(k) == Passkey!EncodeValue(m[k][2])
           G == [p \in (1..n) \X S |-> p[2] \o X(p[1]) \o Y(p[1])]
           Is(f) == f = [k \in 0..n |-> IF k = 0 THEN h ELSE f[k - 1] \o X(k) \o Y(k)]
<1>0. n \in Nat /\ h \in S /\ \A k \in 1..n : X(k) \in S /\ Y(k) \in S
    <2>1. n \in Room /\ 5 \in 0..5
        BY MapItems
    <2> QED BY <2>1, MapItems, HeadTyped
<1>r. MapParts(m) = CHOOSE f : Is(f)
    BY DEF MapParts
<1> HIDE DEF n, h, X, Y, S
<1>1. StepsOn(G, n, S)
    <2>1. ASSUME NEW p \in (1..n) \X S PROVE p[2] \o X(p[1]) \o Y(p[1]) \in S
        <3>1. p[1] \in 1..n /\ p[2] \in S
            OBVIOUS
        <3>2. X(p[1]) \in S /\ Y(p[1]) \in S
            BY <1>0, <3>1
        <3> QED BY <3>1, <3>2, Together DEF S
    <2> QED BY <2>1 DEF StepsOn
<1>2. \A k \in 1..n, x \in S : G[<<k, x>>] = x \o X(k) \o Y(k)
    OBVIOUS
<1> HIDE DEF G
<1>4. PICK f : Iterates(f, n, S, h, G)
    BY <1>0, <1>1, Iterated
<1>5. f \in [0..n -> S] /\ f[0] = h /\ \A k \in 1..n : f[k] = f[k - 1] \o X(k) \o Y(k)
    <2>1. f \in [0..n -> S] /\ f[0] = h /\ \A k \in 1..n : f[k] = G[<<k, f[k - 1]>>]
        BY <1>4 DEF Iterates
    <2>2. ASSUME NEW k \in 1..n PROVE f[k] = f[k - 1] \o X(k) \o Y(k)
        <3>1. k - 1 \in 0..n
            BY <1>0
        <3>2. f[k - 1] \in S /\ f[k] = G[<<k, f[k - 1]>>]
            BY <2>1, <3>1
        <3> QED BY <3>2, <1>2
    <2> QED BY <2>1, <2>2
<1>6. Is(f)
    <2>1. ASSUME NEW k \in 0..n PROVE f[k] = IF k = 0 THEN h ELSE f[k - 1] \o X(k) \o Y(k)
        <3>1. CASE k = 0
            BY <3>1, <1>5
        <3>2. CASE k # 0
            <4>1. k \in 1..n
                BY <3>2, <1>0
            <4> QED BY <4>1, <3>2, <1>5
        <3> QED BY <3>1, <3>2
    <2> QED BY <2>1, <1>5
<1> DEFINE r == MapParts(m)
<1>7. Is(r)
    <2> HIDE DEF Is
    <2> QED BY <1>6, <1>r
<1> HIDE DEF r
<1>8. r[0] = h /\ \A k \in 1..n : r[k] = r[k - 1] \o X(k) \o Y(k)
    <2>1. ASSUME NEW k \in 0..n PROVE r[k] = IF k = 0 THEN h ELSE r[k - 1] \o X(k) \o Y(k)
        BY <1>7
    <2>2. 0 \in 0..n /\ \A k \in 1..n : k \in 0..n /\ k # 0
        BY <1>0
    <2> QED BY <2>1, <2>2
<1>9. \A k \in 0..n : r[k] \in S
    <2> DEFINE T == {k \in 0..n : r[k] \in S}
    <2>1. 0 \in T
        BY <1>0, <1>8
    <2>2. ASSUME NEW k \in 1..n, k - 1 \in T PROVE k \in T
        <3>1. k \in 0..n /\ r[k - 1] \in S /\ r[k] = r[k - 1] \o X(k) \o Y(k) /\ X(k) \in S /\ Y(k) \in S
            BY <1>0, <1>8, <2>2
        <3>2. r[k - 1] \o X(k) \o Y(k) \in S
            BY <3>1, Together DEF S
        <3> QED BY <3>1, <3>2
    <2> HIDE DEF T
    <2>3. \A k \in 0..n : k \in T
        BY <1>0, <2>1, <2>2, StepByStep
    <2> QED BY <2>3 DEF T
<1> QED BY <1>8, <1>9 DEF r, n, X, Y, S, h

\* Each item comes, in what is written of the whole map, after what was written before it.
LEMMA MapComes ==
    ASSUME NEW m \in Maps
    PROVE  LET b == Passkey!EncodeMap(m)
           IN  /\ b \in Seq(Sym) /\ Comes(b, 0, Passkey!EncodeHead(5, Len(m)))
               /\ \A k \in 1..Len(m) :
                    LET x == Passkey!EncodeValue(m[k][1])
                        p == Len(MapParts(m)[k - 1])
                    IN  /\ p \in Nat /\ Comes(b, p, x) /\ Comes(b, p + Len(x), Passkey!EncodeValue(m[k][2]))
                        /\ Len(MapParts(m)[k]) = (p + Len(x)) + Len(Passkey!EncodeValue(m[k][2]))
<1> DEFINE n == Len(m)
           r == MapParts(m)
           X(k) == Passkey!EncodeValue(m[k][1])
           Y(k) == Passkey!EncodeValue(m[k][2])
<1>1. /\ n \in Nat /\ r[0] = Passkey!EncodeHead(5, n) /\ Passkey!EncodeMap(m) = r[n]
      /\ \A k \in 1..n : r[k] = r[k - 1] \o X(k) \o Y(k)
      /\ \A k \in 0..n : r[k] \in Seq(Sym)
      /\ \A k \in 1..n : X(k) \in Seq(Sym) /\ Y(k) \in Seq(Sym)
    BY MapItems, MapSteps, MapIs
<1> HIDE DEF n, r, X, Y
<1> DEFINE T == {j \in 0..n : \A k \in 0..j : Comes(r[j], 0, r[k])}
<1>2. 0 \in T
    <2>1. 0 \in 0..n /\ Comes(r[0], 0, r[0])
        BY <1>1, ComesWhole
    <2>2. \A k \in 0..0 : k = 0
        OBVIOUS
    <2> QED BY <2>1, <2>2
<1>3. ASSUME NEW j \in 1..n, j - 1 \in T PROVE j \in T
    <2>1. j \in 0..n /\ j - 1 \in 0..n
        BY <1>1
    <2>2. r[j] \in Seq(Sym) /\ r[j - 1] \in Seq(Sym) /\ X(j) \in Seq(Sym) /\ Y(j) \in Seq(Sym)
        BY <1>1, <2>1
    <2>3. r[j] = (r[j - 1] \o X(j)) \o Y(j) /\ r[j - 1] \o X(j) \in Seq(Sym)
        BY <1>1, <2>2, Together
    <2>4. Comes(r[j], 0, r[j])
        BY <2>2, ComesWhole
    <2>5. Comes(r[j], 0, r[j - 1] \o X(j))
        <3> DEFINE u == r[j - 1] \o X(j)
        <3>1. u \in Seq(Sym) /\ Comes(r[j], 0, u \o Y(j)) /\ 0 \in Nat
            BY <2>3, <2>4
        <3> HIDE DEF u
        <3>2. Comes(r[j], 0, u)
            BY <2>2, <3>1, ComesInTurn
        <3> QED BY <3>2 DEF u
    <2>6. Comes(r[j], 0, r[j - 1])
        BY <2>2, <2>5, ComesInTurn
    <2>7. ASSUME NEW k \in 0..j PROVE Comes(r[j], 0, r[k])
        <3>1. CASE k = j
            BY <2>4, <3>1
        <3>2. CASE k # j
            <4>1. k \in 0..(j - 1) /\ k \in 0..n
                BY <3>2, <1>1
            <4>2. Comes(r[j - 1], 0, r[k]) /\ r[k] \in Seq(Sym)
                BY <4>1, <1>1, <1>3
            <4> QED BY <2>2, <2>6, <4>2, ComesWithin
        <3> QED BY <3>1, <3>2
    <2> QED BY <2>1, <2>7
<1> HIDE DEF T
<1>4. n \in T
    <2>1. \A k \in 0..n : k \in T
        BY <1>1, <1>2, <1>3, StepByStep
    <2> QED BY <1>1, <2>1
<1>5. \A k \in 0..n : Comes(r[n], 0, r[k])
    BY <1>4 DEF T
<1>6. Comes(r[n], 0, r[0]) /\ r[n] \in Seq(Sym)
    BY <1>1, <1>5
<1>7. ASSUME NEW k \in 1..n
      PROVE  /\ Len(r[k - 1]) \in Nat /\ Comes(r[n], Len(r[k - 1]), X(k))
             /\ Comes(r[n], Len(r[k - 1]) + Len(X(k)), Y(k))
             /\ Len(r[k]) = (Len(r[k - 1]) + Len(X(k))) + Len(Y(k))
    <2>1. k \in 0..n /\ k - 1 \in 0..n
        BY <1>1
    <2>2. r[n] \in Seq(Sym) /\ r[k - 1] \in Seq(Sym) /\ X(k) \in Seq(Sym) /\ Y(k) \in Seq(Sym)
        BY <1>1, <2>1
    <2> DEFINE u == r[k - 1] \o X(k)
    <2>3. u \in Seq(Sym) /\ Len(u) = Len(r[k - 1]) + Len(X(k))
        BY <2>2, Together
    <2>4. r[k] = u \o Y(k) /\ Comes(r[n], 0, u \o Y(k)) /\ 0 \in Nat
        BY <1>1, <1>5, <2>1
    <2>5. Comes(r[n], 0, u) /\ Comes(r[n], 0 + Len(u), Y(k)) /\ Len(u \o Y(k)) = Len(u) + Len(Y(k))
        <3> HIDE DEF u
        <3>1. Comes(r[n], 0, u) /\ Comes(r[n], 0 + Len(u), Y(k))
            BY <2>2, <2>3, <2>4, ComesInTurn
        <3>2. Len(u \o Y(k)) = Len(u) + Len(Y(k))
            BY <2>2, <2>3, Together
        <3> QED BY <3>1, <3>2
    <2>6. Len(r[k - 1]) \in Nat /\ Comes(r[n], 0 + Len(r[k - 1]), X(k))
        BY <2>2, <2>5, ComesInTurn
    <2>7. 0 + Len(u) = Len(r[k - 1]) + Len(X(k)) /\ 0 + Len(r[k - 1]) = Len(r[k - 1])
        <3>1. Len(r[k - 1]) \in Nat /\ Len(X(k)) \in Nat
            BY <2>2
        <3> HIDE DEF u
        <3> QED BY <2>3, <3>1
    <2> HIDE DEF u
    <2> QED BY <2>3, <2>4, <2>5, <2>6, <2>7
<1> QED BY <1>1, <1>6, <1>7 DEF n, r, X, Y

\* The item read from a place, and what is read of each.
ItemAfter(b, s) ==
    LET key == Passkey!DecodeValue(b, s.pos)
        value == Passkey!DecodeValue(b, key.pos)
    IN  [map |-> Append(s.map, <<key.value, value.value>>), pos |-> value.pos]
MapRead(b) ==
    LET head == Passkey!DecodeHead(b, 1)
    IN  CHOOSE read : read = [k \in 0..head.length |->
            IF k = 0 THEN [map |-> <<>>, pos |-> head.pos] ELSE ItemAfter(b, read[k - 1])]

LEMMA ReadIs == ASSUME NEW b PROVE Passkey!DecodeMap(b) = MapRead(b)[Passkey!DecodeHead(b, 1).length].map
BY DEF Passkey!DecodeMap, MapRead, ItemAfter

LEMMA PrefixGrows ==
    ASSUME NEW S, NEW m \in Seq(S), NEW k \in 1..Len(m)
    PROVE  Append(SubSeq(m, 1, k - 1), m[k]) = SubSeq(m, 1, k)
<1> DEFINE x == SubSeq(m, 1, k - 1)
           y == SubSeq(m, 1, k)
<1>0. Len(m) \in Nat /\ m[k] \in S /\ k \in Nat
    BY Elements
<1>1. /\ x \in Seq(S) /\ Len(x) = (k - 1) - 1 + 1 /\ \A i \in 1..((k - 1) - 1 + 1) : x[i] = m[1 + i - 1]
      /\ y \in Seq(S) /\ Len(y) = k - 1 + 1 /\ \A i \in 1..(k - 1 + 1) : y[i] = m[1 + i - 1]
    <2>1. 1 \in 1..(Len(m) + 1) /\ k - 1 \in (1 - 1)..Len(m) /\ k \in (1 - 1)..Len(m)
        BY <1>0
    <2> QED BY <2>1, PartOf
<1> HIDE DEF x, y
<1>2. /\ Len(x) = k - 1 /\ Len(y) = k /\ (\A i \in 1..(k - 1) : x[i] = m[i]) /\ \A i \in 1..k : y[i] = m[i]
    <2>1. (k - 1) - 1 + 1 = k - 1 /\ k - 1 + 1 = k /\ \A i \in 1..k : 1 + i - 1 = i
        BY <1>0
    <2>2. \A i \in 1..(k - 1) : i \in 1..k
        BY <1>0
    <2> QED BY <1>1, <2>1, <2>2
<1> DEFINE z == Append(x, m[k])
<1>3. /\ z \in Seq(S) /\ Len(z) = Len(x) + 1 /\ (\A i \in 1..Len(x) : z[i] = x[i]) /\ z[Len(x) + 1] = m[k]
    BY <1>0, <1>1, AppendProperties
<1> HIDE DEF z
<1>4. Len(z) = k
    BY <1>0, <1>2, <1>3
<1>5. ASSUME NEW i \in 1..k PROVE z[i] = y[i]
    <2>1. CASE i = k
        BY <1>0, <1>2, <1>3, <2>1
    <2>2. CASE i # k
        <3>1. i \in 1..(k - 1)
            BY <1>0, <2>2
        <3> QED BY <1>2, <1>3, <3>1
    <2> QED BY <2>1, <2>2
<1>6. z = y
    <2>1. z \in Seq(S) /\ y \in Seq(S) /\ Len(z) = k /\ Len(y) = k
        BY <1>1, <1>2, <1>3, <1>4
    <2> QED BY ONLY <1>5, <2>1
<1> QED BY <1>6 DEF x, y, z

\* A map of CBOR is read back as it was written, whatever its items.
LEMMA MapReads ==
    ASSUME NEW m \in Maps
    PROVE  Passkey!EncodeMap(m) \in Seq(Sym) /\ Passkey!DecodeMap(Passkey!EncodeMap(m)) = m
<1> DEFINE b == Passkey!EncodeMap(m)
           n == Len(m)
           r == MapParts(m)
           head == Passkey!DecodeHead(b, 1)
           ReadAt(k) == [map |-> SubSeq(m, 1, k), pos |-> 1 + Len(r[k])]
           Is(f) == f = [k \in 0..n |-> IF k = 0 THEN [map |-> <<>>, pos |-> head.pos] ELSE ItemAfter(b, f[k - 1])]
<1>1. n \in Nat /\ n \in Room /\ m \in Seq(Values \X Values) /\ b \in Seq(Sym)
    BY MapItems, MapComes
<1>2. head = [major |-> 5, length |-> n, pos |-> 1 + Len(r[0])]
    <2>1. Comes(b, 0, Passkey!EncodeHead(5, n)) /\ 5 \in 0..5 /\ 0 \in Nat /\ r[0] = Passkey!EncodeHead(5, n)
        <3>1. Comes(b, 0, Passkey!EncodeHead(5, n))
            BY MapComes
        <3>2. r[0] = Passkey!EncodeHead(5, n)
            BY MapSteps
        <3> QED BY <3>1, <3>2
    <2>2. Passkey!DecodeHead(b, 0 + 1)
              = [major |-> 5, length |-> n, pos |-> 0 + 1 + Len(Passkey!EncodeHead(5, n))]
        <3> HIDE DEF b
        <3> QED BY <1>1, <2>1, HeadReads
    <2>3. 0 + 1 = 1
        OBVIOUS
    <2> HIDE DEF b, r
    <2> QED BY <2>1, <2>2, <2>3
<1>3. ReadAt(0) = [map |-> <<>>, pos |-> head.pos]
    <2>1. SubSeq(m, 1, 0) = <<>>
        BY <1>1
    <2>2. head.pos = 1 + Len(r[0])
        BY <1>2
    <2> QED BY <2>1, <2>2
<1>4. ASSUME NEW k \in 1..n PROVE ReadAt(k) = ItemAfter(b, ReadAt(k - 1))
    <2> DEFINE x == Passkey!EncodeValue(m[k][1])
               y == Passkey!EncodeValue(m[k][2])
               p == Len(r[k - 1])
               key == Passkey!DecodeValue(b, p + 1)
               value == Passkey!DecodeValue(b, key.pos)
    <2>1. /\ p \in Nat /\ Comes(b, p, x) /\ Comes(b, p + Len(x), y) /\ Len(r[k]) = (p + Len(x)) + Len(y)
          /\ m[k][1] \in Values /\ m[k][2] \in Values /\ m[k] = <<m[k][1], m[k][2]>>
          /\ x \in Seq(Sym) /\ y \in Seq(Sym)
        BY MapComes, MapItems
    <2>2. key = [value |-> m[k][1], pos |-> p + 1 + Len(x)]
        <3> HIDE DEF b, p
        <3> QED BY <1>1, <2>1, ValueReads
    <2>3. p + Len(x) \in Nat /\ (p + Len(x)) + 1 = p + 1 + Len(x) /\ (p + Len(x)) + 1 + Len(y) = 1 + Len(r[k])
        <3>1. Len(x) \in Nat /\ Len(y) \in Nat
            BY <2>1
        <3> HIDE DEF x, y, p, r
        <3> QED BY <2>1, <3>1
    <2>4. Passkey!DecodeValue(b, (p + Len(x)) + 1) = [value |-> m[k][2], pos |-> (p + Len(x)) + 1 + Len(y)]
        <3> DEFINE q == p + Len(x)
        <3>1. q \in Nat /\ Comes(b, q, y)
            BY <2>1, <2>3
        <3> HIDE DEF b, q
        <3>2. Passkey!DecodeValue(b, q + 1) = [value |-> m[k][2], pos |-> q + 1 + Len(y)]
            BY <1>1, <2>1, <3>1, ValueReads
        <3> QED BY <3>2 DEF q
    <2> HIDE DEF x, y, p, b, r
    <2>5. key.value = m[k][1] /\ value.value = m[k][2] /\ value.pos = 1 + Len(r[k])
        BY <2>2, <2>3, <2>4
    <2>6. Append(SubSeq(m, 1, k - 1), m[k]) = SubSeq(m, 1, k)
        BY <1>1, PrefixGrows
    <2>7. ReadAt(k - 1).pos = p + 1 /\ ReadAt(k - 1).map = SubSeq(m, 1, k - 1)
        BY <2>1 DEF p
    <2> HIDE DEF ReadAt
    <2>8. ItemAfter(b, ReadAt(k - 1))
              = [map |-> Append(ReadAt(k - 1).map, <<key.value, value.value>>), pos |-> value.pos]
        BY <2>7 DEF ItemAfter
    <2>9. ItemAfter(b, ReadAt(k - 1)) = [map |-> SubSeq(m, 1, k), pos |-> 1 + Len(r[k])]
        <3>1. <<key.value, value.value>> = m[k]
            BY <2>1, <2>5
        <3> HIDE DEF key, value
        <3> QED BY <2>5, <2>6, <2>7, <2>8, <3>1
    <2> QED BY <2>9 DEF ReadAt
<1>5. head.length = n
    BY <1>2
<1>r. MapRead(b) = CHOOSE f : Is(f)
    BY <1>5 DEF MapRead
<1> HIDE DEF b, n, r, head, ReadAt
<1>6. Is([k \in 0..n |-> ReadAt(k)])
    <2> DEFINE f == [k \in 0..n |-> ReadAt(k)]
    <2>1. ASSUME NEW k \in 0..n
          PROVE  f[k] = IF k = 0 THEN [map |-> <<>>, pos |-> head.pos] ELSE ItemAfter(b, f[k - 1])
        <3>1. CASE k = 0
            BY <3>1, <1>3
        <3>2. CASE k # 0
            <4>1. k \in 1..n /\ k - 1 \in 0..n
                BY <3>2, <1>1
            <4>2. f[k] = ReadAt(k) /\ f[k - 1] = ReadAt(k - 1)
                BY <4>1
            <4> HIDE DEF f
            <4> QED BY <4>1, <4>2, <3>2, <1>4
        <3> HIDE DEF f
        <3> QED BY <3>1, <3>2
    <2>2. f = [k \in 0..n |-> f[k]]
        OBVIOUS
    <2> HIDE DEF f
    <2>3. Is(f)
        BY <2>1, <2>2
    <2> QED BY <2>3 DEF f
<1> DEFINE g == MapRead(b)
<1>7. Is(g)
    <2> HIDE DEF Is
    <2> QED BY <1>6, <1>r
<1> HIDE DEF g
<1>8. \A k \in 0..n : g[k] = ReadAt(k)
    <2> DEFINE T == {k \in 0..n : g[k] = ReadAt(k)}
    <2>1. 0 \in T
        <3>1. 0 \in 0..n
            BY <1>1
        <3>2. g[0] = [map |-> <<>>, pos |-> head.pos]
            BY <1>7, <3>1
        <3> QED BY <1>3, <3>1, <3>2
    <2>2. ASSUME NEW k \in 1..n, k - 1 \in T PROVE k \in T
        <3>1. k \in 0..n /\ k # 0 /\ g[k - 1] = ReadAt(k - 1)
            BY <1>1, <2>2
        <3>2. g[k] = ItemAfter(b, g[k - 1])
            BY <1>7, <3>1
        <3>3. g[k] = ReadAt(k)
            BY <1>4, <3>1, <3>2
        <3> QED BY <3>1, <3>3
    <2> HIDE DEF T
    <2>3. \A k \in 0..n : k \in T
        BY <1>1, <2>1, <2>2, StepByStep
    <2> QED BY <2>3 DEF T
<1>9. g[n].map = SubSeq(m, 1, n)
    <2>1. n \in 0..n
        BY <1>1
    <2>2. g[n] = ReadAt(n)
        BY <1>8, <2>1
    <2>3. ReadAt(n).map = SubSeq(m, 1, n)
        BY DEF ReadAt
    <2> QED BY <2>2, <2>3
<1>10. SubSeq(m, 1, n) = m
    BY <1>1 DEF n
<1>11. Passkey!DecodeMap(b) = m
    BY <1>5, <1>9, <1>10, ReadIs DEF g, head
<1> QED BY <1>1, <1>11 DEF b

\* What is stored under a key that is there once.
LEMMA ValueAt ==
    ASSUME NEW m, NEW n \in Nat, DOMAIN m = 1..n, NEW i \in 1..n, NEW key, m[i][1] = key,
           \A j \in 1..n : m[j][1] = key => j = i
    PROVE  Passkey!Value(m, key) = m[i][2]
<1> DEFINE Holding(j) == j \in DOMAIN m /\ m[j][1] = key /\ \A l \in DOMAIN m : m[l][1] = key => l <= j
<1>1. Holding(i)
    <2>1. \A l \in DOMAIN m : m[l][1] = key => l <= i
        OBVIOUS
    <2> QED BY <2>1
<1>2. \A j : Holding(j) => j = i
    OBVIOUS
<1>3. (CHOOSE j \in DOMAIN m : m[j][1] = key /\ \A l \in DOMAIN m : m[l][1] = key => l <= j) = i
    BY <1>1, <1>2
<1> QED BY <1>3 DEF Passkey!Value

LEMMA TextsDiffer ==
    ASSUME NEW s \in Words, NEW t \in Words, Passkey!Text(s) = Passkey!Text(t)
    PROVE  s = t
<1>1. Passkey!Text(s).b = <<s>> /\ Passkey!Text(t).b = <<t>>
    BY DEF Passkey!Text
<1>2. <<s>> = <<t>>
    BY <1>1
<1> QED BY <1>2

-----------------------------------------------------------------------------
(* PasskeyRecords: the jobs.                                               *)

\* Byte strings are no longer than a length of two bytes says, counters are of four bytes.
PasskeyConstants ==
    /\ ByteLengths \subseteq 0..(256 * 256 - 1)
    /\ SignCounts \subseteq Room
    /\ SignatureBytes \subseteq 0..255
    /\ NumberBytes \in 1..60
    /\ None \notin {"", "site", "user", "old", "plain", "url", "pem", "bad"} /\ None \notin Nat

LEMMA OpaqueTyped ==
    ASSUME NEW n \in 0..(256 * 256 - 1)
    PROVE  Passkey!Opaque(n) \in Pieces /\ Len(Passkey!Opaque(n)) = n
<1> DEFINE s == Passkey!Opaque(n)
<1>1. "b" \in Sym
    BY DEF Sym, Words
<1>2. s \in [1..n -> Sym]
    BY <1>1 DEF Passkey!Opaque
<1>3. n \in Nat /\ n \in Room
    <2>1. Passkey!Bits8 * Passkey!Bits24 - 1 = 256 * 256 * 256 * 256 - 1
        BY ShiftsAre
    <2> QED BY <2>1 DEF Room
<1> HIDE DEF s
<1>4. s \in Seq(Sym) /\ Len(s) = n
    BY <1>2, <1>3
<1> QED BY <1>3, <1>4 DEF Pieces, s

LEMMA PassRecords ==
    ASSUME PasskeyConstants, NEW r \in Passkey!Records
    PROVE  /\ r = [credentialId |-> r.credentialId, privateKey |-> r.privateKey, userHandle |-> r.userHandle,
                   algorithm |-> r.algorithm, rpId |-> "site", signCount |-> r.signCount]
           /\ r.credentialId \in Pieces /\ r.privateKey \in Pieces /\ r.userHandle \in Pieces
           /\ r.algorithm \in {"ES256", "RS256", "EdDSA", "v1"} /\ r.signCount \in Room
<1>1. 32 \in 0..(256 * 256 - 1)
    OBVIOUS
<1>2. Passkey!Opaque(32) \in Pieces /\ \A n \in ByteLengths : Passkey!Opaque(n) \in Pieces
    BY <1>1, OpaqueTyped, ZenonT(30) DEF PasskeyConstants
<1>3. PICK c \in {Passkey!Opaque(32)}, k \in {Passkey!Opaque(n) : n \in ByteLengths},
           u \in {Passkey!Opaque(n) : n \in ByteLengths}, a \in {"ES256", "RS256", "EdDSA", "v1"}, n \in SignCounts :
          r = [credentialId |-> c, privateKey |-> k, userHandle |-> u, algorithm |-> a, rpId |-> "site", signCount |-> n]
    BY DEF Passkey!Records
<1>4. c \in Pieces /\ k \in Pieces /\ u \in Pieces /\ n \in Room
    BY <1>2, ZenonT(30) DEF PasskeyConstants
<1> QED BY <1>3, <1>4

\* A passkey is read back as it was written; one of the first version has its algorithm.
LEMMA NativeReads ==
    ASSUME PasskeyConstants, NEW r \in Passkey!Records
    PROVE  Passkey!DecodeNativeRecord(Passkey!EncodeNativeRecord(r))
               = [r EXCEPT !.algorithm = IF @ = "v1" THEN "ES256" ELSE @]
<1> DEFINE names == <<"v", "cid", "pk", "uh", "alg", "rp", "sc">>
           alg == IF r.algorithm = "v1" THEN Passkey!Num(-7) ELSE Passkey!Text(r.algorithm)
           vals == <<Passkey!Num(2), Passkey!Bytes(r.credentialId), Passkey!Bytes(r.privateKey),
                     Passkey!Bytes(r.userHandle), alg, Passkey!Text(r.rpId), Passkey!Num(r.signCount)>>
           m == <<<<Passkey!Text("v"), Passkey!Num(2)>>, <<Passkey!Text("cid"), Passkey!Bytes(r.credentialId)>>,
                  <<Passkey!Text("pk"), Passkey!Bytes(r.privateKey)>>, <<Passkey!Text("uh"), Passkey!Bytes(r.userHandle)>>,
                  <<Passkey!Text("alg"), alg>>, <<Passkey!Text("rp"), Passkey!Text(r.rpId)>>,
                  <<Passkey!Text("sc"), Passkey!Num(r.signCount)>>>>
<1>1. /\ Passkey!Num(2) \in Values /\ Passkey!Num(r.signCount) \in Values
      /\ Passkey!Bytes(r.credentialId) \in Values /\ Passkey!Bytes(r.privateKey) \in Values
      /\ Passkey!Bytes(r.userHandle) \in Values /\ Passkey!Text(r.rpId) \in Values
    <2>1. 2 \in Room
        BY RoomHas
    <2>2. r.rpId \in Words
        BY PassRecords DEF Words
    <2> QED BY <2>1, <2>2, PassRecords DEF Values
<1>2. alg \in Values
    <2>1. 6 \in Room /\ -7 = -1 - 6
        BY RoomHas
    <2>2. Passkey!Num(-7) \in Values
        BY <2>1 DEF Values
    <2>3. Passkey!Text(r.algorithm) \in Values
        <3>1. r.algorithm \in Words
            BY PassRecords DEF Words
        <3> QED BY <3>1 DEF Values
    <2> QED BY <2>2, <2>3
<1>3. \A t \in Words : Passkey!Text(t) \in Values
    BY DEF Values
<1> HIDE DEF alg
<1>4. m \in Maps /\ DOMAIN m = 1..7
    <2>1. /\ "v" \in Words /\ "cid" \in Words /\ "pk" \in Words /\ "uh" \in Words
          /\ "alg" \in Words /\ "rp" \in Words /\ "sc" \in Words
        BY DEF Words
    <2>2. /\ Passkey!Text("v") \in Values /\ Passkey!Text("cid") \in Values /\ Passkey!Text("pk") \in Values
          /\ Passkey!Text("uh") \in Values /\ Passkey!Text("alg") \in Values /\ Passkey!Text("rp") \in Values
          /\ Passkey!Text("sc") \in Values
        BY <1>3, <2>1
    <2>3. m \in Seq(Values \X Values) /\ Len(m) = 7
        BY <1>1, <1>2, <2>2
    <2>4. 7 \in Room /\ DOMAIN m = 1..Len(m)
        BY <2>3, RoomHas
    <2> QED BY <2>3, <2>4 DEF Maps
<1>5. \A i \in 1..7 : m[i][1] = Passkey!Text(names[i]) /\ m[i][2] = vals[i] /\ names[i] \in Words
    BY DEF Words
<1>6. \A i, j \in 1..7 : names[i] = names[j] => i = j
    OBVIOUS
<1> HIDE DEF m, names, vals
<1>7. ASSUME NEW i \in 1..7 PROVE Passkey!Value(m, Passkey!Text(names[i])) = vals[i]
    <2>1. ASSUME NEW j \in 1..7, m[j][1] = Passkey!Text(names[i]) PROVE j = i
        <3>1. names[j] = names[i]
            BY <1>5, <2>1, TextsDiffer
        <3> QED BY <3>1, <1>6
    <2>2. 7 \in Nat /\ m[i][1] = Passkey!Text(names[i]) /\ m[i][2] = vals[i]
        BY <1>5
    <2> QED BY <1>4, <2>1, <2>2, ValueAt
<1>8. Passkey!EncodeNativeRecord(r) = Passkey!EncodeMap(m)
    BY DEF Passkey!EncodeNativeRecord, m, alg
<1>9. Passkey!DecodeMap(Passkey!EncodeMap(m)) = m
    BY <1>4, MapReads
<1>10. /\ Passkey!Value(m, Passkey!Text("cid")).b = r.credentialId
       /\ Passkey!Value(m, Passkey!Text("pk")).b = r.privateKey
       /\ Passkey!Value(m, Passkey!Text("uh")).b = r.userHandle
    <2>1. names[2] = "cid" /\ names[3] = "pk" /\ names[4] = "uh"
        BY DEF names
    <2>2. vals[2].b = r.credentialId /\ vals[3].b = r.privateKey /\ vals[4].b = r.userHandle
        BY DEF vals, Passkey!Bytes
    <2>3. 2 \in 1..7 /\ 3 \in 1..7 /\ 4 \in 1..7
        OBVIOUS
    <2> QED BY <1>7, <2>1, <2>2, <2>3
<1>11. /\ Passkey!Value(m, Passkey!Text("alg")) = alg
       /\ Passkey!Value(m, Passkey!Text("rp")).b[1] = "site"
       /\ Passkey!Value(m, Passkey!Text("sc")).n = r.signCount
    <2>1. names[5] = "alg" /\ names[6] = "rp" /\ names[7] = "sc"
        BY DEF names
    <2>2. vals[5] = alg /\ vals[6].b[1] = r.rpId /\ vals[7].n = r.signCount /\ r.rpId = "site"
        BY PassRecords DEF vals, Passkey!Text, Passkey!Num
    <2>3. 5 \in 1..7 /\ 6 \in 1..7 /\ 7 \in 1..7
        OBVIOUS
    <2> QED BY <1>7, <2>1, <2>2, <2>3
<1> DEFINE name == IF alg = Passkey!Num(-7) THEN "ES256" ELSE alg.b[1]
<1>12. name = IF r.algorithm = "v1" THEN "ES256" ELSE r.algorithm
    <2>1. CASE r.algorithm = "v1"
        BY <2>1 DEF alg
    <2>2. CASE r.algorithm # "v1"
        <3>1. alg.type = "text" /\ alg.b[1] = r.algorithm /\ Passkey!Num(-7).type = "int"
            BY <2>2 DEF alg, Passkey!Text, Passkey!Num
        <3>2. "text" # "int"
            OBVIOUS
        <3>3. alg # Passkey!Num(-7)
            BY <3>1, <3>2
        <3> QED BY <2>2, <3>1, <3>3
    <2> QED BY <2>1, <2>2
<1>13. Passkey!DecodeNativeRecord(Passkey!EncodeMap(m))
          = [credentialId |-> r.credentialId, privateKey |-> r.privateKey, userHandle |-> r.userHandle,
             algorithm |-> name, rpId |-> "site", signCount |-> r.signCount]
    <2> HIDE DEF alg
    <2> QED BY <1>9, <1>10, <1>11 DEF Passkey!DecodeNativeRecord
<1> HIDE DEF name
<1>14. [r EXCEPT !.algorithm = IF @ = "v1" THEN "ES256" ELSE @]
          = [credentialId |-> r.credentialId, privateKey |-> r.privateKey, userHandle |-> r.userHandle,
             algorithm |-> name, rpId |-> "site", signCount |-> r.signCount]
    <2>1. PICK c, k, u, a, n : r = [credentialId |-> c, privateKey |-> k, userHandle |-> u, algorithm |-> a,
                                    rpId |-> "site", signCount |-> n]
        BY PassRecords
    <2>2. name = IF a = "v1" THEN "ES256" ELSE a
        BY <1>12, <2>1
    <2> QED BY <2>1, <2>2
<1> QED BY <1>8, <1>13, <1>14

-----------------------------------------------------------------------------
(* PasskeyRecords: numbers of several bytes, and signatures.               *)

Sums(b) == CHOOSE upto : upto = [k \in 0..Len(b) |-> IF k = 0 THEN 0 ELSE upto[k - 1] * 256 + b[k]]

LEMMA SumSteps ==
    ASSUME NEW b \in Seq(Nat)
    PROVE  /\ Passkey!Unsigned(b) = Sums(b)[Len(b)]
           /\ Sums(b)[0] = 0
           /\ \A k \in 1..Len(b) : Sums(b)[k] = Sums(b)[k - 1] * 256 + b[k]
           /\ \A k \in 0..Len(b) : Sums(b)[k] \in Nat
<1> DEFINE n == Len(b)
           G == [p \in (1..n) \X Nat |-> p[2] * 256 + b[p[1]]]
           Is(f) == f = [k \in 0..n |-> IF k = 0 THEN 0 ELSE f[k - 1] * 256 + b[k]]
           r == Sums(b)
<1>0. n \in Nat /\ \A k \in 1..n : b[k] \in Nat
    BY Elements
<1>r. r = CHOOSE f : Is(f)
    BY DEF Sums
<1>u. Passkey!Unsigned(b) = r[n]
    BY DEF Passkey!Unsigned, Sums
<1> HIDE DEF n, r
<1>1. StepsOn(G, n, Nat)
    <2>1. ASSUME NEW p \in (1..n) \X Nat PROVE p[2] * 256 + b[p[1]] \in Nat
        <3>1. b[p[1]] \in Nat /\ p[2] \in Nat
            BY <1>0
        <3> QED BY <3>1
    <2> QED BY <2>1 DEF StepsOn
<1>2. \A k \in 1..n, x \in Nat : G[<<k, x>>] = x * 256 + b[k]
    OBVIOUS
<1> HIDE DEF G
<1>3. 0 \in Nat
    OBVIOUS
<1>4. PICK f : Iterates(f, n, Nat, 0, G)
    BY <1>0, <1>1, <1>3, Iterated
<1>5. f \in [0..n -> Nat] /\ f[0] = 0 /\ \A k \in 1..n : f[k] = f[k - 1] * 256 + b[k]
    <2>1. f \in [0..n -> Nat] /\ f[0] = 0 /\ \A k \in 1..n : f[k] = G[<<k, f[k - 1]>>]
        BY <1>4 DEF Iterates
    <2>2. ASSUME NEW k \in 1..n PROVE f[k] = f[k - 1] * 256 + b[k]
        <3>1. k - 1 \in 0..n
            BY <1>0
        <3>2. f[k - 1] \in Nat /\ f[k] = G[<<k, f[k - 1]>>]
            BY <2>1, <3>1
        <3> QED BY <3>2, <1>2
    <2> QED BY <2>1, <2>2
<1>6. Is(f)
    <2>1. ASSUME NEW k \in 0..n PROVE f[k] = IF k = 0 THEN 0 ELSE f[k - 1] * 256 + b[k]
        <3>1. CASE k = 0
            BY <3>1, <1>5
        <3>2. CASE k # 0
            <4>1. k \in 1..n
                BY <3>2, <1>0
            <4> QED BY <4>1, <3>2, <1>5
        <3> QED BY <3>1, <3>2
    <2> QED BY <2>1, <1>5
<1>7. Is(r)
    <2> HIDE DEF Is
    <2> QED BY <1>6, <1>r
<1>8. r[0] = 0 /\ \A k \in 1..n : r[k] = r[k - 1] * 256 + b[k]
    <2>1. ASSUME NEW k \in 0..n PROVE r[k] = IF k = 0 THEN 0 ELSE r[k - 1] * 256 + b[k]
        BY <1>7
    <2>2. 0 \in 0..n /\ \A k \in 1..n : k \in 0..n /\ k # 0
        BY <1>0
    <2> QED BY <2>1, <2>2
<1>9. \A k \in 0..n : r[k] \in Nat
    <2> DEFINE T == {k \in 0..n : r[k] \in Nat}
    <2>1. 0 \in T
        BY <1>0, <1>8
    <2>2. ASSUME NEW k \in 1..n, k - 1 \in T PROVE k \in T
        <3>1. k \in 0..n /\ r[k - 1] \in Nat /\ r[k] = r[k - 1] * 256 + b[k] /\ b[k] \in Nat
            BY <1>0, <1>8, <2>2
        <3> QED BY <3>1
    <2> HIDE DEF T
    <2>3. \A k \in 0..n : k \in T
        BY <1>0, <2>1, <2>2, StepByStep
    <2> QED BY <2>3 DEF T
<1> QED BY <1>u, <1>8, <1>9 DEF r, n

\* Zeros before a number change nothing.
LEMMA ZerosBefore ==
    ASSUME NEW x \in Seq(Nat), NEW y \in Seq(Nat), NEW z \in Nat, Len(y) = z + Len(x),
           \A j \in 1..z : y[j] = 0, \A j \in 1..Len(x) : y[z + j] = x[j]
    PROVE  Passkey!Unsigned(y) = Passkey!Unsigned(x)
<1> DEFINE n == Len(x)
           f == Sums(x)
           g == Sums(y)
<1>1. /\ n \in Nat /\ Passkey!Unsigned(x) = f[n] /\ Passkey!Unsigned(y) = g[z + n]
      /\ f[0] = 0 /\ (\A k \in 1..n : f[k] = f[k - 1] * 256 + x[k])
      /\ g[0] = 0 /\ (\A k \in 1..(z + n) : g[k] = g[k - 1] * 256 + y[k])
    <2>1. n \in Nat /\ Len(y) = z + n
        OBVIOUS
    <2>2. Passkey!Unsigned(x) = f[n] /\ f[0] = 0 /\ \A k \in 1..n : f[k] = f[k - 1] * 256 + x[k]
        BY SumSteps
    <2>3. Passkey!Unsigned(y) = g[Len(y)] /\ g[0] = 0 /\ \A k \in 1..Len(y) : g[k] = g[k - 1] * 256 + y[k]
        BY SumSteps
    <2> HIDE DEF n, f, g
    <2> QED BY <2>1, <2>2, <2>3
<1>2. (\A j \in 1..z : y[j] = 0) /\ \A j \in 1..n : y[z + j] = x[j]
    OBVIOUS
<1> HIDE DEF n, f, g
<1>3. \A k \in 0..z : g[k] = 0
    <2> DEFINE T == {k \in 0..z : g[k] = 0}
    <2>1. 0 \in T
        BY <1>1
    <2>2. ASSUME NEW k \in 1..z, k - 1 \in T PROVE k \in T
        <3>1. k \in 1..(z + n) /\ k \in 0..z
            BY <1>1
        <3>2. g[k] = g[k - 1] * 256 + y[k] /\ g[k - 1] = 0 /\ y[k] = 0
            BY <1>1, <1>2, <2>2, <3>1
        <3> QED BY <3>1, <3>2
    <2> HIDE DEF T
    <2>3. \A k \in 0..z : k \in T
        BY <2>1, <2>2, StepByStep
    <2> QED BY <2>3 DEF T
<1>4. \A k \in 0..n : g[z + k] = f[k]
    <2> DEFINE T == {k \in 0..n : g[z + k] = f[k]}
    <2>1. 0 \in T
        <3>1. z \in 0..z /\ z + 0 = z /\ 0 \in 0..n
            BY <1>1
        <3>2. g[z] = 0
            BY <1>3, <3>1
        <3> QED BY <1>1, <3>1, <3>2
    <2>2. ASSUME NEW k \in 1..n, k - 1 \in T PROVE k \in T
        <3>1. z + k \in 1..(z + n) /\ (z + k) - 1 = z + (k - 1) /\ k \in 0..n
            BY <1>1
        <3>2. g[z + k] = g[z + (k - 1)] * 256 + y[z + k]
            BY <1>1, <3>1
        <3>3. g[z + (k - 1)] = f[k - 1] /\ y[z + k] = x[k] /\ f[k] = f[k - 1] * 256 + x[k]
            BY <1>1, <1>2, <2>2
        <3> QED BY <3>1, <3>2, <3>3
    <2> HIDE DEF T
    <2>3. \A k \in 0..n : k \in T
        BY <1>1, <2>1, <2>2, StepByStep
    <2> QED BY <2>3 DEF T
<1>5. n \in 0..n
    BY <1>1
<1> QED BY <1>1, <1>4, <1>5

\* A number is written without leading zeros but one that keeps it positive.
Canonical(x) == x[1] < 128 /\ (Len(x) > 1 /\ x[1] = 0 => x[2] >= 128)
PaddedOf(b) ==
    LET t == Passkey!Trimmed(b) IN IF t[1] >= 128 THEN <<0>> \o t ELSE t

LEMMA PaddedIs == ASSUME NEW b PROVE Passkey!DerInteger(b) = <<2, Len(PaddedOf(b))>> \o PaddedOf(b)
BY DEF Passkey!DerInteger, PaddedOf

LEMMA DerNumber ==
    ASSUME PasskeyConstants, NEW b \in Passkey!Numbers
    PROVE  /\ PaddedOf(b) \in Seq(Nat) /\ Len(PaddedOf(b)) >= 1 /\ Canonical(PaddedOf(b))
           /\ Passkey!Unsigned(PaddedOf(b)) = Passkey!Unsigned(b)
<1> DEFINE n == Len(b)
           S == {i \in 1..n : i = n \/ b[i] # 0}
           Start(i) == i \in DOMAIN b /\ (i = Len(b) \/ b[i] # 0) /\ \A j \in 1..(i - 1) : b[j] = 0
           start == CHOOSE i \in DOMAIN b : (i = Len(b) \/ b[i] # 0) /\ \A j \in 1..(i - 1) : b[j] = 0
           t == SubSeq(b, start, n)
           x == IF t[1] >= 128 THEN <<0>> \o t ELSE t
<1>1. b \in Seq(Nat) /\ n \in Nat /\ n >= 1 /\ DOMAIN b = 1..n /\ \A i \in 1..n : b[i] \in 0..255
    <2>1. NumberBytes \in Nat /\ NumberBytes >= 1
        <3>1. NumberBytes \in 1..60
            BY Zenon DEF PasskeyConstants
        <3> QED BY <3>1
    <2>2. SignatureBytes \subseteq 0..255
        BY DEF PasskeyConstants
    <2>3. b \in [1..NumberBytes -> SignatureBytes]
        BY DEF Passkey!Numbers
    <2>4. \A i \in 1..NumberBytes : b[i] \in 0..255
        BY <2>2, <2>3
    <2>5. b \in [1..NumberBytes -> Nat]
        <3>1. \A i \in 1..NumberBytes : b[i] \in Nat
            BY <2>4
        <3>2. b = [i \in 1..NumberBytes |-> b[i]]
            BY <2>3
        <3> QED BY <3>1, <3>2
    <2>6. b \in Seq(Nat) /\ Len(b) = NumberBytes /\ DOMAIN b = 1..NumberBytes
        BY <2>1, <2>5
    <2> QED BY <2>1, <2>4, <2>6
<1>2. Start(start)
    <2>1. S \in SUBSET Nat /\ n \in S
        BY <1>1
    <2> HIDE DEF n
    <2>2. PICK i \in S : \A j \in S : i <= j
        <3> HIDE DEF S
        <3> QED BY <2>1, LeastOf
    <2>3. i \in 1..n /\ (i = n \/ b[i] # 0)
        BY <2>2
    <2>4. ASSUME NEW j \in 1..(i - 1) PROVE b[j] = 0
        <3>1. j \in 1..n /\ ~(i <= j)
            BY <1>1, <2>3
        <3>2. j \notin S
            BY <2>2, <3>1
        <3> QED BY <3>1, <3>2
    <2>5. Start(i)
        BY <1>1, <2>3, <2>4 DEF n
    <2> HIDE DEF S
    <2> QED BY <2>5
<1>3. start \in 1..n /\ (start = n \/ b[start] # 0) /\ \A j \in 1..(start - 1) : b[j] = 0
    <2> HIDE DEF start
    <2> QED BY <1>1, <1>2
<1>4. Passkey!Trimmed(b) = t
    BY DEF Passkey!Trimmed
<1> HIDE DEF start, Start, S
<1> DEFINE m == (n - start) + 1
<1>5. t \in Seq(Nat) /\ Len(t) = m /\ m \in Nat /\ m >= 1
      /\ \A i \in 1..m : t[i] = b[(start + i) - 1]
    <2>1. start \in 1..(Len(b) + 1) /\ n \in (start - 1)..Len(b) /\ n - start + 1 = m /\ m \in Nat /\ m >= 1
        <3>1. n = Len(b)
            OBVIOUS
        <3>2. start \in 1..n /\ n \in Nat
            BY <1>1, <1>3
        <3>3. start \in 1..(n + 1) /\ n \in (start - 1)..n /\ (n - start) + 1 \in Nat /\ (n - start) + 1 >= 1
            <4> HIDE DEF n
            <4> QED BY <3>2
        <3> QED BY <3>1, <3>3
    <2> HIDE DEF n
    <2>2. /\ t \in Seq(Nat) /\ Len(t) = n - start + 1
          /\ \A i \in 1..(n - start + 1) : t[i] = b[start + i - 1]
        BY <1>1, <2>1, PartOf
    <2> HIDE DEF t, m
    <2>3. ASSUME NEW i \in 1..m PROVE t[i] = b[(start + i) - 1]
        <3>1. start + i - 1 = (start + i) - 1
            BY <1>3, <2>1
        <3> QED BY <2>1, <2>2, <3>1
    <2> QED BY <2>1, <2>2, <2>3
<1>n. n = Len(b)
    OBVIOUS
<1>m. m = (n - start) + 1
    OBVIOUS
<1> HIDE DEF t, n, m
<1>6. t[1] = b[start] /\ t[1] \in 0..255
    <2>1. 1 \in 1..m /\ (start + 1) - 1 = start
        BY <1>1, <1>3, <1>5
    <2> QED BY <1>1, <1>3, <1>5, <2>1, ZenonT(30)
<1>7. Passkey!Unsigned(b) = Passkey!Unsigned(t)
    <2> DEFINE z == start - 1
    <2>1. z \in Nat /\ Len(b) = z + Len(t) /\ \A j \in 1..z : b[j] = 0
        <3>1. start \in Nat /\ start >= 1
            BY <1>1, <1>3
        <3>2. z \in Nat /\ n = z + m
            BY <1>1, <3>1, <1>m
        <3> QED BY <1>3, <1>5, <1>n, <3>2
    <2>2. ASSUME NEW j \in 1..Len(t) PROVE b[z + j] = t[j]
        <3>1. j \in 1..m /\ z + j = (start + j) - 1
            BY <1>1, <1>3, <1>5
        <3> QED BY <1>5, <3>1
    <2> HIDE DEF z
    <2> QED BY <1>1, <1>5, <2>1, <2>2, ZerosBefore
<1>8. PaddedOf(b) = x
    BY <1>4 DEF PaddedOf
<1>9. CASE t[1] >= 128
    <2> DEFINE y == <<0>> \o t
    <2>1. <<0>> \in Seq(Nat) /\ Len(<<0>>) = 1 /\ <<0>>[1] = 0
        OBVIOUS
    <2>2. /\ y \in Seq(Nat) /\ Len(y) = 1 + Len(t) /\ y[1] = 0 /\ \A i \in 1..Len(t) : y[1 + i] = t[i]
        <3>1. /\ y \in Seq(Nat) /\ Len(y) = Len(<<0>>) + Len(t) /\ (\A i \in 1..Len(<<0>>) : y[i] = <<0>>[i])
              /\ \A i \in 1..Len(t) : y[Len(<<0>>) + i] = t[i]
            BY <1>5, <2>1, Together
        <3>2. 1 \in 1..Len(<<0>>)
            BY <2>1
        <3> HIDE DEF y
        <3> QED BY <2>1, <3>1, <3>2
    <2> HIDE DEF y
    <2>3. \A j \in 1..1 : y[j] = 0
        BY <2>2
    <2>4. Passkey!Unsigned(y) = Passkey!Unsigned(t)
        BY <1>5, <2>2, <2>3, ZerosBefore
    <2>5. y[2] = t[1]
        <3>1. 1 \in 1..Len(t) /\ 1 + 1 = 2
            BY <1>5, <1>6
        <3> QED BY <2>2, <3>1
    <2>6. Canonical(y) /\ Len(y) >= 1
        BY <1>5, <1>6, <1>9, <2>2, <2>5 DEF Canonical
    <2>7. x = y
        BY <1>9 DEF y
    <2> HIDE DEF x
    <2> QED BY <1>7, <1>8, <2>2, <2>4, <2>6, <2>7
<1>10. CASE ~(t[1] >= 128)
    <2>1. x = t
        BY <1>10
    <2>2. t[1] < 128
        BY <1>6, <1>10
    <2>3. Len(t) > 1 => t[1] # 0
        BY <1>1, <1>3, <1>5, <1>6, <1>m
    <2>4. Canonical(t)
        BY <2>2, <2>3 DEF Canonical
    <2> HIDE DEF x
    <2> QED BY <1>5, <1>6, <1>7, <1>8, <2>1, <2>4
<1> QED BY <1>9, <1>10

LEMMA NatsAreSym == ASSUME NEW x \in Seq(Nat) PROVE x \in Seq(Sym) /\ Len(x) \in Nat
<1>1. Nat \subseteq Sym
    BY DEF Sym
<1>2. Len(x) \in Nat /\ x = [i \in 1..Len(x) |-> x[i]] /\ \A i \in 1..Len(x) : x[i] \in Nat
    OBVIOUS
<1>3. \A i \in 1..Len(x) : x[i] \in Sym
    BY <1>1, <1>2
<1> QED BY <1>2, <1>3

LEMMA PairTyped ==
    ASSUME NEW i \in Int, NEW j \in Int
    PROVE  <<i, j>> \in Seq(Sym) /\ Len(<<i, j>>) = 2 /\ <<i, j>>[1] = i /\ <<i, j>>[2] = j
<1>1. i \in Sym /\ j \in Sym
    BY DEF Sym
<1> QED BY <1>1

DerOf(l, x, y) == <<48, l>> \o ((<<2, Len(x)>> \o x) \o (<<2, Len(y)>> \o y))

\* The two numbers are found where their lengths say.
LEMMA NumbersFound ==
    ASSUME NEW x \in Seq(Sym), NEW y \in Seq(Sym), NEW l \in Nat,
           NEW b, b = DerOf(l, x, y)
    PROVE  /\ SubSeq(b, 5, 4 + b[4]) = x
           /\ SubSeq(b, 7 + b[4], (6 + b[4]) + b[6 + b[4]]) = y
<1> DEFINE m == Len(x)
           n == Len(y)
           h == <<48, l>>
           i == <<2, m>>
           j == <<2, n>>
<1>1. m \in Nat /\ n \in Nat
    OBVIOUS
<1>2. /\ h \in Seq(Sym) /\ Len(h) = 2 /\ i \in Seq(Sym) /\ Len(i) = 2 /\ i[2] = m
      /\ j \in Seq(Sym) /\ Len(j) = 2 /\ j[2] = n
    BY <1>1, PairTyped
<1>3. b = h \o ((i \o x) \o (j \o y))
    BY DEF DerOf
<1> HIDE DEF h, i, j
<1>4. i \o x \in Seq(Sym) /\ Len(i \o x) = 2 + Len(x) /\ j \o y \in Seq(Sym) /\ (i \o x) \o (j \o y) \in Seq(Sym)
    <2>1. i \o x \in Seq(Sym) /\ Len(i \o x) = 2 + Len(x)
        <3>1. i \o x \in Seq(Sym) /\ Len(i \o x) = Len(i) + Len(x)
            BY <1>2, Together
        <3> QED BY <1>2, <3>1
    <2>2. j \o y \in Seq(Sym)
        BY <1>2, Together
    <2>3. (i \o x) \o (j \o y) \in Seq(Sym)
        BY <2>1, <2>2, Together
    <2> QED BY <2>1, <2>2, <2>3
<1>5. b \in Seq(Sym) /\ Comes(b, 0, b)
    BY <1>2, <1>3, <1>4, Together, ComesWhole
<1>6. Comes(b, 2, (i \o x) \o (j \o y))
    <2>1. Comes(b, 0, h \o ((i \o x) \o (j \o y))) /\ 0 \in Nat
        BY <1>3, <1>5
    <2>2. Comes(b, 0 + Len(h), (i \o x) \o (j \o y))
        BY <1>2, <1>4, <1>5, <2>1, ComesInTurn
    <2>3. 0 + Len(h) = 2
        BY <1>2
    <2> QED BY <2>2, <2>3
<1>7. Comes(b, 2, i \o x) /\ Comes(b, 2 + (2 + m), j \o y)
    <2>1. 2 \in Nat
        OBVIOUS
    <2>2. Comes(b, 2, i \o x) /\ Comes(b, 2 + Len(i \o x), j \o y)
        BY <1>4, <1>5, <1>6, <2>1, ComesInTurn
    <2> QED BY <1>4, <2>2
<1>8. Comes(b, 2, i) /\ Comes(b, 4, x)
    <2>1. 2 \in Nat
        OBVIOUS
    <2>2. Comes(b, 2, i) /\ Comes(b, 2 + Len(i), x)
        BY <1>2, <1>5, <1>7, <2>1, ComesInTurn
    <2>3. 2 + Len(i) = 4
        BY <1>2
    <2> QED BY <2>2, <2>3
<1>9. Comes(b, 4 + m, j) /\ Comes(b, 6 + m, y)
    <2>1. 2 + (2 + m) \in Nat /\ 2 + (2 + m) = 4 + m /\ (4 + m) + 2 = 6 + m
        BY <1>1
    <2>2. Comes(b, 2 + (2 + m), j) /\ Comes(b, (2 + (2 + m)) + Len(j), y)
        BY <1>2, <1>5, <1>7, <2>1, ComesInTurn
    <2> QED BY <1>2, <2>1, <2>2
<1>10. b[4] = m
    <2>1. 2 \in 1..Len(i) /\ 2 + 2 = 4
        BY <1>2
    <2>2. b[2 + 2] = i[2]
        BY <1>8, <2>1 DEF Comes
    <2> QED BY <1>2, <2>1, <2>2
<1>11. b[6 + m] = n
    <2>1. 2 \in 1..Len(j) /\ (4 + m) + 2 = 6 + m
        BY <1>1, <1>2
    <2>2. b[(4 + m) + 2] = j[2]
        BY <1>9, <2>1 DEF Comes
    <2> QED BY <1>2, <2>1, <2>2
<1>12. SubSeq(b, 4 + 1, 4 + m) = x
    <2>1. 4 \in Nat
        OBVIOUS
    <2> QED BY <1>5, <1>8, <2>1, ComesCut
<1>13. SubSeq(b, (6 + m) + 1, (6 + m) + n) = y
    <2>1. 6 + m \in Nat
        BY <1>1
    <2> QED BY <1>5, <1>9, <2>1, ComesCut
<1>14. 4 + 1 = 5 /\ (6 + m) + 1 = 7 + m
    BY <1>1
<1> HIDE DEF m, n
<1> QED BY <1>10, <1>11, <1>12, <1>13, <1>14

\* A signature is the two numbers, in the one form that DER allows.
LEMMA SignatureReads ==
    ASSUME PasskeyConstants, NEW r \in Passkey!Numbers, NEW s \in Passkey!Numbers
    PROVE  Passkey!DerReads(Passkey!Der(r, s))
               = [r |-> Passkey!Unsigned(r), s |-> Passkey!Unsigned(s), canonical |-> TRUE]
<1> DEFINE x == PaddedOf(r)
           y == PaddedOf(s)
           body == (<<2, Len(x)>> \o x) \o (<<2, Len(y)>> \o y)
           b == <<48, Len(body)>> \o body
<1>1. x \in Seq(Nat) /\ Canonical(x) /\ Passkey!Unsigned(x) = Passkey!Unsigned(r)
    BY DerNumber
<1>2. y \in Seq(Nat) /\ Canonical(y) /\ Passkey!Unsigned(y) = Passkey!Unsigned(s)
    BY DerNumber
<1>3. Passkey!DerInteger(r) = <<2, Len(x)>> \o x /\ Passkey!DerInteger(s) = <<2, Len(y)>> \o y
    BY PaddedIs
<1>4. Passkey!Der(r, s) = b
    BY <1>3 DEF Passkey!Der
<1> HIDE DEF x, y
<1>5. x \in Seq(Sym) /\ y \in Seq(Sym) /\ Len(x) \in Nat /\ Len(y) \in Nat
    BY <1>1, <1>2, NatsAreSym
<1>6. Len(body) \in Nat
    <2>1. <<2, Len(x)>> \in Seq(Sym) /\ <<2, Len(y)>> \in Seq(Sym)
        BY <1>5, PairTyped
    <2>2. <<2, Len(x)>> \o x \in Seq(Sym) /\ <<2, Len(y)>> \o y \in Seq(Sym)
        BY <1>5, <2>1, Together
    <2>3. body \in Seq(Sym)
        BY <2>2, Together
    <2> HIDE DEF body
    <2> QED BY <2>3
<1>7. SubSeq(b, 5, 4 + b[4]) = x /\ SubSeq(b, 7 + b[4], (6 + b[4]) + b[6 + b[4]]) = y
    <2> DEFINE l == Len(body)
    <2>1. b = DerOf(l, x, y) /\ l \in Nat
        BY <1>6 DEF DerOf
    <2> HIDE DEF b, l, body
    <2> QED BY <1>5, <2>1, NumbersFound
<1> HIDE DEF b
<1>8. \A n \in {x, y} : n[1] < 128 /\ (Len(n) > 1 /\ n[1] = 0 => n[2] >= 128)
    BY <1>1, <1>2 DEF Canonical
<1>9. Passkey!DerReads(b) = [r |-> Passkey!Unsigned(x), s |-> Passkey!Unsigned(y), canonical |-> TRUE]
    BY <1>7, <1>8 DEF Passkey!DerReads
<1> QED BY <1>1, <1>2, <1>4, <1>9

-----------------------------------------------------------------------------
(* PasskeyRecords: names of algorithms.                                    *)

OidStates == [parts : Seq(Nat), value : Nat]
OidFirst(b) == [parts |-> <<b[1] \div 40, b[1] % 40>>, value |-> 0]
OidPart(s, x) ==
    IF x >= 128 THEN [s EXCEPT !.value = @ * 128 + (x % 128)]
    ELSE [parts |-> Append(s.parts, s.value * 128 + x), value |-> 0]
OidRead(b) ==
    CHOOSE read : read = [k \in 0..(Len(b) - 1) |-> IF k = 0 THEN OidFirst(b) ELSE OidPart(read[k - 1], b[k + 1])]

LEMMA OidIs == ASSUME NEW b PROVE Passkey!OidParts(b) = OidRead(b)[Len(b) - 1].parts
BY DEF Passkey!OidParts, OidRead, OidFirst, OidPart

LEMMA OidPartTyped ==
    ASSUME NEW s \in OidStates, NEW x \in Nat
    PROVE  /\ OidPart(s, x) \in OidStates
           /\ x >= 128 => OidPart(s, x) = [parts |-> s.parts, value |-> s.value * 128 + (x % 128)]
           /\ x < 128 => OidPart(s, x) = [parts |-> Append(s.parts, s.value * 128 + x), value |-> 0]
<1>1. PICK p \in Seq(Nat), v \in Nat : s = [parts |-> p, value |-> v]
    BY DEF OidStates
<1>2. x % 128 \in Nat /\ v * 128 + (x % 128) \in Nat /\ v * 128 + x \in Nat
    OBVIOUS
<1>3. Append(p, v * 128 + x) \in Seq(Nat)
    BY <1>2
<1>4. CASE x >= 128
    <2>1. OidPart(s, x) = [parts |-> p, value |-> v * 128 + (x % 128)]
        BY <1>1, <1>4 DEF OidPart
    <2> QED BY <1>1, <1>2, <1>4, <2>1 DEF OidStates
<1>5. CASE ~(x >= 128)
    <2>1. OidPart(s, x) = [parts |-> Append(p, v * 128 + x), value |-> 0]
        BY <1>1, <1>5 DEF OidPart
    <2>2. OidPart(s, x) \in OidStates
        BY <1>3, <2>1 DEF OidStates
    <2>3. s.parts = p /\ s.value = v /\ ~(x >= 128)
        BY <1>1, <1>5
    <2> QED BY <2>1, <2>2, <2>3
<1> QED BY <1>4, <1>5

LEMMA OidSteps ==
    ASSUME NEW b \in Seq(Nat), Len(b) >= 1
    PROVE  /\ OidRead(b)[0] = OidFirst(b)
           /\ \A k \in 1..(Len(b) - 1) : OidRead(b)[k] = OidPart(OidRead(b)[k - 1], b[k + 1])
<1> DEFINE n == Len(b) - 1
           G == [p \in (1..n) \X OidStates |-> OidPart(p[2], b[p[1] + 1])]
           Is(f) == f = [k \in 0..n |-> IF k = 0 THEN OidFirst(b) ELSE OidPart(f[k - 1], b[k + 1])]
           r == OidRead(b)
<1>0. n \in Nat /\ b[1] \in Nat /\ \A k \in 1..n : b[k + 1] \in Nat
    <2>1. Len(b) \in Nat /\ \A k \in 1..Len(b) : b[k] \in Nat
        BY Elements
    <2> QED BY <2>1
<1>r. r = CHOOSE f : Is(f)
    BY DEF OidRead
<1> HIDE DEF n, r
<1>1. StepsOn(G, n, OidStates)
    <2>1. ASSUME NEW p \in (1..n) \X OidStates PROVE OidPart(p[2], b[p[1] + 1]) \in OidStates
        <3>1. b[p[1] + 1] \in Nat /\ p[2] \in OidStates
            BY <1>0
        <3> QED BY <3>1, OidPartTyped
    <2> QED BY <2>1 DEF StepsOn
<1>2. \A k \in 1..n, x \in OidStates : G[<<k, x>>] = OidPart(x, b[k + 1])
    OBVIOUS
<1> HIDE DEF G
<1>3. OidFirst(b) \in OidStates
    <2>1. b[1] \div 40 \in Nat /\ b[1] % 40 \in Nat
        BY <1>0
    <2> QED BY <2>1 DEF OidFirst, OidStates
<1>4. PICK f : Iterates(f, n, OidStates, OidFirst(b), G)
    BY <1>0, <1>1, <1>3, Iterated
<1>5. f \in [0..n -> OidStates] /\ f[0] = OidFirst(b) /\ \A k \in 1..n : f[k] = OidPart(f[k - 1], b[k + 1])
    <2>1. f \in [0..n -> OidStates] /\ f[0] = OidFirst(b) /\ \A k \in 1..n : f[k] = G[<<k, f[k - 1]>>]
        BY <1>4 DEF Iterates
    <2>2. ASSUME NEW k \in 1..n PROVE f[k] = OidPart(f[k - 1], b[k + 1])
        <3>1. k - 1 \in 0..n
            BY <1>0
        <3>2. f[k - 1] \in OidStates /\ f[k] = G[<<k, f[k - 1]>>]
            BY <2>1, <3>1
        <3> QED BY <3>2, <1>2
    <2> QED BY <2>1, <2>2
<1>6. Is(f)
    <2>1. ASSUME NEW k \in 0..n PROVE f[k] = IF k = 0 THEN OidFirst(b) ELSE OidPart(f[k - 1], b[k + 1])
        <3>1. CASE k = 0
            BY <3>1, <1>5
        <3>2. CASE k # 0
            <4>1. k \in 1..n
                BY <3>2, <1>0
            <4> QED BY <4>1, <3>2, <1>5
        <3> QED BY <3>1, <3>2
    <2> QED BY <2>1, <1>5
<1>7. Is(r)
    <2> HIDE DEF Is
    <2> QED BY <1>6, <1>r
<1>8. r[0] = OidFirst(b) /\ \A k \in 1..n : r[k] = OidPart(r[k - 1], b[k + 1])
    <2>1. ASSUME NEW k \in 0..n PROVE r[k] = IF k = 0 THEN OidFirst(b) ELSE OidPart(r[k - 1], b[k + 1])
        BY <1>7
    <2>2. 0 \in 0..n /\ \A k \in 1..n : k \in 0..n /\ k # 0
        BY <1>0
    <2> QED BY <2>1, <2>2
<1> QED BY <1>8 DEF r, n

\* What has been read of c after k bytes, and the number that is not complete.
Stands(b, k, c, n, v) ==
    LET s == OidRead(b)[k] IN
    s \in OidStates /\ Len(s.parts) = n /\ s.value = v /\ \A i \in 1..n : s.parts[i] = c[i]
NextIs(b, k, x) == k + 2 <= Len(b) /\ b[k + 2] = x
MoreIs(b, k, y) == k + 2 <= Len(b) /\ b[k + 2] = 128 + y

LEMMA OidStarts ==
    ASSUME NEW b \in Seq(Nat), Len(b) >= 1, NEW c, c[1] \in Nat, c[2] \in 0..39, b[1] = c[1] * 40 + c[2]
    PROVE  Stands(b, 0, c, 2, 0)
<1> DEFINE x == c[1]
           y == c[2]
<1>0. x \in Nat /\ y \in 0..39 /\ b[1] = x * 40 + y /\ x = c[1] /\ y = c[2]
    OBVIOUS
<1> HIDE DEF x, y
<1>1. (x * 40 + y) \div 40 = x /\ (x * 40 + y) % 40 = y /\ y \in Nat
    <2>1. x \in Nat /\ y \in 0..39
        BY <1>0
    <2> QED BY <2>1
<1>2. OidRead(b)[0] = [parts |-> <<x, y>>, value |-> 0]
    BY <1>0, <1>1, OidSteps DEF OidFirst
<1> DEFINE p == <<x, y>>
<1>3. p \in Seq(Nat) /\ Len(p) = 2 /\ p[1] = x /\ p[2] = y
    <2>1. x \in Nat /\ y \in Nat
        BY <1>0, <1>1
    <2> QED BY <2>1
<1> HIDE DEF p
<1>4. \A i \in 1..2 : i = 1 \/ i = 2
    OBVIOUS
<1>5. \A i \in 1..2 : p[i] = c[i]
    BY <1>0, <1>3, <1>4
<1>6. OidRead(b)[0] = [parts |-> p, value |-> 0]
    BY <1>2 DEF p
<1> QED BY <1>3, <1>5, <1>6 DEF Stands, OidStates

LEMMA OidGoesOn ==
    ASSUME NEW b \in Seq(Nat), NEW k \in Nat, NEW c, NEW n \in Nat, NEW v \in Nat, Stands(b, k, c, n, v),
           NEW x \in Nat, NextIs(b, k, x)
    PROVE  /\ x >= 128 => Stands(b, k + 1, c, n, v * 128 + (x % 128))
           /\ x < 128 /\ c[n + 1] = v * 128 + x => Stands(b, k + 1, c, n + 1, 0)
<1>1. Len(b) \in Nat /\ k + 2 <= Len(b) /\ b[k + 2] = x
    BY DEF NextIs
<1>2. Len(b) >= 1 /\ k + 1 \in 1..(Len(b) - 1) /\ (k + 1) - 1 = k /\ (k + 1) + 1 = k + 2
    BY <1>1
<1>3. OidRead(b)[k + 1] = OidPart(OidRead(b)[k], x)
    <2>1. \A j \in 1..(Len(b) - 1) : OidRead(b)[j] = OidPart(OidRead(b)[j - 1], b[j + 1])
        BY <1>2, OidSteps
    <2> QED BY <1>1, <1>2, <2>1
<1>4. PICK s : s = OidRead(b)[k]
    OBVIOUS
<1>5. s \in OidStates /\ Len(s.parts) = n /\ s.value = v /\ (\A i \in 1..n : s.parts[i] = c[i]) /\ s.parts \in Seq(Nat)
    BY <1>4 DEF Stands, OidStates
<1>6. CASE x >= 128
    <2>1. /\ OidPart(s, x) \in OidStates
          /\ OidPart(s, x) = [parts |-> s.parts, value |-> s.value * 128 + (x % 128)]
        BY <1>5, <1>6, OidPartTyped
    <2> QED BY <1>3, <1>4, <1>5, <1>6, <2>1 DEF Stands
<1>7. CASE x < 128 /\ c[n + 1] = v * 128 + x
    <2> DEFINE w == s.value * 128 + x
               q == Append(s.parts, w)
    <2>1. OidPart(s, x) \in OidStates /\ OidPart(s, x) = [parts |-> q, value |-> 0]
        BY <1>5, <1>7, OidPartTyped, ZenonT(30)
    <2>2. w \in Nat /\ w = c[n + 1]
        BY <1>5, <1>7
    <2> HIDE DEF w
    <2>3. Len(q) = n + 1 /\ q[n + 1] = w /\ \A i \in 1..n : q[i] = s.parts[i]
        BY <1>5, <2>2
    <2> HIDE DEF q
    <2>4. ASSUME NEW i \in 1..(n + 1) PROVE q[i] = c[i]
        <3>1. i \in 1..n \/ i = n + 1
            OBVIOUS
        <3> QED BY <1>5, <2>2, <2>3, <3>1
    <2> QED BY <1>3, <1>4, <1>7, <2>1, <2>3, <2>4 DEF Stands
<1> QED BY <1>6, <1>7

LEMMA OidMore ==
    ASSUME NEW b \in Seq(Nat), NEW k \in Nat, NEW c, NEW n \in Nat, NEW v \in Nat, Stands(b, k, c, n, v),
           NEW y \in 0..127, MoreIs(b, k, y)
    PROVE  Stands(b, k + 1, c, n, v * 128 + y)
<1> DEFINE x == 128 + y
<1>1. x \in Nat /\ x >= 128 /\ x % 128 = y
    OBVIOUS
<1>2. NextIs(b, k, x)
    BY DEF MoreIs, NextIs
<1> HIDE DEF x
<1>3. Stands(b, k + 1, c, n, v * 128 + (x % 128))
    BY <1>1, <1>2, OidGoesOn
<1> QED BY <1>1, <1>3

LEMMA SameNats ==
    ASSUME NEW p \in Seq(Nat), NEW q \in Seq(Nat), Len(p) = Len(q), \A i \in 1..Len(p) : p[i] = q[i]
    PROVE  p = q
OBVIOUS

LEMMA OidWhole ==
    ASSUME NEW b \in Seq(Nat), NEW c \in Seq(Nat), Stands(b, Len(b) - 1, c, Len(c), 0)
    PROVE  Passkey!OidParts(b) = c
<1>2. PICK s : s = OidRead(b)[Len(b) - 1]
    OBVIOUS
<1>3. s.parts \in Seq(Nat) /\ Len(s.parts) = Len(c) /\ \A i \in 1..Len(c) : s.parts[i] = c[i]
    BY <1>2 DEF Stands, OidStates
<1>4. s.parts = c
    BY <1>3, SameNats
<1> QED BY <1>2, <1>4, OidIs

LEMMA DetectsRsa == Passkey!DetectAlgorithm(<<42, 134, 72, 134, 247, 13, 1, 1, 1>>) = "RS256"
<1> DEFINE b == <<42, 134, 72, 134, 247, 13, 1, 1, 1>>
           c == <<1, 2, 840, 113 * 1000 + 549, 1, 1, 1>>
<1>1. /\ b \in Seq(Nat) /\ Len(b) = 9 /\ b[1] = 1 * 40 + 2
      /\ b[2] = 134 /\ b[3] = 72 /\ b[4] = 134 /\ b[5] = 247 /\ b[6] = 13 /\ b[7] = 1 /\ b[8] = 1 /\ b[9] = 1
    OBVIOUS
<1>2. /\ c \in Seq(Nat) /\ Len(c) = 7
      /\ c[1] = 1 /\ c[2] = 2 /\ c[3] = 840 /\ c[4] = 113 * 1000 + 549 /\ c[5] = 1 /\ c[6] = 1 /\ c[7] = 1
    OBVIOUS
<1> HIDE DEF b, c
<1>3. MoreIs(b, 0, 6) /\ NextIs(b, 1, 72) /\ MoreIs(b, 2, 6) /\ MoreIs(b, 3, 119) /\ NextIs(b, 4, 13) /\ NextIs(b, 5, 1) /\ NextIs(b, 6, 1) /\ NextIs(b, 7, 1)
    BY <1>1 DEF NextIs, MoreIs
<1>4. Stands(b, 0, c, 2, 0)
    <2>1. c[1] \in Nat /\ c[2] \in 0..39 /\ b[1] = c[1] * 40 + c[2] /\ Len(b) >= 1
        BY <1>1, <1>2
    <2> QED BY <1>1, <2>1, OidStarts
<1>5. Stands(b, 1, c, 2, 6)
    <2>1. 0 + 1 = 1 /\ 0 * 128 + 6 = 6 /\ 6 \in 0..127 /\ 0 \in Nat /\ 0 \in Nat /\ 2 \in Nat
        OBVIOUS
    <2> QED BY <1>1, <1>3, <1>4, <2>1, OidMore
<1>6. Stands(b, 2, c, 3, 0)
    <2>1. 1 + 1 = 2 /\ 2 + 1 = 3 /\ c[3] = 6 * 128 + 72 /\ 72 < 128 /\ 72 \in Nat /\ 6 \in Nat /\ 1 \in Nat /\ 2 \in Nat
        BY <1>2
    <2> QED BY <1>1, <1>3, <1>5, <2>1, OidGoesOn
<1>7. Stands(b, 3, c, 3, 6)
    <2>1. 2 + 1 = 3 /\ 0 * 128 + 6 = 6 /\ 6 \in 0..127 /\ 0 \in Nat /\ 2 \in Nat /\ 3 \in Nat
        OBVIOUS
    <2> QED BY <1>1, <1>3, <1>6, <2>1, OidMore
<1>8. Stands(b, 4, c, 3, 887)
    <2>1. 3 + 1 = 4 /\ 6 * 128 + 119 = 887 /\ 119 \in 0..127 /\ 6 \in Nat /\ 3 \in Nat /\ 3 \in Nat
        OBVIOUS
    <2> QED BY <1>1, <1>3, <1>7, <2>1, OidMore
<1>9. Stands(b, 5, c, 4, 0)
    <2>1. 4 + 1 = 5 /\ 3 + 1 = 4 /\ c[4] = 887 * 128 + 13 /\ 13 < 128 /\ 13 \in Nat /\ 887 \in Nat /\ 4 \in Nat /\ 3 \in Nat
        BY <1>2
    <2> QED BY <1>1, <1>3, <1>8, <2>1, OidGoesOn
<1>10. Stands(b, 6, c, 5, 0)
    <2>1. 5 + 1 = 6 /\ 4 + 1 = 5 /\ c[5] = 0 * 128 + 1 /\ 1 < 128 /\ 1 \in Nat /\ 0 \in Nat /\ 5 \in Nat /\ 4 \in Nat
        BY <1>2
    <2> QED BY <1>1, <1>3, <1>9, <2>1, OidGoesOn
<1>11. Stands(b, 7, c, 6, 0)
    <2>1. 6 + 1 = 7 /\ 5 + 1 = 6 /\ c[6] = 0 * 128 + 1 /\ 1 < 128 /\ 1 \in Nat /\ 0 \in Nat /\ 6 \in Nat /\ 5 \in Nat
        BY <1>2
    <2> QED BY <1>1, <1>3, <1>10, <2>1, OidGoesOn
<1>12. Stands(b, 8, c, 7, 0)
    <2>1. 7 + 1 = 8 /\ 6 + 1 = 7 /\ c[7] = 0 * 128 + 1 /\ 1 < 128 /\ 1 \in Nat /\ 0 \in Nat /\ 7 \in Nat /\ 6 \in Nat
        BY <1>2
    <2> QED BY <1>1, <1>3, <1>11, <2>1, OidGoesOn
<1>13. Passkey!OidParts(b) = c
    <2>1. Len(b) - 1 = 8 /\ Len(c) = 7
        BY <1>1, <1>2
    <2>2. Stands(b, Len(b) - 1, c, Len(c), 0)
        BY <1>12, <2>1
    <2>3. b \in Seq(Nat) /\ c \in Seq(Nat)
        BY <1>1, <1>2
    <2> QED BY <2>2, <2>3, OidWhole
<1>14. Passkey!OidParts(b) = <<1, 2, 840, 113 * 1000 + 549, 1, 1, 1>>
    BY <1>13 DEF c
<1>15. Passkey!DetectAlgorithm(b) = "RS256"
    BY <1>14 DEF Passkey!DetectAlgorithm
<1> QED BY <1>15 DEF b

LEMMA DetectsEcdsa == Passkey!DetectAlgorithm(<<42, 134, 72, 206, 61, 2, 1>>) = "ES256"
<1> DEFINE b == <<42, 134, 72, 206, 61, 2, 1>>
           c == <<1, 2, 840, 10045, 2, 1>>
<1>1. /\ b \in Seq(Nat) /\ Len(b) = 7 /\ b[1] = 1 * 40 + 2
      /\ b[2] = 134 /\ b[3] = 72 /\ b[4] = 206 /\ b[5] = 61 /\ b[6] = 2 /\ b[7] = 1
    OBVIOUS
<1>2. /\ c \in Seq(Nat) /\ Len(c) = 6
      /\ c[1] = 1 /\ c[2] = 2 /\ c[3] = 840 /\ c[4] = 10045 /\ c[5] = 2 /\ c[6] = 1
    OBVIOUS
<1> HIDE DEF b, c
<1>3. MoreIs(b, 0, 6) /\ NextIs(b, 1, 72) /\ MoreIs(b, 2, 78) /\ NextIs(b, 3, 61) /\ NextIs(b, 4, 2) /\ NextIs(b, 5, 1)
    BY <1>1 DEF NextIs, MoreIs
<1>4. Stands(b, 0, c, 2, 0)
    <2>1. c[1] \in Nat /\ c[2] \in 0..39 /\ b[1] = c[1] * 40 + c[2] /\ Len(b) >= 1
        BY <1>1, <1>2
    <2> QED BY <1>1, <2>1, OidStarts
<1>5. Stands(b, 1, c, 2, 6)
    <2>1. 0 + 1 = 1 /\ 0 * 128 + 6 = 6 /\ 6 \in 0..127 /\ 0 \in Nat /\ 0 \in Nat /\ 2 \in Nat
        OBVIOUS
    <2> QED BY <1>1, <1>3, <1>4, <2>1, OidMore
<1>6. Stands(b, 2, c, 3, 0)
    <2>1. 1 + 1 = 2 /\ 2 + 1 = 3 /\ c[3] = 6 * 128 + 72 /\ 72 < 128 /\ 72 \in Nat /\ 6 \in Nat /\ 1 \in Nat /\ 2 \in Nat
        BY <1>2
    <2> QED BY <1>1, <1>3, <1>5, <2>1, OidGoesOn
<1>7. Stands(b, 3, c, 3, 78)
    <2>1. 2 + 1 = 3 /\ 0 * 128 + 78 = 78 /\ 78 \in 0..127 /\ 0 \in Nat /\ 2 \in Nat /\ 3 \in Nat
        OBVIOUS
    <2> QED BY <1>1, <1>3, <1>6, <2>1, OidMore
<1>8. Stands(b, 4, c, 4, 0)
    <2>1. 3 + 1 = 4 /\ 3 + 1 = 4 /\ c[4] = 78 * 128 + 61 /\ 61 < 128 /\ 61 \in Nat /\ 78 \in Nat /\ 3 \in Nat /\ 3 \in Nat
        BY <1>2
    <2> QED BY <1>1, <1>3, <1>7, <2>1, OidGoesOn
<1>9. Stands(b, 5, c, 5, 0)
    <2>1. 4 + 1 = 5 /\ 4 + 1 = 5 /\ c[5] = 0 * 128 + 2 /\ 2 < 128 /\ 2 \in Nat /\ 0 \in Nat /\ 4 \in Nat /\ 4 \in Nat
        BY <1>2
    <2> QED BY <1>1, <1>3, <1>8, <2>1, OidGoesOn
<1>10. Stands(b, 6, c, 6, 0)
    <2>1. 5 + 1 = 6 /\ 5 + 1 = 6 /\ c[6] = 0 * 128 + 1 /\ 1 < 128 /\ 1 \in Nat /\ 0 \in Nat /\ 5 \in Nat /\ 5 \in Nat
        BY <1>2
    <2> QED BY <1>1, <1>3, <1>9, <2>1, OidGoesOn
<1>11. Passkey!OidParts(b) = c
    <2>1. Len(b) - 1 = 6 /\ Len(c) = 6
        BY <1>1, <1>2
    <2>2. Stands(b, Len(b) - 1, c, Len(c), 0)
        BY <1>10, <2>1
    <2>3. b \in Seq(Nat) /\ c \in Seq(Nat)
        BY <1>1, <1>2
    <2> QED BY <2>2, <2>3, OidWhole
<1>12. Passkey!OidParts(b) = <<1, 2, 840, 10045, 2, 1>>
    BY <1>11 DEF c
<1>13. Passkey!DetectAlgorithm(b) = "ES256"
    BY <1>12 DEF Passkey!DetectAlgorithm
<1> QED BY <1>13 DEF b

LEMMA DetectsEdDsa == Passkey!DetectAlgorithm(<<43, 101, 112>>) = "EdDSA"
<1> DEFINE b == <<43, 101, 112>>
           c == <<1, 3, 101, 112>>
<1>1. /\ b \in Seq(Nat) /\ Len(b) = 3 /\ b[1] = 1 * 40 + 3
      /\ b[2] = 101 /\ b[3] = 112
    OBVIOUS
<1>2. /\ c \in Seq(Nat) /\ Len(c) = 4
      /\ c[1] = 1 /\ c[2] = 3 /\ c[3] = 101 /\ c[4] = 112
    OBVIOUS
<1> HIDE DEF b, c
<1>3. NextIs(b, 0, 101) /\ NextIs(b, 1, 112)
    BY <1>1 DEF NextIs, MoreIs
<1>4. Stands(b, 0, c, 2, 0)
    <2>1. c[1] \in Nat /\ c[2] \in 0..39 /\ b[1] = c[1] * 40 + c[2] /\ Len(b) >= 1
        BY <1>1, <1>2
    <2> QED BY <1>1, <2>1, OidStarts
<1>5. Stands(b, 1, c, 3, 0)
    <2>1. 0 + 1 = 1 /\ 2 + 1 = 3 /\ c[3] = 0 * 128 + 101 /\ 101 < 128 /\ 101 \in Nat /\ 0 \in Nat /\ 0 \in Nat /\ 2 \in Nat
        BY <1>2
    <2> QED BY <1>1, <1>3, <1>4, <2>1, OidGoesOn
<1>6. Stands(b, 2, c, 4, 0)
    <2>1. 1 + 1 = 2 /\ 3 + 1 = 4 /\ c[4] = 0 * 128 + 112 /\ 112 < 128 /\ 112 \in Nat /\ 0 \in Nat /\ 1 \in Nat /\ 3 \in Nat
        BY <1>2
    <2> QED BY <1>1, <1>3, <1>5, <2>1, OidGoesOn
<1>7. Passkey!OidParts(b) = c
    <2>1. Len(b) - 1 = 2 /\ Len(c) = 4
        BY <1>1, <1>2
    <2>2. Stands(b, Len(b) - 1, c, Len(c), 0)
        BY <1>6, <2>1
    <2>3. b \in Seq(Nat) /\ c \in Seq(Nat)
        BY <1>1, <1>2
    <2> QED BY <2>2, <2>3, OidWhole
<1>8. Passkey!OidParts(b) = <<1, 3, 101, 112>>
    BY <1>7 DEF c
<1>9. Passkey!DetectAlgorithm(b) = "EdDSA"
    BY <1>8 DEF Passkey!DetectAlgorithm
<1> QED BY <1>9 DEF b

LEMMA DetectsNone == Passkey!DetectAlgorithm(<<42, 3>>) = "unsupported"
<1> DEFINE b == <<42, 3>>
           c == <<1, 2, 3>>
<1>1. /\ b \in Seq(Nat) /\ Len(b) = 2 /\ b[1] = 1 * 40 + 2
      /\ b[2] = 3
    OBVIOUS
<1>2. /\ c \in Seq(Nat) /\ Len(c) = 3
      /\ c[1] = 1 /\ c[2] = 2 /\ c[3] = 3
    OBVIOUS
<1> HIDE DEF b, c
<1>3. NextIs(b, 0, 3)
    BY <1>1 DEF NextIs, MoreIs
<1>4. Stands(b, 0, c, 2, 0)
    <2>1. c[1] \in Nat /\ c[2] \in 0..39 /\ b[1] = c[1] * 40 + c[2] /\ Len(b) >= 1
        BY <1>1, <1>2
    <2> QED BY <1>1, <2>1, OidStarts
<1>5. Stands(b, 1, c, 3, 0)
    <2>1. 0 + 1 = 1 /\ 2 + 1 = 3 /\ c[3] = 0 * 128 + 3 /\ 3 < 128 /\ 3 \in Nat /\ 0 \in Nat /\ 0 \in Nat /\ 2 \in Nat
        BY <1>2
    <2> QED BY <1>1, <1>3, <1>4, <2>1, OidGoesOn
<1>6. Passkey!OidParts(b) = c
    <2>1. Len(b) - 1 = 1 /\ Len(c) = 3
        BY <1>1, <1>2
    <2>2. Stands(b, Len(b) - 1, c, Len(c), 0)
        BY <1>5, <2>1
    <2>3. b \in Seq(Nat) /\ c \in Seq(Nat)
        BY <1>1, <1>2
    <2> QED BY <2>2, <2>3, OidWhole
<1>7. Passkey!OidParts(b) = <<1, 2, 3>>
    BY <1>6 DEF c
<1>8. Passkey!DetectAlgorithm(b) = "unsupported"
    BY <1>7 DEF Passkey!DetectAlgorithm
<1> QED BY <1>8 DEF b

-----------------------------------------------------------------------------
(* PasskeyRecords: what a site gets.                                       *)

\* The length of a sequence, as a number.
Size(s) == Len(s)
LEMMA SizeIs ==
    ASSUME NEW x \in Seq(Sym)
    PROVE  Size(x) \in Nat /\ Size(x) = Len(x)
BY DEF Size

LEMMA SizeTogether ==
    ASSUME NEW x \in Seq(Sym), NEW y \in Seq(Sym)
    PROVE  x \o y \in Seq(Sym) /\ Size(x \o y) = Size(x) + Size(y)
<1>1. x \o y \in Seq(Sym) /\ Len(x \o y) = Len(x) + Len(y)
    BY Together
<1> QED BY <1>1 DEF Size

LEMMA HeadShort ==
    ASSUME NEW major \in 0..5, NEW n \in Room
    PROVE  Size(Passkey!EncodeHead(major, n)) \in 1..5
<1> DEFINE h == Passkey!EncodeHead(major, n)
<1>1. Len(h) = 1 \/ Len(h) = 2 \/ Len(h) = 3 \/ Len(h) = 5
    <2>1. CASE n < 24
        BY <2>1 DEF Passkey!EncodeHead
    <2>2. CASE ~(n < 24) /\ n < Passkey!Bits8
        BY <2>2 DEF Passkey!EncodeHead
    <2>3. CASE ~(n < 24) /\ ~(n < Passkey!Bits8) /\ n < Passkey!Bits16
        BY <2>3 DEF Passkey!EncodeHead
    <2>4. CASE ~(n < 24) /\ ~(n < Passkey!Bits8) /\ ~(n < Passkey!Bits16)
        BY <2>4 DEF Passkey!EncodeHead
    <2> QED BY <2>1, <2>2, <2>3, <2>4
<1> HIDE DEF h
<1>2. Size(h) = 1 \/ Size(h) = 2 \/ Size(h) = 3 \/ Size(h) = 5
    BY <1>1 DEF Size
<1>3. Size(h) \in 1..5
    BY <1>2
<1> QED BY <1>3 DEF h

\* Numbers, and byte strings of no more than 32 bytes.
Small == {v \in Values : v.type \in {"int", "bytes"} /\ Size(v.b) \in 0..32}
LEMMA SmallShort ==
    ASSUME NEW v \in Small
    PROVE  Size(Passkey!EncodeValue(v)) \in 0..37
<1>0. v \in Values /\ v.type \in {"int", "bytes"} /\ Size(v.b) \in 0..32
    BY DEF Small
<1>1. CASE \E n \in Room : v = Passkey!Num(n) /\ Passkey!EncodeValue(v) = Passkey!EncodeHead(0, n)
    <2>1. PICK n \in Room : Passkey!EncodeValue(v) = Passkey!EncodeHead(0, n)
        BY <1>1
    <2>2. Size(Passkey!EncodeHead(0, n)) \in 1..5
        BY HeadShort
    <2> QED BY <2>1, <2>2
<1>2. CASE \E n \in Room : v = Passkey!Num(-1 - n) /\ Passkey!EncodeValue(v) = Passkey!EncodeHead(1, n)
    <2>1. PICK n \in Room : Passkey!EncodeValue(v) = Passkey!EncodeHead(1, n)
        BY <1>2
    <2>2. Size(Passkey!EncodeHead(1, n)) \in 1..5
        BY HeadShort
    <2> QED BY <2>1, <2>2
<1>3. CASE \E s \in Pieces : v = Passkey!Bytes(s) /\ Passkey!EncodeValue(v) = Passkey!EncodeHead(2, Len(s)) \o s
    <2>1. PICK s \in Pieces : v = Passkey!Bytes(s) /\ Passkey!EncodeValue(v) = Passkey!EncodeHead(2, Len(s)) \o s
        BY <1>3
    <2>2. v.b = s /\ Len(s) \in Room /\ s \in Seq(Sym)
        BY <2>1 DEF Passkey!Bytes, Pieces
    <2> DEFINE h == Passkey!EncodeHead(2, Len(s))
    <2>3. Size(h) \in 1..5
        BY <2>2, HeadShort
    <2>4. h \in Seq(Sym)
        BY <2>2, HeadTyped
    <2>5. Passkey!EncodeValue(v) = h \o s
        BY <2>1
    <2> HIDE DEF h
    <2>6. Size(h \o s) = Size(h) + Size(s)
        BY <2>2, <2>4, SizeTogether
    <2>7. Size(s) \in 0..32
        BY <1>0, <2>2
    <2>8. Size(h \o s) \in 0..37
        BY <2>3, <2>6, <2>7
    <2> QED BY <2>5, <2>8
<1>4. \A s : TextOf(s).type = "text"
    BY DEF TextOf
<1>5. Passkey!EmptyMap.type = "map"
    BY DEF Passkey!EmptyMap
<1> QED BY <1>0, <1>1, <1>2, <1>3, <1>4, <1>5, ValueKinds

CoseMap == <<<<Passkey!Num(1), Passkey!Num(2)>>, <<Passkey!Num(3), Passkey!Num(-7)>>, <<Passkey!Num(-1), Passkey!Num(1)>>,
             <<Passkey!Num(-2), Passkey!Bytes(Passkey!Opaque(32))>>, <<Passkey!Num(-3), Passkey!Bytes(Passkey!Opaque(32))>>>>

LEMMA CoseTyped ==
    /\ CoseMap \in Maps /\ Len(CoseMap) = 5 /\ DOMAIN CoseMap = 1..5
    /\ \A i \in 1..5 : CoseMap[i][1] \in Small /\ CoseMap[i][2] \in Small
<1>1. /\ Passkey!Num(1) \in Small /\ Passkey!Num(2) \in Small /\ Passkey!Num(3) \in Small
    <2>1. 1 \in Room /\ 2 \in Room /\ 3 \in Room
        BY RoomHas
    <2>2. Passkey!Num(1) \in Values /\ Passkey!Num(2) \in Values /\ Passkey!Num(3) \in Values
        BY <2>1 DEF Values
    <2>3. \A n : Passkey!Num(n).type = "int" /\ Size(Passkey!Num(n).b) = 0
        BY DEF Passkey!Num, Size
    <2> QED BY <2>2, <2>3 DEF Small
<1>2. /\ Passkey!Num(-1) \in Small /\ Passkey!Num(-2) \in Small /\ Passkey!Num(-3) \in Small /\ Passkey!Num(-7) \in Small
    <2>1. 0 \in Room /\ 1 \in Room /\ 2 \in Room /\ 6 \in Room /\ -1 = -1 - 0 /\ -2 = -1 - 1 /\ -3 = -1 - 2 /\ -7 = -1 - 6
        BY RoomHas
    <2>2. Passkey!Num(-1) \in Values /\ Passkey!Num(-2) \in Values /\ Passkey!Num(-3) \in Values /\ Passkey!Num(-7) \in Values
        BY <2>1 DEF Values
    <2>3. \A n : Passkey!Num(n).type = "int" /\ Size(Passkey!Num(n).b) = 0
        BY DEF Passkey!Num, Size
    <2> QED BY <2>2, <2>3 DEF Small
<1>3. Passkey!Bytes(Passkey!Opaque(32)) \in Small
    <2> DEFINE s == Passkey!Opaque(32)
    <2>1. 32 \in 0..(256 * 256 - 1)
        OBVIOUS
    <2>2. s \in Pieces /\ Len(s) = 32
        BY <2>1, OpaqueTyped
    <2> HIDE DEF s
    <2>3. Passkey!Bytes(s) \in Values
        BY <2>2 DEF Values
    <2>4. Passkey!Bytes(s).type = "bytes" /\ Passkey!Bytes(s).b = s
        BY DEF Passkey!Bytes
    <2>5. Passkey!Bytes(s) \in Small
        <3>1. Size(Passkey!Bytes(s).b) = 32
            BY <2>2, <2>4 DEF Size
        <3> QED BY <2>3, <2>4, <3>1 DEF Small
    <2> QED BY <2>5 DEF s
<1>4. CoseMap \in Seq(Small \X Small) /\ Len(CoseMap) = 5 /\ DOMAIN CoseMap = 1..5
    <2> DEFINE s == Passkey!Bytes(Passkey!Opaque(32))
    <2>1. CoseMap = <<<<Passkey!Num(1), Passkey!Num(2)>>, <<Passkey!Num(3), Passkey!Num(-7)>>, <<Passkey!Num(-1), Passkey!Num(1)>>,
                      <<Passkey!Num(-2), s>>, <<Passkey!Num(-3), s>>>>
        BY DEF CoseMap
    <2>2. s \in Small
        BY <1>3
    <2> HIDE DEF s
    <2> QED BY <1>1, <1>2, <2>1, <2>2
<1>5. \A i \in 1..5 : CoseMap[i] \in Small \X Small
    <2>1. \A i \in 1..Len(CoseMap) : CoseMap[i] \in Small \X Small
        BY <1>4, Elements
    <2> QED BY <1>4, <2>1
<1>6. \A p \in Small \X Small : p[1] \in Small /\ p[2] \in Small /\ p \in Values \X Values
    BY DEF Small
<1>7. CoseMap \in Seq(Values \X Values)
    <2>1. CoseMap = [i \in 1..5 |-> CoseMap[i]]
        BY <1>4
    <2>2. \A i \in 1..5 : CoseMap[i] \in Values \X Values
        BY <1>5, <1>6
    <2> QED BY <2>1, <2>2
<1>8. 5 \in Room
    BY RoomHas
<1> QED BY <1>4, <1>5, <1>6, <1>7, <1>8 DEF Maps

LEMMA CoseReads ==
    /\ Passkey!CoseKey \in Seq(Sym) /\ Size(Passkey!CoseKey) \in 0..375
    /\ Passkey!Value(Passkey!DecodeMap(Passkey!CoseKey), Passkey!Num(3)).n = -7
<1> DEFINE r == MapParts(CoseMap)
<1>1. Passkey!CoseKey = Passkey!EncodeMap(CoseMap)
    BY DEF Passkey!CoseKey, CoseMap
<1>2. Passkey!CoseKey \in Seq(Sym) /\ Passkey!DecodeMap(Passkey!CoseKey) = CoseMap
    BY <1>1, CoseTyped, MapReads
<1>3. /\ r[0] = Passkey!EncodeHead(5, 5)
      /\ \A k \in 1..5 : r[k] = r[k - 1] \o Passkey!EncodeValue(CoseMap[k][1]) \o Passkey!EncodeValue(CoseMap[k][2])
      /\ \A k \in 0..5 : r[k] \in Seq(Sym)
    BY CoseTyped, MapSteps
<1> HIDE DEF r
<1>4. \A k \in 0..5 : Size(r[k]) <= 5 + 74 * k
    <2> DEFINE T == {k \in 0..5 : Size(r[k]) <= 5 + 74 * k}
    <2>1. 0 \in T
        <3>1. 5 \in Room /\ 5 \in 0..5
            BY RoomHas
        <3>2. Size(r[0]) \in 1..5
            BY <1>3, <3>1, HeadShort
        <3> QED BY <3>2
    <2>2. ASSUME NEW k \in 1..5, k - 1 \in T PROVE k \in T
        <3> DEFINE x == Passkey!EncodeValue(CoseMap[k][1])
                   y == Passkey!EncodeValue(CoseMap[k][2])
                   q == r[k - 1]
        <3>1. CoseMap[k][1] \in Small /\ CoseMap[k][2] \in Small
            BY CoseTyped
        <3>2. Size(x) \in 0..37 /\ Size(y) \in 0..37
            BY <3>1, SmallShort
        <3>3. x \in Seq(Sym) /\ y \in Seq(Sym)
            BY <3>1, ValueTyped DEF Small
        <3>4. k - 1 \in 0..5 /\ k \in 0..5 /\ Size(q) <= 5 + 74 * (k - 1)
            BY <2>2
        <3>5. r[k] = (q \o x) \o y /\ q \in Seq(Sym)
            BY <1>3, <3>4
        <3> HIDE DEF x, y, q
        <3>6. q \o x \in Seq(Sym) /\ Size(q \o x) = Size(q) + Size(x)
            BY <3>3, <3>5, SizeTogether
        <3>7. Size((q \o x) \o y) = Size(q \o x) + Size(y)
            BY <3>3, <3>6, SizeTogether
        <3>8. Size(q) \in Nat
            BY <3>5, SizeIs
        <3>9. (5 + 74 * (k - 1)) + 74 = 5 + 74 * k
            OBVIOUS
        <3>10. Size(r[k]) = (Size(q) + Size(x)) + Size(y)
            BY <3>5, <3>6, <3>7
        <3>11. Size(r[k]) <= 5 + 74 * k
            BY <3>2, <3>4, <3>8, <3>9, <3>10
        <3> QED BY <3>4, <3>11
    <2> HIDE DEF T
    <2>3. 5 \in Nat
        OBVIOUS
    <2>4. \A k \in 0..5 : k \in T
        BY <2>1, <2>2, <2>3, StepByStep
    <2> QED BY <2>4 DEF T
<1>5. Size(Passkey!CoseKey) \in 0..375
    <2>1. Passkey!CoseKey = r[5]
        <3>1. Len(CoseMap) = 5
            BY CoseTyped
        <3>2. Passkey!EncodeMap(CoseMap) = MapParts(CoseMap)[Len(CoseMap)]
            BY MapIs
        <3> QED BY <1>1, <3>1, <3>2 DEF r
    <2>2. 5 \in 0..5 /\ 5 + 74 * 5 = 375
        OBVIOUS
    <2>3. Size(r[5]) <= 375
        BY <1>4, <2>2
    <2>4. Size(Passkey!CoseKey) \in Nat
        BY <1>2, SizeIs
    <2> QED BY <2>1, <2>3, <2>4
<1>6. Passkey!Value(CoseMap, Passkey!Num(3)) = CoseMap[2][2]
    <2>1. /\ CoseMap[1][1] = Passkey!Num(1) /\ CoseMap[2][1] = Passkey!Num(3) /\ CoseMap[3][1] = Passkey!Num(-1)
          /\ CoseMap[4][1] = Passkey!Num(-2) /\ CoseMap[5][1] = Passkey!Num(-3)
        BY DEF CoseMap
    <2>2. \A n : Passkey!Num(n).n = n
        BY DEF Passkey!Num
    <2>3. ASSUME NEW j \in 1..5, CoseMap[j][1] = Passkey!Num(3) PROVE j = 2
        <3>1. j = 1 \/ j = 2 \/ j = 3 \/ j = 4 \/ j = 5
            OBVIOUS
        <3>2. Passkey!Num(1).n = 1 /\ Passkey!Num(3).n = 3 /\ Passkey!Num(-1).n = -1 /\ Passkey!Num(-2).n = -2
              /\ Passkey!Num(-3).n = -3
            BY <2>2
        <3> QED BY <2>1, <2>3, <3>1, <3>2
    <2>4. 5 \in Nat /\ 2 \in 1..5
        OBVIOUS
    <2> QED BY <2>1, <2>3, <2>4, CoseTyped, ValueAt
<1>7. CoseMap[2][2].n = -7
    BY DEF CoseMap, Passkey!Num
<1> QED BY <1>2, <1>5, <1>6, <1>7

LEMMA OneByte == \A q \in 0..255 : q % 256 = q
OBVIOUS

\* Numbers of two and of four bytes are the sums of them.
LEMMA TwoBytes ==
    ASSUME NEW n \in 0..(256 * 256 - 1)
    PROVE  /\ Passkey!Uint16(n) \in Seq(Sym) /\ Len(Passkey!Uint16(n)) = 2
           /\ Passkey!Unsigned(Passkey!Uint16(n)) = n
<1> DEFINE x == (n \div 256) % 256
           y == n % 256
           b == <<x, y>>
<1>1. x \in Nat /\ y \in Nat /\ x * 256 + y = n
    <2>1. n \in Nat /\ n \div 256 \in 0..255 /\ (n \div 256) * 256 + (n % 256) = n /\ n % 256 \in Nat
        OBVIOUS
    <2>2. \A q \in 0..255 : q % 256 = q
        BY OneByte
    <2>3. x = n \div 256
        BY <2>1, <2>2
    <2> HIDE DEF x
    <2> QED BY <2>1, <2>3
<1>2. Passkey!Uint16(n) = b
    BY ShiftsAre DEF Passkey!Uint16
<1> HIDE DEF x, y
<1>3. b \in Seq(Nat) /\ Len(b) = 2 /\ b[1] = x /\ b[2] = y
    BY <1>1
<1> HIDE DEF b
<1>4. b \in Seq(Sym)
    BY <1>3, NatsAreSym
<1>5. /\ Passkey!Unsigned(b) = Sums(b)[2] /\ Sums(b)[0] = 0
      /\ \A k \in 1..2 : Sums(b)[k] = Sums(b)[k - 1] * 256 + b[k]
    BY <1>3, SumSteps, ZenonT(30)
<1>6. Sums(b)[1] = x
    <2>1. 1 \in 1..2 /\ 1 - 1 = 0
        OBVIOUS
    <2>2. Sums(b)[1] = Sums(b)[0] * 256 + b[1]
        BY <1>5, <2>1
    <2> QED BY <1>1, <1>3, <1>5, <2>2
<1>7. Sums(b)[2] = n
    <2>1. 2 \in 1..2 /\ 2 - 1 = 1
        OBVIOUS
    <2>2. Sums(b)[2] = Sums(b)[1] * 256 + b[2]
        BY <1>5, <2>1
    <2> QED BY <1>1, <1>3, <1>6, <2>2
<1> QED BY <1>2, <1>3, <1>4, <1>5, <1>7

LEMMA FourBytes ==
    ASSUME NEW n \in Room
    PROVE  /\ Passkey!Uint32(n) \in Seq(Sym) /\ Len(Passkey!Uint32(n)) = 4
           /\ Passkey!Unsigned(Passkey!Uint32(n)) = n
<1> DEFINE w == (n \div (256 * 256 * 256)) % 256
           x == (n \div (256 * 256)) % 256
           y == (n \div 256) % 256
           z == n % 256
           b == <<w, x, y, z>>
<1>1. n \in Nat /\ n < 256 * 256 * 256 * 256
    BY ShiftsAre
<1>2. w \in Nat /\ x \in Nat /\ y \in Nat /\ z \in Nat
    BY <1>1
<1>3. w * (256 * 256 * 256) + x * (256 * 256) + y * 256 + z = n
    <2>1. (n \div (256 * 256 * 256)) * (256 * 256 * 256) + ((n \div (256 * 256)) % 256) * (256 * 256) + ((n \div 256) % 256) * 256 + (n % 256) = n
        BY <1>1
    <2>2. n \div (256 * 256 * 256) \in 0..255
        BY <1>1
    <2>3. \A q \in 0..255 : q % 256 = q
        BY OneByte
    <2>4. w = n \div (256 * 256 * 256)
        BY <2>2, <2>3
    <2> HIDE DEF w
    <2> QED BY <2>1, <2>4
<1>4. Passkey!Uint32(n) = <<w, x>> \o <<y, z>>
    BY ShiftsAre DEF Passkey!Uint32, Passkey!Uint16
<1> HIDE DEF w, x, y, z
<1>5. <<w, x>> \o <<y, z>> = b
    <2> DEFINE c == <<w, x>>
               d == <<y, z>>
               e == c \o d
    <2>1. c \in Seq(Nat) /\ Len(c) = 2 /\ c[1] = w /\ c[2] = x /\ d \in Seq(Nat) /\ Len(d) = 2 /\ d[1] = y /\ d[2] = z
        BY <1>2
    <2> HIDE DEF c, d
    <2>2. e \in Seq(Nat) /\ Len(e) = Len(c) + Len(d) /\ (\A i \in 1..Len(c) : e[i] = c[i]) /\ \A i \in 1..Len(d) : e[Len(c) + i] = d[i]
        <3>1. c \in Seq(Nat) /\ d \in Seq(Nat)
            BY <2>1
        <3> QED BY <3>1, Together
    <2> HIDE DEF e
    <2>3. Len(e) = 4 /\ e[1] = w /\ e[2] = x /\ e[3] = y /\ e[4] = z
        BY <2>1, <2>2
    <2>4. b \in Seq(Nat) /\ Len(b) = 4 /\ b[1] = w /\ b[2] = x /\ b[3] = y /\ b[4] = z
        BY <1>2
    <2> HIDE DEF b
    <2>5. \A i \in 1..4 : i = 1 \/ i = 2 \/ i = 3 \/ i = 4
        OBVIOUS
    <2>6. Len(e) = Len(b) /\ \A i \in 1..Len(e) : e[i] = b[i]
        BY <2>3, <2>4, <2>5
    <2>7. e = b
        BY <2>2, <2>4, <2>6, SameNats
    <2> QED BY <2>7 DEF c, d, e
<1>6. b \in Seq(Nat) /\ Len(b) = 4 /\ b[1] = w /\ b[2] = x /\ b[3] = y /\ b[4] = z
    BY <1>2
<1> HIDE DEF b
<1>7. b \in Seq(Sym)
    BY <1>6, NatsAreSym
<1>8. /\ Passkey!Unsigned(b) = Sums(b)[4] /\ Sums(b)[0] = 0
      /\ \A k \in 1..4 : Sums(b)[k] = Sums(b)[k - 1] * 256 + b[k]
    BY <1>6, SumSteps, ZenonT(30)
<1>9. /\ Sums(b)[1] = Sums(b)[0] * 256 + b[1] /\ Sums(b)[2] = Sums(b)[1] * 256 + b[2]
      /\ Sums(b)[3] = Sums(b)[2] * 256 + b[3] /\ Sums(b)[4] = Sums(b)[3] * 256 + b[4]
    <2>1. /\ 1 \in 1..4 /\ 2 \in 1..4 /\ 3 \in 1..4 /\ 4 \in 1..4
          /\ 1 - 1 = 0 /\ 2 - 1 = 1 /\ 3 - 1 = 2 /\ 4 - 1 = 3
        OBVIOUS
    <2> QED BY <1>8, <2>1
<1>10. Sums(b)[4] = n
    <2>1. Sums(b)[1] = w
        BY <1>2, <1>6, <1>8, <1>9
    <2>2. Sums(b)[2] = w * 256 + x
        BY <1>6, <1>9, <2>1
    <2>3. Sums(b)[3] = (w * 256 + x) * 256 + y
        BY <1>6, <1>9, <2>2
    <2>4. Sums(b)[4] = ((w * 256 + x) * 256 + y) * 256 + z
        BY <1>6, <1>9, <2>3
    <2>5. ((w * 256 + x) * 256 + y) * 256 + z = w * (256 * 256 * 256) + x * (256 * 256) + y * 256 + z
        BY <1>2
    <2> QED BY <1>3, <2>4, <2>5
<1> QED BY <1>4, <1>5, <1>6, <1>7, <1>8, <1>10

\* Two that stand one after the other, with their places.
LEMMA ComesNext ==
    ASSUME NEW b \in Seq(Sym), NEW x \in Seq(Sym), NEW y \in Seq(Sym), NEW p \in Nat, Comes(b, p, x \o y),
           NEW n \in Nat, Len(x) = n
    PROVE  Comes(b, p, x) /\ Comes(b, p + n, y) /\ p + n \in Nat
BY ComesInTurn

\* Where the parts of the authenticator data stand.
Whole(a, f, u, g, w, id, c) == ((a \o f) \o u) \o (((g \o w) \o id) \o c)
Long(a, f, u, g, w, id, c, n) ==
    /\ a \in Seq(Sym) /\ f \in Seq(Sym) /\ u \in Seq(Sym) /\ g \in Seq(Sym) /\ w \in Seq(Sym)
    /\ id \in Seq(Sym) /\ c \in Seq(Sym) /\ n \in Nat
    /\ Len(a) = 32 /\ Len(f) = 1 /\ Len(u) = 4 /\ Len(g) = 16 /\ Len(w) = 2 /\ Len(id) = n
LEMMA PartsFound ==
    ASSUME NEW a, NEW f, NEW u, NEW g, NEW w, NEW id, NEW c, NEW n, Long(a, f, u, g, w, id, c, n),
           NEW b, b = Whole(a, f, u, g, w, id, c)
    PROVE  /\ b \in Seq(Sym) /\ Size(b) = (55 + n) + Size(c)
           /\ Comes(b, 33, u) /\ Comes(b, 53, w) /\ Comes(b, 55, id) /\ Comes(b, 55 + n, c)
<1> DEFINE x == a \o f
           y == x \o u
           h == g \o w
           i == h \o id
           j == i \o c
<1>t. /\ a \in Seq(Sym) /\ f \in Seq(Sym) /\ u \in Seq(Sym) /\ g \in Seq(Sym) /\ w \in Seq(Sym)
      /\ id \in Seq(Sym) /\ c \in Seq(Sym) /\ n \in Nat
    BY DEF Long
<1>l. Len(a) = 32 /\ Len(f) = 1 /\ Len(u) = 4 /\ Len(g) = 16 /\ Len(w) = 2 /\ Len(id) = n
    BY DEF Long
<1>1. x \in Seq(Sym) /\ Len(x) = 33
    <2>1. x \in Seq(Sym) /\ Len(x) = Len(a) + Len(f)
        BY <1>t, Together
    <2> HIDE DEF x
    <2> QED BY <1>t, <1>l, <2>1
<1>2. h \in Seq(Sym) /\ Len(h) = 18
    <2>1. h \in Seq(Sym) /\ Len(h) = Len(g) + Len(w)
        BY <1>t, Together
    <2> HIDE DEF h
    <2> QED BY <1>t, <1>l, <2>1
<1>0. b = y \o j
    BY DEF Whole
<1>x. y = x \o u /\ i = h \o id /\ j = i \o c /\ x = a \o f /\ h = g \o w
    OBVIOUS
<1> HIDE DEF x, h
<1>3. y \in Seq(Sym) /\ Len(y) = 37
    <2>1. y \in Seq(Sym) /\ Len(y) = Len(x) + Len(u)
        <3>1. x \in Seq(Sym) /\ u \in Seq(Sym)
            BY <1>t, <1>1
        <3> QED BY <1>t, <3>1, Together
    <2> HIDE DEF y
    <2> QED BY <1>t, <1>1, <1>l, <2>1
<1>4. i \in Seq(Sym) /\ Len(i) = 18 + n
    <2>1. i \in Seq(Sym) /\ Len(i) = Len(h) + Len(id)
        <3>1. h \in Seq(Sym) /\ id \in Seq(Sym)
            BY <1>t, <1>2
        <3> QED BY <1>t, <3>1, Together
    <2> HIDE DEF i
    <2> QED BY <1>t, <1>2, <1>l, <2>1
<1> HIDE DEF y, i
<1>5. j \in Seq(Sym) /\ Size(j) = Size(i) + Size(c)
    BY <1>t, <1>4, SizeTogether
<1> HIDE DEF j
<1>6. b \in Seq(Sym) /\ Size(b) = (55 + n) + Size(c)
    <2>1. b \in Seq(Sym) /\ Size(b) = Size(y) + Size(j)
        BY <1>t, <1>0, <1>3, <1>5, SizeTogether
    <2>2. Size(y) = 37 /\ Size(i) = 18 + n
        BY <1>3, <1>4 DEF Size
    <2>3. Size(c) \in Nat
        BY <1>t, SizeIs
    <2>4. Size(b) = 37 + ((18 + n) + Size(c))
        BY <1>5, <2>1, <2>2
    <2> QED BY <1>t, <2>1, <2>3, <2>4
<1>7. Comes(b, 0, y) /\ Comes(b, 37, j)
    <2>1. Comes(b, 0, y \o j) /\ 0 \in Nat /\ 37 \in Nat /\ 0 + 37 = 37
        <3>1. Comes(b, 0, b)
            BY <1>6, ComesWhole
        <3> QED BY <1>0, <3>1
    <2>2. Comes(b, 0, y) /\ Comes(b, 0 + 37, j)
        BY <1>t, <1>3, <1>5, <1>6, <2>1, ComesNext, ZenonT(30)
    <2> QED BY <2>1, <2>2
<1>8. Comes(b, 33, u)
    <2>1. Comes(b, 0, x \o u) /\ 0 \in Nat /\ 33 \in Nat /\ 0 + 33 = 33
        BY <1>7, <1>x
    <2>2. Comes(b, 0 + 33, u)
        BY <1>t, <1>1, <1>6, <2>1, ComesNext
    <2> QED BY <2>1, <2>2
<1>9. Comes(b, 37, i) /\ Comes(b, 37 + (18 + n), c)
    <2>1. Comes(b, 37, i \o c) /\ 37 \in Nat /\ 18 + n \in Nat
        BY <1>t, <1>7, <1>x
    <2> QED BY <1>t, <1>4, <1>6, <2>1, ComesNext
<1>10. Comes(b, 37, h) /\ Comes(b, 55, id)
    <2>1. Comes(b, 37, h \o id) /\ 37 \in Nat /\ 18 \in Nat /\ 37 + 18 = 55
        BY <1>9, <1>x
    <2>2. Comes(b, 37, h) /\ Comes(b, 37 + 18, id)
        BY <1>t, <1>2, <1>6, <2>1, ComesNext, ZenonT(30)
    <2> QED BY <2>1, <2>2
<1>11. Comes(b, 53, w)
    <2>1. Comes(b, 37, g \o w) /\ 37 \in Nat /\ 16 \in Nat /\ 37 + 16 = 53
        BY <1>10, <1>x
    <2>2. Comes(b, 37 + 16, w)
        BY <1>t, <1>6, <1>l, <2>1, ComesNext, ZenonT(30)
    <2> QED BY <2>1, <2>2
<1>12. 37 + (18 + n) = 55 + n
    BY <1>t
<1> QED BY <1>6, <1>8, <1>9, <1>10, <1>11, <1>12

LEMMA RoomEnough ==
    ASSUME NEW i \in 0..(256 * 256 - 1), NEW k \in 0..375
    PROVE  (55 + i) + k \in Room
<1>1. i \in Nat /\ i < 256 * 256
    OBVIOUS
<1>2. k \in Nat /\ k <= 375
    OBVIOUS
<1> DEFINE n == (55 + i) + k
<1>3. n \in Nat /\ n < 256 * 256 * 256 * 256
    BY <1>1, <1>2
<1>4. Passkey!Bits8 * Passkey!Bits24 - 1 = 256 * 256 * 256 * 256 - 1
    BY ShiftsAre
<1> HIDE DEF n
<1>5. n \in Room
    BY <1>3, <1>4 DEF Room
<1> QED BY <1>5 DEF n

LEMMA DataParts ==
    ASSUME PasskeyConstants, NEW count \in SignCounts, NEW n \in ByteLengths,
           NEW b, b = Passkey!AuthenticatorData(count, Passkey!AttestedData(Passkey!Opaque(n)))
    PROVE  /\ b \in Pieces
           /\ SubSeq(b, 34, 37) = Passkey!Uint32(count) /\ SubSeq(b, 54, 55) = Passkey!Uint16(n)
           /\ SubSeq(b, 56, 55 + n) = Passkey!Opaque(n)
           /\ SubSeq(b, 56 + n, Len(b)) = Passkey!CoseKey
<1>0. count \in Room /\ n \in 0..(256 * 256 - 1)
    <2>1. SignCounts \subseteq Room /\ ByteLengths \subseteq 0..(256 * 256 - 1)
        BY Zenon DEF PasskeyConstants
    <2> QED BY <2>1
<1> DEFINE a == Passkey!Opaque(32)
           f == <<IF Passkey!AttestedData(Passkey!Opaque(n)) = <<>> THEN 5 ELSE 69>>
           u == Passkey!Uint32(count)
           g == Passkey!Opaque(16)
           w == Passkey!Uint16(Len(Passkey!Opaque(n)))
           id == Passkey!Opaque(n)
           c == Passkey!CoseKey
<1>1. b = Whole(a, f, u, g, w, id, c)
    BY DEF Passkey!AuthenticatorData, Passkey!AttestedData, Whole
<1>2. /\ a \in Seq(Sym) /\ Len(a) = 32 /\ g \in Seq(Sym) /\ Len(g) = 16 /\ id \in Seq(Sym) /\ Len(id) = n
    <2>1. 32 \in 0..(256 * 256 - 1) /\ 16 \in 0..(256 * 256 - 1)
        OBVIOUS
    <2> QED BY <1>0, <2>1, OpaqueTyped DEF Pieces
<1>3. f \in Seq(Sym) /\ Len(f) = 1
    <2> DEFINE k == IF Passkey!AttestedData(Passkey!Opaque(n)) = <<>> THEN 5 ELSE 69
    <2>1. k \in Sym
        BY DEF Sym
    <2>2. f = <<k>>
        OBVIOUS
    <2> HIDE DEF k
    <2> QED BY <2>1, <2>2
<1>4. u \in Seq(Sym) /\ Len(u) = 4
    BY <1>0, FourBytes
<1>5. w = Passkey!Uint16(n) /\ w \in Seq(Sym) /\ Len(w) = 2
    <2>1. Len(Passkey!Opaque(n)) = n
        BY <1>2
    <2> QED BY <1>0, <2>1, TwoBytes
<1>6. c \in Seq(Sym) /\ Size(c) \in 0..375
    BY CoseReads
<1> HIDE DEF a, f, u, g, w, id, c
<1>7. n \in Nat
    BY <1>0
<1>8. /\ b \in Seq(Sym) /\ Size(b) = (55 + n) + Size(c)
      /\ Comes(b, 33, u) /\ Comes(b, 53, w) /\ Comes(b, 55, id) /\ Comes(b, 55 + n, c)
    <2>1. Long(a, f, u, g, w, id, c, n)
        BY <1>2, <1>3, <1>4, <1>5, <1>6, <1>7 DEF Long
    <2> QED BY <1>1, <2>1, PartsFound
<1>9. SubSeq(b, 34, 37) = u
    <2>1. SubSeq(b, 33 + 1, 33 + Len(u)) = u
        <3>1. 33 \in Nat
            OBVIOUS
        <3> QED BY <1>4, <1>8, <3>1, ComesCut
    <2>2. 33 + 1 = 34 /\ 33 + Len(u) = 37
        BY <1>4
    <2> QED BY <2>1, <2>2
<1>10. SubSeq(b, 54, 55) = w
    <2>1. SubSeq(b, 53 + 1, 53 + Len(w)) = w
        <3>1. 53 \in Nat
            OBVIOUS
        <3> QED BY <1>5, <1>8, <3>1, ComesCut
    <2>2. 53 + 1 = 54 /\ 53 + Len(w) = 55
        BY <1>5
    <2> QED BY <2>1, <2>2
<1>11. SubSeq(b, 56, 55 + n) = id
    <2>1. SubSeq(b, 55 + 1, 55 + Len(id)) = id
        <3>1. 55 \in Nat
            OBVIOUS
        <3> QED BY <1>2, <1>8, <3>1, ComesCut
    <2>2. 55 + 1 = 56 /\ 55 + Len(id) = 55 + n
        BY <1>2
    <2> QED BY <2>1, <2>2
<1>12. SubSeq(b, 56 + n, Len(b)) = c
    <2>1. SubSeq(b, (55 + n) + 1, (55 + n) + Len(c)) = c
        <3>1. 55 + n \in Nat
            BY <1>7
        <3> QED BY <1>6, <1>8, <3>1, ComesCut
    <2>2. (55 + n) + 1 = 56 + n
        BY <1>7
    <2>3. (55 + n) + Len(c) = Len(b)
        BY <1>8 DEF Size
    <2> QED BY <2>1, <2>2, <2>3
<1>13. Size(b) \in Room
    <2>1. Size(c) \in 0..375
        BY <1>6
    <2>2. (55 + n) + Size(c) \in Room
        BY <1>0, <2>1, RoomEnough
    <2> QED BY <1>8, <2>2
<1>14. b \in Pieces
    BY <1>8, <1>13 DEF Pieces, Size
<1> QED BY <1>5, <1>9, <1>10, <1>11, <1>12, <1>14 DEF u, id, c

AttestedMap(b) == <<<<Passkey!Text("fmt"), Passkey!Text("none")>>, <<Passkey!Text("attStmt"), Passkey!EmptyMap>>,
                    <<Passkey!Text("authData"), Passkey!Bytes(b)>>>>

LEMMA AttestedReads ==
    ASSUME NEW b \in Pieces
    PROVE  Passkey!Value(Passkey!DecodeMap(Passkey!AttestationObject(b)), Passkey!Text("authData")).b = b
<1> DEFINE m == AttestedMap(b)
           names == <<"fmt", "attStmt", "authData">>
<1>1. /\ Passkey!Text("fmt") \in Values /\ Passkey!Text("none") \in Values /\ Passkey!Text("attStmt") \in Values
      /\ Passkey!Text("authData") \in Values /\ Passkey!EmptyMap \in Values /\ Passkey!Bytes(b) \in Values
    <2>1. "fmt" \in Words /\ "none" \in Words /\ "attStmt" \in Words /\ "authData" \in Words
        BY DEF Words
    <2> QED BY <2>1 DEF Values
<1>2. m \in Maps /\ DOMAIN m = 1..3
    <2>1. m \in Seq(Values \X Values) /\ Len(m) = 3 /\ DOMAIN m = 1..3
        BY <1>1 DEF AttestedMap
    <2>2. 3 \in Room
        BY RoomHas
    <2> HIDE DEF m
    <2> QED BY <2>1, <2>2 DEF Maps
<1>3. /\ m[1][1] = Passkey!Text("fmt") /\ m[2][1] = Passkey!Text("attStmt") /\ m[3][1] = Passkey!Text("authData")
      /\ m[3][2] = Passkey!Bytes(b)
    BY DEF AttestedMap
<1>4. Passkey!AttestationObject(b) = Passkey!EncodeMap(m)
    BY DEF Passkey!AttestationObject, AttestedMap
<1> HIDE DEF m
<1>5. Passkey!DecodeMap(Passkey!AttestationObject(b)) = m
    BY <1>2, <1>4, MapReads
<1>6. Passkey!Value(m, Passkey!Text("authData")) = m[3][2]
    <2>1. ASSUME NEW j \in 1..3, m[j][1] = Passkey!Text("authData") PROVE j = 3
        <3>1. j = 1 \/ j = 2 \/ j = 3
            OBVIOUS
        <3>2. "fmt" \in Words /\ "attStmt" \in Words /\ "authData" \in Words
            BY DEF Words
        <3>3. Passkey!Text("fmt") # Passkey!Text("authData")
            <4> SUFFICES ASSUME Passkey!Text("fmt") = Passkey!Text("authData") PROVE FALSE
                OBVIOUS
            <4>1. "fmt" = "authData"
                BY <3>2, TextsDiffer
            <4> QED BY <4>1
        <3>4. Passkey!Text("attStmt") # Passkey!Text("authData")
            <4> SUFFICES ASSUME Passkey!Text("attStmt") = Passkey!Text("authData") PROVE FALSE
                OBVIOUS
            <4>1. "attStmt" = "authData"
                BY <3>2, TextsDiffer
            <4> QED BY <4>1
        <3> QED BY <1>3, <2>1, <3>1, <3>3, <3>4
    <2>2. 3 \in Nat /\ 3 \in 1..3
        OBVIOUS
    <2> QED BY <1>2, <1>3, <2>1, <2>2, ValueAt
<1>7. Passkey!Bytes(b).b = b
    BY DEF Passkey!Bytes
<1> QED BY <1>3, <1>5, <1>6, <1>7

\* A site finds its counter, its credential and the key's algorithm.
LEMMA SiteFinds ==
    ASSUME PasskeyConstants, NEW count \in SignCounts, NEW n \in ByteLengths
    PROVE  Passkey!SiteReads(Passkey!AttestationObject(Passkey!AuthenticatorData(count, Passkey!AttestedData(Passkey!Opaque(n)))))
               = [signCount |-> count, credentialId |-> Passkey!Opaque(n), key |-> -7]
<1> DEFINE b == Passkey!AuthenticatorData(count, Passkey!AttestedData(Passkey!Opaque(n)))
           object == Passkey!AttestationObject(b)
<1>0. count \in Room /\ n \in 0..(256 * 256 - 1)
    <2>1. SignCounts \subseteq Room /\ ByteLengths \subseteq 0..(256 * 256 - 1)
        BY Zenon DEF PasskeyConstants
    <2> QED BY <2>1
<1>1. /\ b \in Pieces
      /\ SubSeq(b, 34, 37) = Passkey!Uint32(count) /\ SubSeq(b, 54, 55) = Passkey!Uint16(n)
      /\ SubSeq(b, 56, 55 + n) = Passkey!Opaque(n)
      /\ SubSeq(b, 56 + n, Len(b)) = Passkey!CoseKey
    BY DataParts
<1> HIDE DEF b
<1>2. Passkey!Value(Passkey!DecodeMap(object), Passkey!Text("authData")).b = b
    BY <1>1, AttestedReads
<1> HIDE DEF object
<1>3. Passkey!Unsigned(SubSeq(b, 54, 55)) = n
    BY <1>0, <1>1, TwoBytes, ZenonT(30)
<1>4. Passkey!Unsigned(SubSeq(b, 34, 37)) = count
    BY <1>0, <1>1, FourBytes, ZenonT(30)
<1>5. Passkey!SiteReads(object)
          = [signCount |-> Passkey!Unsigned(SubSeq(b, 34, 37)), credentialId |-> SubSeq(b, 56, 55 + n),
             key |-> Passkey!Value(Passkey!DecodeMap(SubSeq(b, 56 + n, Len(b))), Passkey!Num(3)).n]
    BY <1>2, <1>3 DEF Passkey!SiteReads
<1>6. Passkey!Value(Passkey!DecodeMap(Passkey!CoseKey), Passkey!Num(3)).n = -7
    BY CoseReads
<1> QED BY <1>1, <1>4, <1>5, <1>6, ZenonT(30) DEF b, object

-----------------------------------------------------------------------------
(* PasskeyRecords: the fields that KeePassXC made.                         *)

NoText == ""
LEMMA FieldsRead ==
    ASSUME NEW f
    PROVE  LET id == IF f.credentialId # None THEN f.credentialId ELSE f.credentialIdLegacy
               u == IF f.username # None THEN f.username ELSE f.usernameLegacy
           IN  Passkey!ReadKeepassxc(f)
                   = IF f.relyingParty \in {None, NoText} \/ id \in {None, NoText, "bad"} \/ f.privateKey \in {None, NoText, "bad"}
                     THEN None
                     ELSE [credentialId |-> IF id = "url" THEN "plain" ELSE id, privateKey |-> f.privateKey,
                           rpId |-> f.relyingParty,
                           userHandle |-> IF f.userHandle = None THEN NoText
                                          ELSE IF f.userHandle = "url" THEN "plain" ELSE f.userHandle,
                           username |-> IF u = None THEN NoText ELSE u,
                           signCount |-> IF f.signCount = None THEN 0 ELSE f.signCount]
BY Zenon DEF NoText, Passkey!ReadKeepassxc, Passkey!Either, Passkey!Decoded, Passkey!Number

LEMMA NoneDiffers ==
    ASSUME PasskeyConstants
    PROVE  /\ None # NoText /\ None # "site" /\ None # "user" /\ None # "old" /\ None # "plain" /\ None # "url"
           /\ None # "pem" /\ None # "bad" /\ None \notin Nat
           /\ NoText # "site" /\ NoText # "user" /\ NoText # "old" /\ NoText # "plain" /\ NoText # "url" /\ NoText # "pem" /\ NoText # "bad"
<1>1. None \notin {"", "site", "user", "old", "plain", "url", "pem", "bad"} /\ None \notin Nat
    BY Zenon DEF PasskeyConstants
<1> QED BY <1>1, Zenon DEF NoText

\* A signature counted.
Counted(r) == [r EXCEPT !.signCount = @ + 1]
Stored(f) ==
    LET r == Passkey!ReadKeepassxc(f) IN IF r = None THEN f ELSE Passkey!WriteKeepassxc(f, Counted(r))

\* A passkey of KeePassXC is read, counted, written and read again, and what Keetar does
\* not know of it is kept.
LEMMA KeepassxcReads ==
    ASSUME PasskeyConstants, NEW f \in Passkey!KeepassxcFields
    PROVE  /\ Passkey!ReadKeepassxc(Stored(f))
                = (IF Passkey!ReadKeepassxc(f) = None THEN None ELSE Counted(Passkey!ReadKeepassxc(f)))
           /\ Stored(f).flagBE = f.flagBE /\ Stored(f).usernameLegacy = f.usernameLegacy
           /\ Stored(f).credentialIdLegacy = f.credentialIdLegacy
<1>1. PICK rp \in {None, "site"}, un \in {None, "user"}, ul \in {None, "old"}, uh \in {None, "plain", "url"},
           ci \in {None, NoText, "plain", "url", "bad"}, cl \in {None, "url"}, pk \in {None, "pem", "bad"},
           be \in {None, "1"}, sc \in {None, 0, 1} :
          f = [relyingParty |-> rp, username |-> un, usernameLegacy |-> ul, userHandle |-> uh, credentialId |-> ci,
               credentialIdLegacy |-> cl, privateKey |-> pk, flagBE |-> be, signCount |-> sc]
    <2>1. Passkey!KeepassxcFields =
            [relyingParty : {None, "site"}, username : {None, "user"}, usernameLegacy : {None, "old"},
             userHandle : {None, "plain", "url"}, credentialId : {None, NoText, "plain", "url", "bad"},
             credentialIdLegacy : {None, "url"}, privateKey : {None, "pem", "bad"}, flagBE : {None, "1"},
             signCount : {None, 0, 1}]
        BY Zenon DEF Passkey!KeepassxcFields, NoText
    <2> QED BY <2>1
<1> DEFINE r == Passkey!ReadKeepassxc(f)
           id == IF ci # None THEN ci ELSE cl
           u == IF un # None THEN un ELSE ul
<1>2. CASE r = None
    <2>1. Stored(f) = f
        BY <1>2 DEF Stored
    <2> QED BY <1>2, <2>1
<1>3. CASE r # None
    <2> DEFINE h == IF uh = None THEN NoText ELSE "plain"
               w == IF u = None THEN NoText ELSE u
               n == IF sc = None THEN 0 ELSE sc
               k == [credentialId |-> "plain", privateKey |-> "pem", rpId |-> "site", userHandle |-> h,
                     username |-> w, signCount |-> n]
               g == [relyingParty |-> "site", username |-> w, usernameLegacy |-> ul, userHandle |-> h,
                     credentialId |-> "plain", credentialIdLegacy |-> cl, privateKey |-> "pem", flagBE |-> be,
                     signCount |-> n + 1]
    <2>1. r = IF rp \in {None, NoText} \/ id \in {None, NoText, "bad"} \/ pk \in {None, NoText, "bad"} THEN None
              ELSE [credentialId |-> IF id = "url" THEN "plain" ELSE id, privateKey |-> pk, rpId |-> rp,
                    userHandle |-> IF uh = None THEN NoText ELSE IF uh = "url" THEN "plain" ELSE uh,
                    username |-> IF u = None THEN NoText ELSE u,
                    signCount |-> IF sc = None THEN 0 ELSE sc]
        BY <1>1, FieldsRead
    <2>2. rp = "site" /\ pk = "pem" /\ id \in {"plain", "url"}
        <3>1. rp \notin {None, NoText} /\ id \notin {None, NoText, "bad"} /\ pk \notin {None, NoText, "bad"}
            BY <1>3, <2>1
        <3> QED BY <3>1
    <2>3. r = k
        <3>1. (IF id = "url" THEN "plain" ELSE id) = "plain"
            BY <2>2
        <3>2. (IF uh = None THEN NoText ELSE IF uh = "url" THEN "plain" ELSE uh) = h
            OBVIOUS
        <3>3. rp \notin {None, NoText} /\ id \notin {None, NoText, "bad"} /\ pk \notin {None, NoText, "bad"}
            BY <2>2, NoneDiffers
        <3> HIDE DEF id, h
        <3> QED BY <2>1, <2>2, <3>1, <3>2, <3>3
    <2>4. n \in Nat
        OBVIOUS
    <2> HIDE DEF r
    <2>5. Counted(r) = [credentialId |-> "plain", privateKey |-> "pem", rpId |-> "site", userHandle |-> h,
                        username |-> w, signCount |-> n + 1]
        BY <2>3 DEF Counted
    <2>6. Stored(f) = g
        <3>1. Stored(f) = Passkey!WriteKeepassxc(f, Counted(r))
            BY <1>3 DEF Stored, r
        <3> HIDE DEF h, w, n
        <3> DEFINE x == Counted(r)
        <3>2. /\ x.rpId = "site" /\ x.username = w /\ x.userHandle = h /\ x.credentialId = "plain"
              /\ x.privateKey = "pem" /\ x.signCount = n + 1
            BY <2>5
        <3> HIDE DEF x
        <3>3. Passkey!WriteKeepassxc(f, x) =
                [f EXCEPT !.relyingParty = x.rpId, !.username = x.username, !.userHandle = x.userHandle,
                          !.credentialId = x.credentialId, !.privateKey = x.privateKey, !.signCount = x.signCount]
            BY DEF Passkey!WriteKeepassxc
        <3>4. Passkey!WriteKeepassxc(f, x) = g
            BY <1>1, <3>2, <3>3
        <3> QED BY <3>1, <3>4 DEF x
    <2>7. h # None /\ w # None /\ n + 1 # None
        <3>1. h \in {NoText, "plain"} /\ w \in {NoText, "user", "old"} /\ n + 1 \in Nat
            BY <2>4
        <3> QED BY <3>1, NoneDiffers
    <2>8. h # "url"
        BY NoneDiffers
    <2> HIDE DEF h, w, n
    <2>9. Passkey!ReadKeepassxc(g) = [credentialId |-> "plain", privateKey |-> "pem", rpId |-> "site", userHandle |-> h,
                                      username |-> w, signCount |-> n + 1]
        <3>1. /\ g.relyingParty = "site" /\ g.username = w /\ g.usernameLegacy = ul /\ g.userHandle = h
              /\ g.credentialId = "plain" /\ g.credentialIdLegacy = cl /\ g.privateKey = "pem" /\ g.signCount = n + 1
            OBVIOUS
        <3> HIDE DEF g
        <3>2. "site" \notin {None, NoText} /\ "plain" \notin {None, NoText, "bad"} /\ "pem" \notin {None, NoText, "bad"}
            BY NoneDiffers
        <3> QED BY <2>7, <2>8, <3>1, <3>2, FieldsRead
    <2>10. g.flagBE = f.flagBE /\ g.usernameLegacy = f.usernameLegacy /\ g.credentialIdLegacy = f.credentialIdLegacy
        BY <1>1
    <2> HIDE DEF g
    <2> QED BY <1>3, <2>5, <2>6, <2>9, <2>10 DEF r
<1> QED BY <1>2, <1>3

-----------------------------------------------------------------------------
(* PasskeyRecords: the jobs.                                               *)

\* What is written of a job, and what is read of some bytes of it.
PasskeyWrites(j) ==
    CASE j.kind = "native" -> Passkey!EncodeNativeRecord(j.record)
      [] j.kind = "keepassxc" -> Stored(j.fields)
      [] j.kind = "attestation" ->
            Passkey!AttestationObject(Passkey!AuthenticatorData(j.count, Passkey!AttestedData(j.id)))
      [] j.kind = "signature" -> Passkey!Der(j.r, j.s)
      [] j.kind = "algorithm" -> j.oid
PasskeyReads(j, b) ==
    CASE j.kind = "native" -> Passkey!DecodeNativeRecord(b)
      [] j.kind = "keepassxc" -> [fields |-> b, record |-> Passkey!ReadKeepassxc(b)]
      [] j.kind = "attestation" -> Passkey!SiteReads(b)
      [] j.kind = "signature" -> Passkey!DerReads(b)
      [] j.kind = "algorithm" -> [algorithm |-> Passkey!DetectAlgorithm(b)]

\* Nothing else is ever written of the job, nor read of that.
PasskeyInv ==
    /\ v1 \in Passkey!Jobs
    /\ v2 \in {None, PasskeyWrites(v1)}
    /\ v3 \in {None, PasskeyReads(v1, PasskeyWrites(v1))}

LEMMA PasskeyInvInit == Passkey!Init => PasskeyInv
BY DEF Passkey!Init, PasskeyInv

LEMMA PasskeyInvNext == ASSUME PasskeyInv, Passkey!Next PROVE PasskeyInv'
<1>0. v1 \in Passkey!Jobs /\ v2 \in {None, PasskeyWrites(v1)} /\ v3 \in {None, PasskeyReads(v1, PasskeyWrites(v1))}
    BY DEF PasskeyInv
<1>1. CASE Passkey!Write
    <2>1. v1' = v1 /\ v3' = v3
        BY <1>1 DEF Passkey!Write
    <2>2. v2' = PasskeyWrites(v1)
        BY <1>1, Zenon DEF Passkey!Write, PasskeyWrites, Stored, Counted
    <2> QED BY <1>0, <2>1, <2>2 DEF PasskeyInv
<1>2. CASE Passkey!Read
    <2>1. v1' = v1 /\ v2' = v2 /\ v2 # None
        BY <1>2 DEF Passkey!Read
    <2>2. v3' = PasskeyReads(v1, v2)
        BY <1>2, Zenon DEF Passkey!Read, PasskeyReads
    <2> QED BY <1>0, <2>1, <2>2 DEF PasskeyInv
<1> QED BY <1>1, <1>2 DEF Passkey!Next

\* What a job is, by its kind.
LEMMA JobKinds ==
    ASSUME NEW j \in Passkey!Jobs
    PROVE  \/ j.kind = "native" /\ j.record \in Passkey!Records
           \/ j.kind = "keepassxc" /\ j.fields \in Passkey!KeepassxcFields
           \/ j.kind = "attestation" /\ j.count \in SignCounts /\ \E n \in ByteLengths : j.id = Passkey!Opaque(n)
           \/ j.kind = "signature" /\ j.r \in Passkey!Numbers /\ j.s \in Passkey!Numbers
           \/ j.kind = "algorithm" /\ j.oid \in Passkey!Oids
BY DEF Passkey!Jobs

LEMMA OidsDetected ==
    ASSUME NEW b \in Passkey!Oids
    PROVE  Passkey!DetectAlgorithm(b) = (CASE Len(b) = 9 -> "RS256" [] Len(b) = 7 -> "ES256"
                                           [] Len(b) = 3 -> "EdDSA" [] OTHER -> "unsupported")
<1>1. CASE b = <<42, 134, 72, 134, 247, 13, 1, 1, 1>>
    <2>1. Passkey!DetectAlgorithm(b) = "RS256"
        BY <1>1, DetectsRsa
    <2>2. Len(b) = 9
        BY <1>1
    <2> QED BY <2>1, <2>2
<1>2. CASE b = <<42, 134, 72, 206, 61, 2, 1>>
    <2>1. Passkey!DetectAlgorithm(b) = "ES256"
        BY <1>2, DetectsEcdsa
    <2>2. Len(b) = 7
        BY <1>2
    <2> QED BY <2>1, <2>2
<1>3. CASE b = <<43, 101, 112>>
    <2>1. Passkey!DetectAlgorithm(b) = "EdDSA"
        BY <1>3, DetectsEdDsa
    <2>2. Len(b) = 3
        BY <1>3
    <2> QED BY <2>1, <2>2
<1>4. CASE b = <<42, 3>>
    <2>1. Passkey!DetectAlgorithm(b) = "unsupported"
        BY <1>4, DetectsNone
    <2>2. Len(b) = 2
        BY <1>4
    <2> QED BY <2>1, <2>2
<1> QED BY <1>1, <1>2, <1>3, <1>4, Zenon DEF Passkey!Oids

LEMMA PasskeyInvSays == ASSUME PasskeyConstants, PasskeyInv, v3 # None PROVE Passkey!PasskeysReadBack
<1>0. v1 \in Passkey!Jobs /\ v3 = PasskeyReads(v1, PasskeyWrites(v1))
    BY DEF PasskeyInv
<1>1. CASE v1.kind = "native" /\ v1.record \in Passkey!Records
    <2>1. PasskeyWrites(v1) = Passkey!EncodeNativeRecord(v1.record)
        BY <1>1 DEF PasskeyWrites
    <2>2. v3 = Passkey!DecodeNativeRecord(PasskeyWrites(v1))
        BY <1>0, <1>1 DEF PasskeyReads
    <2>3. v3 = [v1.record EXCEPT !.algorithm = IF @ = "v1" THEN "ES256" ELSE @]
        BY <1>1, <2>1, <2>2, NativeReads
    <2> QED BY <1>1, <2>3 DEF Passkey!PasskeysReadBack
<1>2. CASE v1.kind = "keepassxc" /\ v1.fields \in Passkey!KeepassxcFields
    <2> DEFINE f == v1.fields
               s == Stored(f)
    <2>1. PasskeyWrites(v1) = s
        BY <1>2 DEF PasskeyWrites
    <2>2. v3 = [fields |-> s, record |-> Passkey!ReadKeepassxc(s)]
        BY <1>0, <1>2, <2>1 DEF PasskeyReads
    <2>3. /\ Passkey!ReadKeepassxc(s) = (IF Passkey!ReadKeepassxc(f) = None THEN None
                                         ELSE [Passkey!ReadKeepassxc(f) EXCEPT !.signCount = @ + 1])
          /\ s.flagBE = f.flagBE /\ s.usernameLegacy = f.usernameLegacy
          /\ s.credentialIdLegacy = f.credentialIdLegacy
        BY <1>2, KeepassxcReads DEF Counted
    <2>4. /\ v3.record = (IF Passkey!ReadKeepassxc(f) = None THEN None
                          ELSE [Passkey!ReadKeepassxc(f) EXCEPT !.signCount = @ + 1])
          /\ \A k \in {"flagBE", "usernameLegacy", "credentialIdLegacy"} : v3.fields[k] = f[k]
        <3> HIDE DEF f, s
        <3> QED BY <2>2, <2>3
    <2> QED BY <1>2, <2>4 DEF Passkey!PasskeysReadBack
<1>3. CASE v1.kind = "attestation" /\ v1.count \in SignCounts /\ \E n \in ByteLengths : v1.id = Passkey!Opaque(n)
    <2>1. PasskeyWrites(v1) = Passkey!AttestationObject(Passkey!AuthenticatorData(v1.count, Passkey!AttestedData(v1.id)))
        BY <1>3 DEF PasskeyWrites
    <2>2. v3 = Passkey!SiteReads(PasskeyWrites(v1))
        BY <1>0, <1>3 DEF PasskeyReads
    <2>3. v3 = [signCount |-> v1.count, credentialId |-> v1.id, key |-> -7]
        BY <1>3, <2>1, <2>2, SiteFinds
    <2> QED BY <1>3, <2>3 DEF Passkey!PasskeysReadBack
<1>4. CASE v1.kind = "signature" /\ v1.r \in Passkey!Numbers /\ v1.s \in Passkey!Numbers
    <2>1. PasskeyWrites(v1) = Passkey!Der(v1.r, v1.s)
        BY <1>4 DEF PasskeyWrites
    <2>2. v3 = Passkey!DerReads(PasskeyWrites(v1))
        BY <1>0, <1>4 DEF PasskeyReads
    <2>3. v3 = [r |-> Passkey!Unsigned(v1.r), s |-> Passkey!Unsigned(v1.s), canonical |-> TRUE]
        BY <1>4, <2>1, <2>2, SignatureReads
    <2> QED BY <1>4, <2>3 DEF Passkey!PasskeysReadBack
<1>5. CASE v1.kind = "algorithm" /\ v1.oid \in Passkey!Oids
    <2>1. PasskeyWrites(v1) = v1.oid
        BY <1>5 DEF PasskeyWrites
    <2>2. v3 = [algorithm |-> Passkey!DetectAlgorithm(v1.oid)]
        BY <1>0, <1>5, <2>1 DEF PasskeyReads
    <2>3. v3.algorithm = (CASE Len(v1.oid) = 9 -> "RS256" [] Len(v1.oid) = 7 -> "ES256"
                            [] Len(v1.oid) = 3 -> "EdDSA" [] OTHER -> "unsupported")
        BY <1>5, <2>2, OidsDetected
    <2> QED BY <1>5, <2>3 DEF Passkey!PasskeysReadBack
<1> QED BY <1>0, <1>1, <1>2, <1>3, <1>4, <1>5, JobKinds

LEMMA PasskeyKept == FormatsSpec => [](subject = "PasskeyRecords" => PasskeyInv)
<1> DEFINE Inv == subject = "PasskeyRecords" => PasskeyInv
<1>1. FormatsInit => Inv
    BY PasskeyInvInit DEF FormatsInit
<1>2. Inv /\ [FormatsNext]_<<subject, vars, shared>> => Inv'
    <2> SUFFICES ASSUME Inv, [FormatsNext]_<<subject, vars, shared>>, subject' = "PasskeyRecords"
                 PROVE  PasskeyInv'
        OBVIOUS
    <2>1. subject' = subject
        BY DEF FormatsNext
    <2>2. PasskeyInv
        BY <2>1
    <2>3. Passkey!Next \/ UNCHANGED <<v1, v2, v3>>
        BY <2>1 DEF FormatsNext, shared
    <2>4. CASE Passkey!Next
        BY <2>2, <2>4, PasskeyInvNext
    <2>5. CASE UNCHANGED <<v1, v2, v3>>
        BY <2>2, <2>5 DEF PasskeyInv
    <2> QED BY <2>3, <2>4, <2>5
<1> QED BY <1>1, <1>2, PTL DEF FormatsSpec

\* A native passkey is read back as it was written, whatever the lengths of its parts and
\* its counter; one of KeePassXC keeps its key and the fields that Keetar does not know; a
\* site finds the credential, its key and the counter where it looks for them; a signature
\* is the pair of numbers in the one form that DER allows, however large they are; and the
\* object identifier of a key gives its algorithm.
THEOREM FormatsPasskeysReadBack == ASSUME PasskeyConstants PROVE FormatsSpec => []PasskeysReadBack
<1>1. (subject = "PasskeyRecords" => PasskeyInv) => PasskeysReadBack
    <2> SUFFICES ASSUME PasskeyInv PROVE Passkey!PasskeysReadBack
        BY DEF PasskeysReadBack
    <2>1. CASE v3 = None
        BY <2>1 DEF Passkey!PasskeysReadBack
    <2>2. CASE v3 # None
        BY <2>2, PasskeyInvSays
    <2> QED BY <2>1, <2>2
<1> QED BY <1>1, PasskeyKept, PTL
=============================================================================

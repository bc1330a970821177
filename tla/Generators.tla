-------------------------------- MODULE Generators --------------------------------
(***************************************************************************)
(* What the extension makes of random bytes and of time: passwords,        *)
(* passphrases, and the codes of a second factor.                          *)
(*                                                                         *)
(* Source: generator/password.ts, passphrase.ts, secure-random-int.ts and  *)
(* totp/totp.ts of packages/core, and config/generator-config.ts.  A byte  *)
(* has Byte values (256), the list of words Words words (7776).  The hash  *)
(* of a code is any bytes of its length; a wrong option is the text "bad". *)
(***************************************************************************)
EXTENDS Integers, Sequences, SequencesExt, FiniteSets

CONSTANTS
    Byte,           \* values of a byte
    Words,          \* words in the list
    Lowercase, Uppercase, Digits, DefaultSymbols, AmbiguousChars,
    Options,        \* options of passwords: [length, lower, upper, digits, symbols, unambiguous, custom]
    PhraseOptions,  \* of passphrases: [count, capital, number], a field None when it is not stored
    MaxAttempts,    \* passwords tried (1000)
    Secrets,        \* of codes, as texts of 5 bits
    Params,         \* of a link: [type, algorithm, digits, period], each None when it is missing
    Macs,           \* hashes of a counter
    MaxTime,        \* bound: seconds
    None

VARIABLES
    kind,           \* what is being made
    input,          \* what of
    tries,          \* passwords drawn
    result          \* what came out: None, "error", or the thing

vars == <<kind, input, tries, result>>

----------------------------------------------------------------------------
(* secure-random-int.ts.                                                   *)

Width(n) == IF n <= Byte THEN Byte ELSE Byte * Byte
\* Values at or above the limit are drawn again.
AllValues(n) == Width(n)
Limit(n) == Width(n) - (Width(n) % n)
DrawsOf(n, r) == {v \in 0..(Limit(n) - 1) : v % n = r}

----------------------------------------------------------------------------
(* password.ts.                                                            *)

Plain(chars) == chars
\* dedupe keeps the first of each character.
Dedupe(chars) == FoldLeft(LAMBDA s, c : IF Contains(s, c) THEN s ELSE Append(s, c), <<>>, chars)
FilterAmbiguous(chars, exclude) ==
    IF exclude THEN SelectSeq(chars, LAMBDA c : c \notin AmbiguousChars) ELSE chars
IsBlank(chars) == \A i \in DOMAIN chars : chars[i] = " "
Symbols(o) == IF IsBlank(o.custom) THEN DefaultSymbols ELSE Dedupe(o.custom)
Classes(o) ==
    LET all == (IF o.lower THEN <<Lowercase>> ELSE <<>>) \o (IF o.upper THEN <<Uppercase>> ELSE <<>>)
               \o (IF o.digits THEN <<Digits>> ELSE <<>>) \o (IF o.symbols THEN <<Symbols(o)>> ELSE <<>>)
    IN  SelectSeq([i \in DOMAIN all |-> FilterAmbiguous(all[i], o.unambiguous)], LAMBDA c : c # <<>>)
Pool(o) == FlattenSeq(Classes(o))
CanGenerate(o) ==
    /\ o.length >= 1 /\ Classes(o) # <<>>
    /\ Len(Classes(o)) > 1 => o.length >= Len(Classes(o))

ContainsEachClass(candidate, classes) ==
    \A i \in DOMAIN classes : \E c \in DOMAIN candidate : Contains(classes[i], candidate[c])
Candidates(o) == {[i \in 1..o.length |-> Pool(o)[d[i] + 1]] : d \in [1..o.length -> 0..(Len(Pool(o)) - 1)]}

----------------------------------------------------------------------------
(* passphrase.ts: a word is its place in the list.                         *)

Wordlist == 1..Words
DefaultPhrase == [count |-> 2, capital |-> TRUE, number |-> FALSE]
\* getGeneratorPreferences, and the options given here: a default for what is missing.
WithDefaults(o) == [k \in DOMAIN DefaultPhrase |-> IF o[k] = None THEN DefaultPhrase[k] ELSE o[k]]
Phrases(o) ==
    {[i \in 1..o.count |-> [word |-> w[i], capital |-> o.capital, number |-> IF o.number /\ i = at THEN n ELSE None]] :
        w \in [1..o.count -> Wordlist], at \in 1..o.count, n \in 0..1}

----------------------------------------------------------------------------
(* totp.ts.                                                                *)

\* base32ToBytes: five bits go into the buffer, eight come out when it holds them.
Buffered == [buffer |-> 0, bits |-> 0, bytes |-> <<>>]
Word == 65536       \* the buffer loses its upper bits: 2^32 in the program
Out(s) == [buffer |-> s.buffer, bits |-> s.bits - 8,
           bytes |-> Append(s.bytes, (s.buffer \div (2 ^ (s.bits - 8))) % 256)]
EmitLate(s) == IF s.bits > 8 THEN Out(s) ELSE s
Emit(s) == IF s.bits >= 8 THEN Out(s) ELSE s
Take(s, v) == Emit([s EXCEPT !.buffer = (@ * 32 + v) % Word, !.bits = @ + 5])
Base32ToBytes(secret) == FoldLeft(Take, Buffered, secret).bytes

\* parseTotp: the defaults, and what is refused.
Or(v, default) == IF v = None THEN default ELSE v
ParseTotp(p) == [algorithm |-> Or(p.algorithm, "SHA1"), digits |-> Or(p.digits, 6), period |-> Or(p.period, 30)]
IsTotp(p) ==
    /\ p.type = "totp" /\ ParseTotp(p).algorithm \in {"SHA1", "SHA256", "SHA512"}
    /\ ParseTotp(p).digits \in {6, 7, 8} /\ ParseTotp(p).period >= 1

\* generateTotpCode: four bytes of the hash from the place its last one names, their
\* sign dropped.
Truncated(mac) ==
    LET at == mac[Len(mac)] % 16
    IN  (mac[at + 1] % 128) * 16777216 + mac[at + 2] * 65536 + mac[at + 3] * 256 + mac[at + 4]
Padded(n, digits) == [i \in 1..digits |-> (n \div (10 ^ (digits - i))) % 10]
GeneratedCode(c, mac, now) ==
    [code |-> Padded(Truncated(mac) % (10 ^ c.digits), c.digits), counter |-> now \div c.period,
     remaining |-> c.period - (now % c.period), mac |-> mac, now |-> now]

----------------------------------------------------------------------------
(* What is made, in one step but for the passwords drawn again.            *)

Wait == [state |-> "wait", value |-> <<>>]

Init ==
    /\ tries = 0 /\ result = Wait
    /\ \/ kind = "password" /\ input \in Options
       \/ kind = "phrase" /\ input \in PhraseOptions
       \/ kind = "number" /\ input \in 1..(Byte * Byte)
       \/ kind = "secret" /\ input \in Secrets
       \/ kind = "code" /\ input \in Params

Asked(k) == kind = k /\ result = Wait
Made(v) == result' = [state |-> "made", value |-> v] /\ UNCHANGED <<kind, input, tries>>
Refuse == result' = [state |-> "refused", value |-> <<>>] /\ UNCHANGED <<kind, input, tries>>

GeneratePassword ==
    /\ Asked("password")
    /\ IF ~CanGenerate(input) \/ tries = MaxAttempts THEN Refuse
       ELSE \E c \in Candidates(input) :
                IF Len(Classes(input)) = 1 \/ ContainsEachClass(c, Classes(input)) THEN Made(c)
                ELSE tries' = tries + 1 /\ UNCHANGED <<kind, input, result>>

GeneratePassphrase ==
    /\ Asked("phrase")
    /\ LET o == WithDefaults(input)
       IN  IF o.count < 1 THEN Refuse ELSE \E p \in Phrases(o) : Made(p)

\* The loop ends with the first value below the limit.
SecureRandomInt == Asked("number") /\ \E v \in 0..(Limit(input) - 1) : Made(<<v % input>>)

Base32 == Asked("secret") /\ IF input = <<>> THEN Refuse ELSE Made(Base32ToBytes(input))

GenerateTotpCode ==
    /\ Asked("code")
    /\ IF ~IsTotp(input) THEN Refuse
       ELSE \E mac \in Macs, now \in 0..MaxTime : Made(<<GeneratedCode(ParseTotp(input), mac, now)>>)

Next == GeneratePassword \/ GeneratePassphrase \/ SecureRandomInt \/ Base32 \/ GenerateTotpCode

Spec == Init /\ [][Next]_vars

----------------------------------------------------------------------------
(* Properties.                                                             *)

TypeOK ==
    /\ tries \in 0..MaxAttempts
    /\ result.state \in {"wait", "made", "refused"}

Chosen(o) ==
    {c \in {IF o.lower THEN Range(Lowercase) ELSE {}, IF o.upper THEN Range(Uppercase) ELSE {},
            IF o.digits THEN Range(Digits) ELSE {}, IF o.symbols THEN Range(Symbols(o)) ELSE {}} : c # {}}
Allowed(o) == UNION Chosen(o) \ (IF o.unambiguous THEN AmbiguousChars ELSE {})
Spread(o, c) == Cardinality({i \in DOMAIN Pool(o) : Pool(o)[i] = c})
OwnSymbolsOnly(o) == Range(o.custom) \cap (Range(Lowercase) \cup Range(Uppercase) \cup Range(Digits)) = {}

\* Every number below the one asked for has the same number of random values, and every
\* character of a password the same number of places in what it is drawn from, unless
\* symbols of one's own repeat letters or digits; a password has the length asked for, a
\* character of each class that has any left, and none that is excluded.
GeneratedFair ==
    /\ kind = "number" =>
          \A r \in 0..(input - 1) :
              Cardinality(DrawsOf(input, r)) = Cardinality(DrawsOf(input, 0)) /\ DrawsOf(input, r) # {}
    /\ kind = "password" /\ OwnSymbolsOnly(input) => \A c, d \in Allowed(input) : Spread(input, c) = Spread(input, d)
    /\ kind = "password" /\ result.state = "made" =>
          /\ Len(result.value) = input.length /\ Range(result.value) \subseteq Allowed(input)
          /\ \A class \in Chosen(input) : class \cap Allowed(input) # {} => class \cap Range(result.value) # {}
    /\ kind = "phrase" /\ result.state = "made" =>
          /\ input.count # None => Len(result.value) = input.count
          /\ Cardinality({i \in DOMAIN result.value : result.value[i].number # None}) = IF input.number = TRUE THEN 1 ELSE 0

Bits(v, width) == [i \in 1..width |-> (v \div (2 ^ (width - i))) % 2]
AllBits(values, width) == FlattenSeq([i \in DOMAIN values |-> Bits(values[i], width)])

\* A secret gives the bytes that its bits spell, those of an unfinished byte left out; a
\* code is the truncated hash in decimals, all of them written, and holds for as many
\* seconds as it says and no longer.
CodesRight ==
    /\ kind = "secret" /\ result.state = "made" =>
          /\ Len(result.value) = (5 * Len(input)) \div 8
          /\ AllBits(result.value, 8) = SubSeq(AllBits(input, 5), 1, 8 * Len(result.value))
    /\ kind = "code" /\ result.state = "made" =>
          LET r == result.value[1]
              config == ParseTotp(input)
          IN  /\ Len(r.code) = config.digits
              /\ FoldLeft(LAMBDA n, d : 10 * n + d, 0, r.code) = Truncated(r.mac) % (10 ^ config.digits)
              /\ \A s \in 0..(r.remaining - 1) : (r.now + s) \div config.period = r.counter
              /\ (r.now + r.remaining) \div config.period = r.counter + 1
=============================================================================

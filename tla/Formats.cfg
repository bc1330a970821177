CONSTANTS
    Entries = {e1}
    Binaries = {b1, b2}
    Saves = {s1, s2}
    MaxSalts = 3
    None = None
    XmlMinors = {0, 1}
    MaxXmlChanges = 2
    FieldNumbers = {1, 2}
    MaxFieldSteps = 3
    Payloads <- SomePayloads
    FileCredentials <- SomeCredentials
    FileHeaders <- SomeHeaders
    Draws <- SomeDraws
    ByteValues = 4
    StreamStart = 2
    StreamNumbers <- SomeNumbers
    StreamTexts <- SomeTexts
    MaxWrites = 3
    MaxHi = 8
    MaxPreIteration = 3
    MaxRounds = 7
    BlockCipher <- SomeCipher
    ByteLengths = {0, 23, 24, 255, 256}
    SignCounts = {0, 23, 24, 255, 256, 65535, 65536, 16777216}
    SignatureBytes = {0, 1, 127, 128, 255}
    NumberBytes = 2
SPECIFICATION FormatsSpec
CHECK_DEADLOCK FALSE
SYMMETRY Symmetric
INVARIANTS
    TypesOK
    LoneSaveFaithful
    FieldsKept
    OpensAsSealed
    NeverOpensDamaged
    PasskeysReadBack
    TransferKeepsEntries
    HealthTrue
    GeneratedRight
    BytesReadBack

\* Words of four bits, Z-characters of three, generators of six states against
\* Frotz's of eighteen, operands of random of three bits, every content of the
\* bytes of a list of properties, and all 256 opcode bytes.
SPECIFICATION PartsSpec
CONSTANTS
    WordLimit = 16
    ByteChoices <- MCByteChoices
    MaxTextWords = 2
    ZLimit = 8
    CodeLimit = 64
    Space = 1
    DictionaryZChars = 6
    AlphabetA0 <- MCA0
    AlphabetA1 <- MCA1
    AlphabetA2 <- MCA2
    OutputCodes <- MCOutputCodes
    Abbreviations <- MCAbbreviations
    TypedCodes <- MCTypedCodes
    TextByteLimit = 32
    AddressScale = 2
    MaxZChars = 5
    MaxLaid = 4
    TextImage <- MCImage
    TextImageSize <- MCImageSize
    TextAt <- MCTextAt
    AbbreviationTable <- MCTable
    LaidIndices <- MCLaidIndices
    LastBytes <- MCLastBytes
    MaxTyped = 4
    StateLimit = 6
    WideLimit = 18
    Shift = 2
    ResultLimit = 3
    Multiplier = 5
    Increment = 1
    CounterLimit = 4
    IntervalSeed = 3
    RangeLimit = 8
    IntLimit = 16
    Ranges <- MCRanges
    HostSeeds <- MCHostSeeds
    NoSeed <- MCNoSeed
    PcgNumbers <- MCPcgNumbers
    Entropy <- MCEntropy
    NoEntropy <- MCNoEntropy
    ForeignChunks <- MCForeignChunks
    Machines = {m1, m2}
    ImageSize = 2
    StaticBase = 1
    Values = {0, 1}
    MaxProperty = 3
    MaxLength = 2
    NameScale = 1
    NameLengths = {0, 2, 6}
    StorySize = 6
    NameableSize = 5
    DynamicSize = 5
    MaxObject = 3
    EntrySize = 3
    FlagBytes = 2
    FlagsPerByte = 2
    TableSize = 6
SYMMETRY MCSymmetry
INVARIANTS
    PartsTypeOK
    QuotientAndRemainder
    TextsAsSpecified
    EncodingInverse
    EncodesBack
    SameNumbers
    CycleKept
    ShortListsEnumerable
PROPERTIES
    PutChangesOneValue
    OneFlagChanges
    Isolated

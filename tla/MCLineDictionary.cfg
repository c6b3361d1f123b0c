\* The same story files, with what a comment in dictionary.go says of all of them.
SPECIFICATION LineSpec
CONSTANTS
    WordLimit = 64
    ByteLimit = 8
    HeaderSize = 1
    DefaultsSize = 1
    GlobalsSize = 2
    AbbreviationsSize = 2
    EntryLengthMin = 2
    MaxStoryLength = 128
    LengthScale = 2
    Version = 3
    ZLimit = 8
    CodeLimit = 64
    Space = 1
    DictionaryZChars = 2
    AlphabetA0 <- MCA0
    AlphabetA1 <- MCA1
    AlphabetA2 <- MCA2
    OutputCodes <- MCOutputCodes
    Abbreviations <- MCAbbreviations
    Files <- MCFiles
    Characters <- MCCharacters
    TypedCode <- MCTypedCode
    NoCode <- MCNoCode
    Lines <- MCLines
    TextBuffers <- MCTextBuffers
    ParseBuffers <- MCParseBuffers
    Stores <- MCStores
    MaxSteps = 3
INVARIANTS
    DictionaryNeverFails

\* Calls of at most three instructions, with a look at the context before the
\* first and the third; the story writes the one header bit that is its own.
SPECIFICATION FairSpec
CONSTANTS
    Core             <- MCCore
    InitialCore      = "first"
    NoStatus         = "none"
    Screen           <- MCScreen
    InitialScreen    = "initial"
    Seed             <- MCSeed
    HostSeed         = {1}
    Period           = 2
    StoryFlags       = {"noStatusLine", "transcript"}
    StoryWrites      = {"fixedPitch"}
    InstructionLimit = 3
    CheckInterval    = 2
INVARIANTS
    TypeOK
    RebuiltAlike
    LineReadOnce
    BoundaryReadsLine
    CancelledSoon
    StatusCurrent
PROPERTIES
    CallsReturn

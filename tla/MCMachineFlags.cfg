\* A story that sets the transcription bit, as a SCRIPT command does.
SPECIFICATION FairSpec
CONSTANTS
    Core             <- MCCore
    InitialCore      = "first"
    NoStatus         = "none"
    Screen           <- MCScreen
    InitialScreen    = "initial"
    Seed             <- MCSeed
    HostSeed         = {1}
    Period           = 2
    StoryFlags       = {"noStatusLine", "transcript"}
    StoryWrites      = {"transcript"}
    InstructionLimit = 3
    CheckInterval    = 2
INVARIANTS
    RebuiltAlike

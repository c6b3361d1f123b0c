\* Saves with chunks missing or damaged.
SPECIFICATION FairSpec
CONSTANTS
    Core             <- MCCore
    InitialCore      = "first"
    NoStatus         = "none"
    Screen           <- MCScreen
    InitialScreen    = "initial"
    Seed             <- MCSeed
    HostSeed         = {1}
    Period           = 2
    StoryFlags       = {"noStatusLine", "transcript"}
    StoryWrites      = {"fixedPitch"}
    InstructionLimit = 3
    CheckInterval    = 2
PROPERTIES
    RestoreAllOrNothing

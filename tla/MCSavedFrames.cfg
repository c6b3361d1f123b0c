\* Calls whose last byte may be the last of the story; one word of stack, which
\* every frame of the chain may own.
SPECIFICATION RestoredSpec
CONSTANTS
    WordLimit    = 2
    StorySize    = 2
    DynamicSize  = 1
    AddressLimit = 3
    GlobalBase   = 0
    GlobalCount  = 1
    MaxLocals    = 1
    MaxDepth     = 2
    MaxStack     = 1
    MaxOperands  = 2
    InitialPC    = 1
    HeaderSize   = 1
    MaxArguments = 1
INVARIANTS
    FramesNested
    FramesSurvive

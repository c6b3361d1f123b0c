\* Words of one bit, one local and one global, so that every word is also the
\* number of a variable; two activations, two words of stack and two operands,
\* so that both limits are reached and an operand can pop what another left; a
\* story of the greatest length, so that a program counter can stand behind it.
SPECIFICATION Spec
CONSTANTS
    WordLimit = 2
    StorySize = 2
    DynamicSize = 1
    AddressLimit = 2
    GlobalBase = 0
    GlobalCount = 1
    MaxLocals = 1
    MaxDepth = 2
    MaxStack = 2
    MaxOperands = 2
    MaxArguments = 1
    InitialPC = 0
INVARIANTS
    TypeOK
    FramesNested
PROPERTIES
    CallersUntouched
    PrivateStacks

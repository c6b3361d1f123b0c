\* Bytes with three values, so that three characters make the count of a table
\* carry into its high byte, as some addresses and a height do; two nested tables
\* that may overlap or reach past dynamic memory.
SPECIFICATION Spec
CONSTANTS
    ByteLimit   = 3
    DynamicSize = 5
    Character   = {1}
    StreamDepth = 2
    Height      = {0, 4}
    MaxCaptured = 1
INVARIANTS
    TypeOK
    TablesHoldText
    ScreenSurvives
PROPERTIES
    ClosedTableComplete
    SilentWhileRedirected

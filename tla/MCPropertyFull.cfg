\* The same bytes, with the claim that includes the full list.
SPECIFICATION PropertySpec
CONSTANTS
    MaxProperty = 2
    MaxLength   = 2
    NameScale   = 1
    NameLengths = {0}
    StorySize   = 6
    NameableSize = 6
    DynamicSize = 4
INVARIANTS
    FullListsEnumerable

SPECIFICATION RedactionSpec
CONSTANTS
    PatternCount = 2
    MaxLength = 5
    Sizes = {1, 3}
    Mark = Mark
INVARIANTS
    DisjointIsExact
    IsolatedAreGone
CHECK_DEADLOCK FALSE

SPECIFICATION RedactionSpec
CONSTANTS
    PatternCount = 2
    MaxLength = 4
    Sizes = {1, 3}
    Mark = Mark
INVARIANT
    NothingMatchedIsLeft
CHECK_DEADLOCK FALSE

SPECIFICATION Spec
CONSTANTS
    Calls = {c1, c2}
    Fragments = {left, right, other, mark}
    Redacted <- MCRedacted
    Prompts <- MCPrompts
    Names <- MCNames
    Answering <- MCAnswering
    Policies <- MCPolicies
    NoModel = NoModel
    left = left
    right = right
    other = other
    mark = mark
    m = m
    alias = alias
    p = p
    NoPrefix = NoPrefix
SYMMETRY CallSymmetry
INVARIANTS
    RunsAreTraced
    FreshMeansStored
    CachedIsAllowedOut
    RepeatIsCached
CHECK_DEADLOCK FALSE

SPECIFICATION Spec
CONSTANTS
    p1 = p1
    p2 = p2
    m1 = m1
    m2 = m2
    t1 = t1
    t2 = t2
    k1 = k1
    k2 = k2
    v1 = v1
    v2 = v2
    strict = strict
    team = team
    app = app
    input = input
    first = first
    Costs = {1, 2, 3}
    DefaultCost = 1
    Tools = {t1, t2}
    Patterns = {p1, p2, BadPattern}
    Models = {m1, m2}
    Limits = {1}
    Keys = {k1, k2}
    Values = {v1, v2}
    None = None
    Pii = Pii
    Tangled = Tangled
    BadPattern = BadPattern
    Broken = Broken
    Absent = Absent
    Profiles = {strict, team}
    Projects = {app}
    Samples <- MCSamples
    Configurations <- MCConfigurations
    PackNames = {strict, team}
    PackFiles <- MCPackFiles
    MaxPackChanges = 1
    Names = {input, first}
    Steps <- MCSteps
    Variables <- MCVariables
    Outputs <- MCOutputs
    Requests <- MCRequests
    MaxSteps = 2
INVARIANTS
    AllowedIsClean
    GroupingIsIrrelevant
    RulesAreIntended
    UnrecordedIsLast
    RenderingIsExact
CHECK_DEADLOCK FALSE

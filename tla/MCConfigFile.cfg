SPECIFICATION FairSpec
CONSTANTS
    Clients = {c1, c2}
    Dashboard = Dashboard
    Settings = {setting}
    ProjectRules = {rule1, rule2}
    Values = {Default, changed}
    Default = Default
    Absent = Absent
    MaxOps = 2
PROPERTIES
    ImplementsAtomicFile
    DashboardCatchesUp
CHECK_DEADLOCK FALSE

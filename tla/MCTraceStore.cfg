SPECIFICATION Spec
CONSTANTS
    Writers = {w1, w2}
    Discarding = {w1}
    Provider <- OneProvider
    Model <- OwnModel
    Ages = {0, 1}
    MaxCleanups = 2
    Horizon = 2
INVARIANTS
    RunsKeepTheirCosts
    
CHECK_DEADLOCK FALSE

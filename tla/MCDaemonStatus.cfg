SPECIFICATION Spec
CONSTANTS
    Daemons = {d1, d2, d3}
    Pids <- MCPids
    Users = {u1, u2}
    GatewayEnabled = TRUE
    MaxCommands = 4
    Absent = Absent
    NoPid = NoPid
SYMMETRY DaemonSymmetry
INVARIANT
    StatusIsTrue
CHECK_DEADLOCK FALSE

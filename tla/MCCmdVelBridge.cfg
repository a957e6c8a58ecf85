SPECIFICATION Spec
CONSTANTS
    PlannerCmds <- MCPlannerCmds
    RemoteMsgs <- MCRemoteMsgs
    MaxVel <- MCMaxVel
    ZeroThreshold = 2
    Deadzone = 1
    CmdTimeout = 1
    StaleTimeout = 2
    MaxLate = 1
    InDepth = 1
    SportDepth = 3
INVARIANTS TypeOK RemoteRestored WatchdogHolds
PROPERTY ImplementsArbiter
CHECK_DEADLOCK FALSE

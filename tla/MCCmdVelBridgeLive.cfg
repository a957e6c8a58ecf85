SPECIFICATION FairSpec
CONSTANTS
    PlannerCmds <- MCFewCmds
    RemoteMsgs <- MCRemoteMsgs
    MaxVel <- MCMaxVel
    ZeroThreshold = 2
    Deadzone = 1
    CmdTimeout = 0
    StaleTimeout = 1
    MaxLate = 0
    InDepth = 1
    SportDepth = 3
PROPERTIES CommandLossStops ExitReachesRobot
CHECK_DEADLOCK FALSE

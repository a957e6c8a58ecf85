SPECIFICATION FairSpec
CONSTANTS
    Poses <- MCPoses
    Paths <- MCPaths
    JoyMsgs <- MCJoys
    SpeedMsgs <- MCSpeeds
    StopMsgs <- MCStops
    NoRotAtStop = FALSE
    NoRotAtGoal = TRUE
    UseInclRateToSlow = TRUE
    UseInclToStop = TRUE
    MaxSpeed = 5
    AutonomySpeed = 9
    MaxAccel = 2
    NoRotSpeed = 4
    LookAheadDis = 2
    StopDisThre = 0
    SlowDwnDisThre = 2
    GoalCloseDis = 4
    SwitchTimeThre = 0
    JoyToSpeedDelay = 0
    SlowTime1 = 1
    SlowTime2 = 1
    StopTime = 1
    PubSkipNum = 1
INVARIANTS TypeOK PathPointInPath SpeedBounded
PROPERTIES BacksOnlyBraking StopIsRest SmoothSpeed IdleComesToRest

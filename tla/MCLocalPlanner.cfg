SPECIFICATION FairSpec
CONSTANTS
    Poses <- MCPoses
    Goals <- MCGoals
    JoyMsgs <- MCJoys
    SpeedMsgs <- MCSpeeds
    Clouds <- MCClouds
    Boundaries <- MCBoundaries
    Additions <- MCAdditions
    StartPath <- MCStartPath
    Branch <- MCBranch
    SearchRadius = 1
    GridLength = 5
    GridWidth = 3
    DirThre = 2
    SpeedUnit = 2
    StartSpeed = 2
    StartAutonomy = FALSE
    AdjacentRange = 12
    PathScale = 2
    MinPathScale = 1
    PathScaleStep = 1
    MinPathRange = 3
    PathRangeStep = 2
    GoalClearRange = 1
    PointPerPathThre = 2
    PathScaleBySpeed = TRUE
    PathRangeBySpeed = TRUE
    PathCropByGoal = TRUE
    TwoWayDrive = FALSE
    JoyToSpeedDelay = 0
    JoyToCheckObstacleDelay = 1
INVARIANTS TypeOK ScaleRestored IgnoredOnlyUnattended
PROPERTIES PathIsClear StopsForCloseObstacles CloudAnswered

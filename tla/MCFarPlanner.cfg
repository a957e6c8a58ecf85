SPECIFICATION FairSpec
CONSTANTS
    None = None
    N = 12
    Corners = {0, 3, 6, 9}
    Doors = {1, 7}
    Places <- MCPlaces
    Goals = {0, 6}
    Views <- MCViews
    Modes <- MCModes
    Route <- MCRoute
    Dist <- MCDist
    Heading <- MCHeading
    Advance <- MCAdvance
    ConvergeDist = 1
    AdjustRadius = 1
    MomentumDist = 1
    MomentumThred = 3
    MaxEvents = 3
INVARIANTS TypeOK MomentumSound
PROPERTIES CommandTakesEffect GivesUpRightly GoalSettled
CHECK_DEADLOCK FALSE

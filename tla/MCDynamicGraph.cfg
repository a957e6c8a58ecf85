SPECIFICATION Spec
CONSTANTS
    odom = odom
    c1 = c1
    c2 = c2
    c3 = c3
    n1 = n1
    n2 = n2
    g1 = g1
    g2 = g2
    None = None
    Odom = odom
    Corners = {c1, c2, c3}
    NavPoints = {n1}
    Goals = {}
    Views <- MCContourViews
    Sight <- MCContourSight
    Outline <- MCContourOutline
    VotesSize = 2
    OdomVotesSize = 1
    GoalVotesSize = 2
    FinalizeThred = 2
    DumperThred = 0
    IsStaticEnv = TRUE
VIEW MCContourState
INVARIANT TypeOK ListsMirrored VotesTracked EdgesBacked ContourVoted

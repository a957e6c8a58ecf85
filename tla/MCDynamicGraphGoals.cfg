SPECIFICATION Spec
CONSTANTS
    odom = odom
    c1 = c1
    c2 = c2
    c3 = c3
    n1 = n1
    n2 = n2
    g1 = g1
    g2 = g2
    None = None
    Odom = odom
    Corners = {}
    NavPoints = {n1, n2}
    Goals = {g1, g2}
    Views <- MCGoalViews
    Sight <- MCGoalSight
    Outline = {}
    VotesSize = 1
    OdomVotesSize = 1
    GoalVotesSize = 1
    FinalizeThred = 1
    DumperThred = 0
    IsStaticEnv = FALSE
INVARIANT RemovedForgotten OdomEdgesRevalidated

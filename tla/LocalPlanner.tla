---------------------------- MODULE LocalPlanner ----------------------------
(***************************************************************************)
(* The local planner (local_planner/src/localPlanner.cpp): a loop that     *)
(* hands waiting messages to their handlers and, when an obstacle cloud    *)
(* has arrived, searches a fan of precomputed paths for one the obstacles  *)
(* leave clear, shrinking the paths and their range until one is found or  *)
(* nothing is left to shrink.                                              *)
(*                                                                         *)
(* The fan has a path for each quarter and each end direction.  The paths  *)
(* of a quarter share the start path that is published for them.  Of the   *)
(* scores the model keeps whether they are positive: any clear quarter     *)
(* with a positive score may be selected.                                  *)
(***************************************************************************)
EXTENDS Plane, Sequences, FiniteSets

CONSTANTS
    Poses, Goals, JoyMsgs, SpeedMsgs,
    Clouds,         \* sets of obstacle points, one per voxel of terrainDwzFilter
    Boundaries,     \* sets of interpolated boundary points
    Additions,      \* sets of added obstacles
    StartPath,      \* points of the start path, for scale 1
    Branch,         \* end direction -> the points where its path goes on
    SearchRadius,   \* half the width a path needs, for scale 1
    GridLength,     \* gridVoxelOffsetX: how far ahead the voxel grid reaches, for scale 1
    GridWidth,      \* gridVoxelOffsetY: its reach to either side at that end
    DirThre,        \* dirThre, in eighths of a turn
    SpeedUnit,      \* joySpeed of full speed
    StartSpeed,     \* autonomySpeed / maxSpeed
    StartAutonomy,  \* autonomyMode parameter
    AdjacentRange, PathScale, MinPathScale, PathScaleStep, MinPathRange, PathRangeStep,
    GoalClearRange, PointPerPathThre,
    PathScaleBySpeed, PathRangeBySpeed, PathCropByGoal, TwoWayDrive,
    JoyToSpeedDelay, JoyToCheckObstacleDelay

PoseSet == [x : Int, y : Int, yaw : Quarters]
JoySet == [axis3 : Int, axis4 : Int, waypoint : BOOLEAN, ignore : BOOLEAN]
Ends == DOMAIN Branch
MaxDelay == Larger(JoyToSpeedDelay, JoyToCheckObstacleDelay)

ASSUME MessagesAssumption ==
    /\ Poses \subseteq PoseSet /\ Goals \subseteq PointSet /\ Goals # {}
    /\ JoyMsgs \subseteq JoySet /\ SpeedMsgs \subseteq Int
    /\ \A s \in Clouds \cup Boundaries \cup Additions : s \subseteq PointSet /\ IsFiniteSet(s)

ASSUME PathsAssumption ==
    /\ StartPath \in Seq(PointSet) /\ Len(StartPath) > 0
    /\ StartPath[1] = [x |-> 0, y |-> 0]
    /\ Ends \subseteq Headings /\ 0 \in Ends
    /\ \A e \in Ends : Branch[e] \subseteq PointSet
    /\ SearchRadius \in Nat /\ GridLength \in Nat \ {0} /\ GridWidth \in Nat
    /\ DirThre \in 1..4

ASSUME NumbersAssumption ==
    /\ SpeedUnit \in Nat \ {0} /\ StartSpeed \in 0..SpeedUnit
    /\ AdjacentRange \in Nat /\ MinPathRange \in Nat /\ GoalClearRange \in Nat
    /\ MinPathScale \in Nat \ {0} /\ PathScale \in Nat /\ PathScale >= MinPathScale
    /\ PathScaleStep \in Nat \ {0} /\ PathRangeStep \in Nat \ {0}
    /\ PointPerPathThre \in Nat \ {0}
    /\ JoyToSpeedDelay \in Nat /\ JoyToCheckObstacleDelay \in Nat

\* Paths of the smallest scale still reach the smallest range.
ASSUME ReachAssumption == AdjacentRange * MinPathScale >= MinPathRange * PathScale

ASSUME FlagsAssumption ==
    {StartAutonomy, PathScaleBySpeed, PathRangeBySpeed, PathCropByGoal, TwoWayDrive}
        \subseteq BOOLEAN

VARIABLES
    pose, goal,
    cloud,                      \* terrainCloudDwz, and plannerCloud while planning
    newTerrainCloud,
    boundaryCloud, addedObstacles,
    joySpeed, joySpeedRaw, joyDir, autonomyMode, checkObstacle,
    joyAge,                     \* now - joyTime
    ignoreButton,               \* history: the newest joystick message's button 5
    searching,                  \* the loop is inside the search
    pathScale, defPathScale, pathRange, relativeGoalDis, pathFound,
    path                        \* the newest message on /path

heard    == <<goal, cloud, boundaryCloud, addedObstacles>>
joy      == <<joySpeed, joySpeedRaw, joyDir, autonomyMode, checkObstacle, joyAge, ignoreButton>>
search   == <<pathScale, defPathScale, pathRange, relativeGoalDis>>
planning == <<search, searching, pathFound, path>>
vars     == <<pose, heard, newTerrainCloud, joy, planning>>

-----------------------------------------------------------------------------
Origin == [x |-> 0, y |-> 0]

\* The angle between two headings, given their difference.
AngDiff(d) == IF Abs(d) > 4 THEN Abs(8 - Abs(d)) ELSE Abs(d)

InPath(e) == {StartPath[i] : i \in DOMAIN StartPath} \cup Branch[e]

\* A point, seen from the vehicle, is looked at by the search.
Considered(q) ==
    /\ checkObstacle
    /\ Dist(q) < pathRange
    /\ PathCropByGoal => Dist(q) <= relativeGoalDis + GoalClearRange

\* A point, turned into the direction of a quarter, has a voxel: the grid lies ahead of
\* the vehicle only, and widens from the search radius at its near end to GridWidth.
InGrid(p) ==
    /\ p.x \in 0..(pathScale * GridLength)
    /\ Abs(p.y) * GridLength <= GridWidth * p.x + SearchRadius * (pathScale * GridLength - p.x)

\* Slip: the search radius is not scaled with the path.
InTheWayUnscaled(q, d, e) ==
    /\ InGrid(Turned(q, d))
    /\ \E c \in InPath(e) : Apart(Turned(q, d), Scaled(pathScale, c)) <= SearchRadius

\* A point, seen from the vehicle, is in the way of a path.
InTheWay(q, d, e) ==
    /\ InGrid(Turned(q, d))
    /\ \E c \in InPath(e) :
          Apart(Turned(q, d), Scaled(pathScale, c)) <= pathScale * SearchRadius

Blocking(points, d, e) ==
    {p \in points : LET q == Relative(p, pose)
                    IN Dist(q) < AdjacentRange /\ Considered(q) /\ InTheWay(q, d, e)}

\* clearPathList: how many points block a path; boundary points count in full.
ClearPathList(d, e) ==
    Cardinality(Blocking(cloud, d, e)) + Cardinality(Blocking(addedObstacles, d, e))
      + PointPerPathThre * Cardinality(Blocking(boundaryCloud, d, e))

\* A path with a positive score.
Scoring(d, e) ==
    /\ AngDiff(joyDir - d) <= DirThre
    /\ AngDiff(joyDir - e - d) <= 1
    /\ ClearPathList(d, e) < PointPerPathThre

\* selectedGroupID
Selectable == {d \in Quarters : \E e \in Ends : Scoring(d, e)}

-----------------------------------------------------------------------------
Init ==
    /\ pose = [x |-> 0, y |-> 0, yaw |-> 0] /\ goal \in Goals
    /\ cloud = {} /\ newTerrainCloud = FALSE /\ boundaryCloud = {} /\ addedObstacles = {}
    /\ joySpeed = (IF StartAutonomy THEN StartSpeed ELSE 0) /\ joySpeedRaw = 0 /\ joyDir = 0
    /\ autonomyMode = StartAutonomy /\ checkObstacle = TRUE
    /\ joyAge = MaxDelay + 1 /\ ignoreButton = FALSE
    /\ searching = FALSE /\ pathScale = PathScale /\ defPathScale = PathScale
    /\ pathRange = AdjacentRange /\ relativeGoalDis = AdjacentRange
    /\ pathFound = FALSE /\ path = <<Origin>>

\* odometryHandler
OdometryHandler ==
    /\ ~searching
    /\ pose' \in Poses
    /\ UNCHANGED <<heard, newTerrainCloud, joy, planning>>

\* terrainCloudHandler: what is far from the vehicle now is forgotten.
TerrainCloudHandler ==
    /\ ~searching
    /\ \E c \in Clouds : cloud' = {p \in c : Apart(p, pose) < AdjacentRange}
    /\ newTerrainCloud' = TRUE
    /\ UNCHANGED <<pose, goal, boundaryCloud, addedObstacles, joy, planning>>

RawSpeed(m) == Larger(Abs(m.axis3), Abs(m.axis4))
JoySpeedUnclamped(m) == IF m.axis4 = 0 THEN 0 ELSE RawSpeed(m)               \* slip
JoySpeed(m) == IF m.axis4 = 0 THEN 0 ELSE Smaller(RawSpeed(m), SpeedUnit)
JoyDir(m) == Sign(m.axis4) * Bearing([x |-> m.axis4, y |-> m.axis3])

\* joystickHandler: a joystick at rest keeps the last direction.
JoystickHandler ==
    /\ ~searching
    /\ \E m \in JoyMsgs :
         /\ joySpeedRaw' = RawSpeed(m)
         /\ joySpeed' = IF m.axis4 < 0 /\ ~TwoWayDrive THEN 0 ELSE JoySpeed(m)
         /\ joyDir' = IF JoySpeed(m) > 0 THEN JoyDir(m) ELSE joyDir
         /\ autonomyMode' = m.waypoint
         /\ checkObstacle' = ~m.ignore
         /\ ignoreButton' = m.ignore
    /\ joyAge' = 0
    /\ UNCHANGED <<pose, heard, newTerrainCloud, planning>>

\* goalHandler
GoalHandler ==
    /\ ~searching
    /\ goal' \in Goals
    /\ UNCHANGED <<pose, cloud, boundaryCloud, addedObstacles, newTerrainCloud, joy, planning>>

\* speedHandler
SpeedHandler ==
    /\ ~searching
    /\ autonomyMode /\ joyAge > JoyToSpeedDelay /\ joySpeedRaw = 0
    /\ \E s \in SpeedMsgs : joySpeed' = Larger(0, Smaller(s, SpeedUnit))
    /\ UNCHANGED <<pose, heard, newTerrainCloud, joySpeedRaw, joyDir, autonomyMode,
                   checkObstacle, joyAge, ignoreButton, planning>>

\* boundaryHandler
BoundaryHandler ==
    /\ ~searching
    /\ boundaryCloud' \in Boundaries
    /\ UNCHANGED <<pose, goal, cloud, addedObstacles, newTerrainCloud, joy, planning>>

\* addedObstaclesHandler
AddedObstaclesHandler ==
    /\ ~searching
    /\ addedObstacles' \in Additions
    /\ UNCHANGED <<pose, goal, cloud, boundaryCloud, newTerrainCloud, joy, planning>>

\* Slip: the time since the joystick is not looked at.
CheckObstacleHandlerAnytime ==
    /\ ~searching
    /\ autonomyMode
    /\ checkObstacle' \in BOOLEAN
    /\ UNCHANGED <<pose, heard, newTerrainCloud, joySpeed, joySpeedRaw, joyDir, autonomyMode,
                   joyAge, ignoreButton, planning>>

\* checkObstacleHandler: in waypoint mode, with the joystick left alone for a while.
CheckObstacleHandler ==
    /\ ~searching
    /\ autonomyMode /\ joyAge > JoyToCheckObstacleDelay
    /\ checkObstacle' \in BOOLEAN
    /\ UNCHANGED <<pose, heard, newTerrainCloud, joySpeed, joySpeedRaw, joyDir, autonomyMode,
                   joyAge, ignoreButton, planning>>

\* The node's clock advances.
Tick ==
    /\ ~searching
    /\ joyAge' = Older(joyAge, MaxDelay)
    /\ UNCHANGED <<pose, heard, newTerrainCloud, joySpeed, joySpeedRaw, joyDir, autonomyMode,
                   checkObstacle, ignoreButton, planning>>

-----------------------------------------------------------------------------
\* The goal, seen from the vehicle, sets the direction in waypoint mode.
RelativeGoal == Relative(goal, pose)
GoalDir == IF TwoWayDrive THEN Bearing(RelativeGoal)
           ELSE Larger(-2, Smaller(2, Bearing(RelativeGoal)))

SpeedPart(n) == (n * joySpeed) \div SpeedUnit

\* A cloud has arrived: the direction, range and scale the search begins with.
BeginPlanning ==
    /\ ~searching /\ newTerrainCloud
    /\ newTerrainCloud' = FALSE
    /\ searching' = TRUE /\ pathFound' = FALSE
    /\ pathRange' = Larger(MinPathRange,
                           IF PathRangeBySpeed THEN SpeedPart(AdjacentRange) ELSE AdjacentRange)
    /\ IF autonomyMode
       THEN relativeGoalDis' = Dist(RelativeGoal) /\ joyDir' = GoalDir
       ELSE relativeGoalDis' = AdjacentRange /\ joyDir' = joyDir
    /\ defPathScale' = pathScale
    /\ pathScale' = Larger(MinPathScale,
                           IF PathScaleBySpeed THEN SpeedPart(pathScale) ELSE pathScale)
    /\ UNCHANGED <<pose, heard, joySpeed, joySpeedRaw, autonomyMode, checkObstacle, joyAge,
                   ignoreButton, path>>

Searchable == pathScale >= MinPathScale /\ pathRange >= MinPathRange

\* A point of the start path is published while it is within the range and the goal.
WithinReach(c) == LET dis == pathScale * Dist(c) IN dis <= pathRange /\ dis <= relativeGoalDis

\* Its points before the first one out of reach.
Reached(n) ==
    /\ n \in 1..Len(StartPath)
    /\ \A i \in 1..n : WithinReach(StartPath[i])
    /\ n < Len(StartPath) => ~WithinReach(StartPath[n + 1])

\* The first points of the start path of a quarter, in the vehicle frame.
StartPathOf(d, n) == [i \in 1..n |-> Turned(Scaled(pathScale, StartPath[i]), -d)]

\* Slip: the scale of the search is kept.
SearchFoundKeepsScale ==
    /\ searching /\ Searchable
    /\ \E d \in Selectable, n \in 1..Len(StartPath) : Reached(n) /\ path' = StartPathOf(d, n)
    /\ pathFound' = TRUE /\ searching' = FALSE
    /\ UNCHANGED <<pose, heard, newTerrainCloud, joy, search>>

\* A quarter is clear: its start path is published and the search ends.
SearchFound ==
    /\ searching /\ Searchable
    /\ \E d \in Selectable, n \in 1..Len(StartPath) : Reached(n) /\ path' = StartPathOf(d, n)
    /\ pathFound' = TRUE /\ searching' = FALSE
    /\ pathScale' = defPathScale
    /\ UNCHANGED <<pose, heard, newTerrainCloud, joy, defPathScale, pathRange, relativeGoalDis>>

\* Slips: shrinking starts over at the smallest scale, or the range is never shrunk.
SearchShrinkStartsOver ==
    /\ searching /\ Searchable /\ Selectable = {}
    /\ IF pathScale >= MinPathScale + PathScaleStep
       THEN /\ pathScale' = pathScale - PathScaleStep
            /\ pathRange' = (AdjacentRange * pathScale') \div defPathScale
       ELSE /\ pathScale' = defPathScale
            /\ pathRange' = AdjacentRange
    /\ UNCHANGED <<pose, heard, newTerrainCloud, joy, defPathScale, relativeGoalDis, searching,
                   pathFound, path>>

SearchShrinkScaleOnly ==
    /\ searching /\ Searchable /\ Selectable = {}
    /\ pathScale' = pathScale - PathScaleStep
    /\ pathRange' = (AdjacentRange * pathScale') \div defPathScale
    /\ UNCHANGED <<pose, heard, newTerrainCloud, joy, defPathScale, relativeGoalDis, searching,
                   pathFound, path>>

\* Nothing is clear: smaller paths, then nearer obstacles only.
SearchShrink ==
    /\ searching /\ Searchable /\ Selectable = {}
    /\ IF pathScale >= MinPathScale + PathScaleStep
       THEN /\ pathScale' = pathScale - PathScaleStep
            /\ pathRange' = (AdjacentRange * pathScale') \div defPathScale
       ELSE pathRange' = pathRange - PathRangeStep /\ pathScale' = pathScale
    /\ UNCHANGED <<pose, heard, newTerrainCloud, joy, defPathScale, relativeGoalDis, searching,
                   pathFound, path>>

\* Nothing is left to shrink: the path of one point that stops the vehicle.
SearchFail ==
    /\ searching /\ ~Searchable
    /\ path' = <<Origin>>
    /\ searching' = FALSE
    /\ pathScale' = defPathScale
    /\ UNCHANGED <<pose, heard, newTerrainCloud, joy, defPathScale, pathRange, relativeGoalDis,
                   pathFound>>

Next ==
    \/ OdometryHandler \/ TerrainCloudHandler \/ JoystickHandler \/ GoalHandler
    \/ SpeedHandler \/ BoundaryHandler \/ AddedObstaclesHandler \/ CheckObstacleHandler
    \/ Tick \/ BeginPlanning \/ SearchFound \/ SearchShrink \/ SearchFail

Spec == Init /\ [][Next]_vars

\* The loop of main() keeps running.
FairSpec == Spec /\ WF_vars(BeginPlanning) /\ WF_vars(SearchFound \/ SearchShrink \/ SearchFail)

-----------------------------------------------------------------------------
(***************************************************************************)
(* Properties.                                                             *)
(***************************************************************************)

\* The types of the node's variables.
TypeOK ==
    /\ pose \in PoseSet /\ goal \in PointSet
    /\ cloud \in SUBSET PointSet /\ boundaryCloud \in SUBSET PointSet
    /\ addedObstacles \in SUBSET PointSet /\ newTerrainCloud \in BOOLEAN
    /\ joySpeed \in 0..SpeedUnit /\ joySpeedRaw \in Nat /\ joyDir \in Headings
    /\ autonomyMode \in BOOLEAN /\ checkObstacle \in BOOLEAN /\ ignoreButton \in BOOLEAN
    /\ joyAge \in 0..(MaxDelay + 1)
    /\ searching \in BOOLEAN /\ pathFound \in BOOLEAN
    /\ pathScale \in MinPathScale..PathScale /\ defPathScale \in MinPathScale..PathScale
    /\ pathRange \in Int /\ relativeGoalDis \in Nat
    /\ path \in Seq(PointSet) /\ Len(path) > 0

\* pathScale, which the search uses as its own variable, is the parameter again after
\* every search, however it ended: planning does not drift from cycle to cycle.
ScaleRestored == ~searching => pathScale = PathScale

\* Obstacles are ignored only while the operator's button says so, or in waypoint mode
\* with the joystick left alone: taking the joystick, or leaving waypoint mode, brings
\* the check back whatever /check_obstacle said before.
IgnoredOnlyUnattended ==
    ~checkObstacle /\ ~ignoreButton => autonomyMode /\ joyAge > JoyToCheckObstacleDelay

\* A point of a path, placed in the map.
Placed(q) == LET t == Turned(q, -pose.yaw) IN [x |-> pose.x + t.x, y |-> pose.y + t.y]

\* The vehicle is stopped only because of obstacles close to it: no nearer ones than the
\* smallest range and one step, and the search would have gone on.
CloseBy(points) == {p \in points : Apart(p, pose) < MinPathRange + PathRangeStep}
Weight(s, a, b) == Cardinality(s) + Cardinality(a) + PointPerPathThre * Cardinality(b)

StopsForCloseObstacles ==
    [][searching /\ ~searching' /\ ~pathFound'
         => /\ checkObstacle
            /\ Weight(CloseBy(cloud), CloseBy(addedObstacles), CloseBy(boundaryCloud))
                 >= PointPerPathThre]_vars

\* Obstacles of the map within half a path's width of one of its points, among those
\* the search's last range and the goal let it look at and the grid of the path's
\* quarter holds: nothing behind the vehicle's line across the path's start.
Touching(points, d, q) ==
    {p \in points : /\ Apart(p, Placed(q)) <= pathScale * SearchRadius
                    /\ InGrid(Turned(Relative(p, pose), d))
                    /\ Considered([x |-> p.x - pose.x, y |-> p.y - pose.y])
                    /\ Apart(p, pose) < AdjacentRange}

\* A path that is published is clear, in the map, of the obstacles ahead of its start
\* that were considered, at whatever scale the search arrived.
PathIsClear ==
    [][searching /\ pathFound'
         => \E d \in Quarters :
              /\ path' = StartPathOf(d, Len(path'))
              /\ \A i \in 1..Len(path') :
                   Weight(Touching(cloud, d, path'[i]), Touching(addedObstacles, d, path'[i]),
                          Touching(boundaryCloud, d, path'[i])) < PointPerPathThre]_vars

\* Every cloud is answered with a path: the search always ends.
CloudAnswered == newTerrainCloud ~> ~newTerrainCloud /\ ~searching
=============================================================================
